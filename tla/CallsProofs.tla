---------------------------- MODULE CallsProofs ----------------------------
(***************************************************************************)
(* Calls, for any number of users, calls and goroutines and any faults.    *)
(*  1. Inv: the journal never invents an act of a participant.             *)
(*  2. BusyInv: a live call that nothing slipped past holds both markers   *)
(*     of its users, so two such calls have no user in common.             *)
(*  3. ToldInv and LateInv: a call is written off or answered, not both,   *)
(*     unless the answer was late.                                         *)
(***************************************************************************)
EXTENDS Calls, TLAPS

\* The callee of c sent an answer for it.
Answered(c) == <<party[c].callee, "answer", c>> \in acts

\* What a goroutine knows about its own call while it runs: the frame that
\* started it was received, the call was placed, and the role it relies on is
\* the one it checked.
JobInv(p) ==
  LET j == job[p] IN
  /\ j.op = "invite" => j.on \in CallId /\ Invited(j.on)
  /\ j.op \in Frame => /\ j.on \in CallId /\ j.who \in User /\ Invited(j.on)
                       /\ <<j.who, j.op, j.on>> \in acts
  /\ j.op = "timeout" => j.on \in CallId
  /\ j.op = "disconnect" => /\ j.who \in User /\ Dropped(j.who)
                            /\ j.pc # "marker" => j.on \in CallId
  /\ j.pc = "livecheck" => j.mark \in CallId
  /\ j.pc \in {"markget", "markset"} => j.op = "answer" /\ j.who = party[j.on].callee
  /\ j.pc \in {"finalize", "delget", "del"} =>
       /\ j.op \in {"reject", "cancel", "hangup", "timeout", "disconnect"}
       /\ j.on \in CallId

\* The status a goroutine is about to write is justified by what it read.
VerdictInv(p) ==
  LET j == job[p] IN
  j.pc = "finalize" =>
    /\ j.op # "timeout" => Invited(j.on)
    /\ j.op = "reject" => j.who = party[j.on].callee
    /\ j.op = "cancel" => j.who = party[j.on].caller
    /\ j.op = "hangup" => involves(j.on, j.who)
    /\ j.op = "disconnect" /\ j.seen # "connected" => j.who = party[j.on].caller
    /\ j.seen = "connected" => Invited(j.on) /\ Answered(j.on)

ConnectedInv == \A c \in CallId : call[c] = "connected" => Invited(c) /\ Answered(c)

PartyInv == \A c \in CallId : Invited(c) => party[c].caller \in User /\ party[c].callee \in User

RowInv == \A c \in CallId : row[c] # NoRow => Invited(c)

Inv ==
  /\ TypeOK
  /\ \A p \in Handler : JobInv(p) /\ VerdictInv(p)
  /\ ConnectedInv
  /\ PartyInv
  /\ RowInv
  /\ JournalTruth

\* A step forgets nothing: placed calls keep their parties, acts stay recorded.
Grows ==
  /\ \A d \in CallId : Invited(d) => party'[d] = party[d]
  /\ acts \subseteq acts'

-----------------------------------------------------------------------------
(* Updating one goroutine's record *)

\* The program counters and sides that the actions write are of their types.
LEMMA PcIn ==
  /\ "marker" \in Pc /\ "livecheck" \in Pc /\ "reap" \in Pc /\ "reach" \in Pc /\ "create" \in Pc
  /\ "journal" \in Pc /\ "announce" \in Pc /\ "markget" \in Pc /\ "markset" \in Pc
  /\ "get" \in Pc /\ "finalize" \in Pc /\ "delget" \in Pc /\ "del" \in Pc
  /\ "callee" \in Side
  BY Zenon DEF Pc, Side

\* So are the operations that start a goroutine.
LEMMA OpIn ==
  "invite" \in Op /\ "timeout" \in Op /\ "disconnect" \in Op /\ \A f \in Frame : f \in Op
  BY Zenon DEF Op

\* So are the phases, statuses and events they write.
LEMMA DataIn ==
  /\ "ringing" \in Phase /\ "connected" \in Phase /\ "none" \in Phase
  /\ "missed" \in Status /\ "canceled" \in Status /\ "rejected" \in Status /\ "completed" \in Status
  /\ "incoming" \in News /\ "answered" \in News /\ "over" \in News
  BY Zenon DEF Phase, Status, News

\* A finished goroutine is a goroutine.
LEMMA IdleIn == Idle \in Job
  BY Zenon DEF Idle, Job, Op, Pc, Side, Phase

\* Goto moves one goroutine and leaves the others alone.
LEMMA GotoJob ==
  ASSUME job \in [Handler -> Job], NEW p \in Handler, NEW x \in Pc, Goto(p, x)
  PROVE  /\ job' \in [Handler -> Job]
         /\ job'[p].pc = x /\ job'[p].seen = job[p].seen
         /\ job'[p].op = job[p].op /\ job'[p].on = job[p].on /\ job'[p].who = job[p].who
         /\ \A q \in Handler \ {p} : job'[q] = job[q]
  BY Zenon DEF Goto, Job

\* The same for a step that also remembers the phase it read.
LEMMA SeenJob ==
  ASSUME job \in [Handler -> Job], NEW p \in Handler, NEW x \in Pc, NEW s \in Phase,
         GotoWith(p, x, s)
  PROVE  /\ job' \in [Handler -> Job]
         /\ job'[p].pc = x /\ job'[p].seen = s
         /\ job'[p].op = job[p].op /\ job'[p].on = job[p].on /\ job'[p].who = job[p].who
         /\ \A q \in Handler \ {p} : job'[q] = job[q]
  BY ZenonT(40) DEF GotoWith, Job

\* The same for the steps that start and end the goroutine.
LEMMA StartJob ==
  ASSUME job \in [Handler -> Job], NEW p \in Handler, NEW o \in Op, NEW x \in Pc,
         NEW u \in User \cup {None}, NEW c \in CallId \cup {None}, Start(p, o, x, u, c)
  PROVE  /\ job' \in [Handler -> Job]
         /\ job'[p].op = o /\ job'[p].pc = x /\ job'[p].who = u /\ job'[p].on = c
         /\ \A q \in Handler \ {p} : job'[q] = job[q]
  <1>1. [Idle EXCEPT !.op = o, !.pc = x, !.who = u, !.on = c] \in Job
    BY Zenon DEF Idle, Job, Side, Phase
  <1> QED BY Zenon, <1>1 DEF Start, Idle

\* A finished goroutine is idle again and the others are untouched.
LEMMA FinishJob ==
  ASSUME job \in [Handler -> Job], NEW p \in Handler, Finish(p)
  PROVE  /\ job' \in [Handler -> Job]
         /\ job'[p] = Idle
         /\ \A q \in Handler \ {p} : job'[q] = job[q]
  BY Zenon, IdleIn DEF Finish

\* The same for the steps that follow a busy marker.
LEMMA TakeMarkerJob ==
  ASSUME job \in [Handler -> Job], NEW p \in Handler, NEW m \in CallId, TakeMarker(p, m)
  PROVE  /\ job' \in [Handler -> Job]
         /\ job'[p].pc = "livecheck" /\ job'[p].mark = m
         /\ job'[p].op = job[p].op /\ job'[p].on = job[p].on
         /\ \A q \in Handler \ {p} : job'[q] = job[q]
  BY ZenonT(40), PcIn DEF TakeMarker, Job

\* TakeCall gives the disconnect hook the call its marker named.
LEMMA TakeCallJob ==
  ASSUME job \in [Handler -> Job], NEW p \in Handler, NEW c \in CallId, TakeCall(p, c)
  PROVE  /\ job' \in [Handler -> Job]
         /\ job'[p].pc = "get" /\ job'[p].on = c
         /\ job'[p].op = job[p].op /\ job'[p].who = job[p].who
         /\ \A q \in Handler \ {p} : job'[q] = job[q]
  BY ZenonT(40), PcIn DEF TakeCall, Job

\* NotBusy moves on to the callee or to the reachability check.
LEMMA NotBusyJob ==
  ASSUME job \in [Handler -> Job], NEW p \in Handler, NotBusy(p)
  PROVE  /\ job' \in [Handler -> Job]
         /\ job'[p].pc \in {"marker", "reach"}
         /\ job'[p].op = job[p].op /\ job'[p].on = job[p].on
         /\ \A q \in Handler \ {p} : job'[q] = job[q]
  <1> DEFINE x == IF job[p].side = "caller" THEN "marker" ELSE "reach"
  <1>1. x \in Pc /\ x \in {"marker", "reach"}
    BY Zenon, PcIn
  <1>2. job' = [job EXCEPT ![p].side = "callee", ![p].mark = None, ![p].pc = x]
    BY Zenon DEF NotBusy
  <1> HIDE DEF x
  <1>3. job' = [job EXCEPT ![p] = [job[p] EXCEPT !.side = "callee", !.mark = None, !.pc = x]]
    BY Zenon, <1>2 DEF Job
  <1>4. [job[p] EXCEPT !.side = "callee", !.mark = None, !.pc = x] \in Job
    BY Zenon, <1>1, PcIn DEF Job
  <1> QED BY Zenon, <1>1, <1>3, <1>4 DEF Job

\* Publishing an event keeps the record of what each side heard well-typed.
LEMMA TellType ==
  ASSUME told \in [CallId -> [caller : News, callee : News]], NEW c, NEW s,
         NEW n \in News, Tell(c, s, n)
  PROVE  told' \in [CallId -> [caller : News, callee : News]]
  BY Zenon DEF Tell, Hear

\* Writing a journal row changes that row alone.
LEMMA WriteRowType ==
  ASSUME row \in [CallId -> [status : Status, ended : BOOLEAN]], NEW c \in CallId,
         NEW s \in Status, NEW e \in BOOLEAN, WriteRow(c, s, e)
  PROVE  /\ row' \in [CallId -> [status : Status, ended : BOOLEAN]]
         /\ row'[c].status = s
         /\ \A d \in CallId \ {c} : row'[d] = row[d]
  <1>1. [status |-> s, ended |-> e] \in [status : Status, ended : BOOLEAN]
    BY Zenon
  <1> QED BY Zenon, <1>1 DEF WriteRow

\* A goroutine that is idle promises nothing.
LEMMA IdleJob ==
  ASSUME NEW p \in Handler, job'[p] = Idle
  PROVE  JobInv(p)' /\ VerdictInv(p)'
  BY DEF JobInv, VerdictInv, Idle, Frame

-----------------------------------------------------------------------------
(* What the steps have in common *)

\* A goroutine that does not move keeps its invariants.
LEMMA FrozenJob ==
  ASSUME TypeOK, Grows, NEW q \in Handler, JobInv(q), VerdictInv(q), job'[q] = job[q]
  PROVE  JobInv(q)' /\ VerdictInv(q)'
  <1>1. \A d \in CallId : Invited(d) => Invited(d)' /\ party'[d] = party[d]
    BY Zenon DEF Grows, Invited
  <1>2. JobInv(q)'
    BY Zenon, <1>1 DEF JobInv, Grows, Dropped, TypeOK, Frame
  <1>3. VerdictInv(q)'
    BY Zenon, <1>1 DEF JobInv, VerdictInv, Grows, Answered, involves, TypeOK
  <1> QED BY Zenon, <1>2, <1>3

\* A row that is not written keeps its justification.
LEMMA FrozenRow ==
  ASSUME Grows, NEW c \in CallId, row'[c] = row[c], row[c] # NoRow => Invited(c), RowTruth(c)
  PROVE  (row[c] # NoRow => Invited(c))' /\ RowTruth(c)'
  <1>1. CASE row[c] = NoRow
    BY <1>1 DEF NoRow, RowTruth
  <1>2. CASE row[c] # NoRow
    <2>1. Invited(c)' /\ party'[c] = party[c]
      BY Zenon, <1>2 DEF Grows, Invited
    <2> QED BY Zenon, <2>1 DEF RowTruth, Sent, Dropped, Grows
  <1> QED BY Zenon, <1>1, <1>2

\* The inductive step, once for all actions: what is left to show for each is
\* that the parts of the state it writes are justified.
LEMMA Preserve ==
  ASSUME Inv, Grows, TypeOK', PartyInv',
         \A q \in Handler : job'[q] = job[q] \/ (JobInv(q)' /\ VerdictInv(q)'),
         \A c \in CallId : call'[c] = "connected" =>
           call[c] = "connected" \/ (Invited(c)' /\ Answered(c)'),
         \A c \in CallId : row'[c] = row[c] \/ (Invited(c)' /\ RowTruth(c)')
  PROVE  Inv'
  <1>1. \A q \in Handler : JobInv(q)' /\ VerdictInv(q)'
    BY Zenon, FrozenJob DEF Inv
  <1>2. ConnectedInv'
    BY Zenon DEF Inv, ConnectedInv, Grows, Invited, Answered
  <1>3. ASSUME NEW c \in CallId PROVE (row[c] # NoRow => Invited(c))' /\ RowTruth(c)'
    BY Zenon, <1>3, FrozenRow DEF Inv, RowInv, JournalTruth
  <1>4. RowInv' /\ JournalTruth'
    BY Zenon, <1>3 DEF RowInv, JournalTruth
  <1> QED BY Zenon, <1>1, <1>2, <1>4 DEF Inv

-----------------------------------------------------------------------------
(* call.invite, step by step *)

\* Starting an invite fixes the parties of a call nobody has placed yet.
LEMMA InviteStarts ==
  ASSUME Inv, NEW p \in Handler, NEW u \in User, NEW v \in User, NEW c \in CallId,
         onInvite(p, u, v, c)
  PROVE  Inv'
  <1>1. /\ job' \in [Handler -> Job] /\ \A q \in Handler \ {p} : job'[q] = job[q]
        /\ job'[p].op = "invite" /\ job'[p].pc = "marker" /\ job'[p].on = c
    BY StartJob, PcIn, OpIn DEF Inv, TypeOK, onInvite
  <1>2. party'[c] = [caller |-> u, callee |-> v] /\ \A d \in CallId \ {c} : party'[d] = party[d]
    BY Zenon DEF Inv, TypeOK, onInvite
  <1>3. Grows
    BY Zenon, <1>2 DEF onInvite, Grows
  <1>4. TypeOK'
    BY Zenon, <1>1, <1>2 DEF onInvite, Inv, TypeOK
  <1>5. Invited(c)' /\ PartyInv'
    BY <1>2, CallsAssumption DEF Invited, NoParty, Inv, PartyInv
  <1>6. JobInv(p)' /\ VerdictInv(p)'
    BY Zenon, <1>1, <1>5 DEF JobInv, VerdictInv, Frame
  <1> QED BY Zenon, <1>1, <1>3, <1>4, <1>5, <1>6, Preserve DEF onInvite

\* Recording a slip keeps the history well-typed.
LEMMA MarkType ==
  ASSUME TypeOK, NEW k \in Slip, NEW S, S \subseteq CallId, Mark(k, S)
  PROVE  slip' \subseteq (Slip \X CallId)
  <1>1. {k} \X S \subseteq Slip \X CallId
    BY SMT
  <1> QED BY Zenon, <1>1 DEF Mark, TypeOK

\* The slips the actions record are of their type.
LEMMA SlipIn ==
  "crossed" \in Slip /\ "blind" \in Slip /\ "unmarked" \in Slip /\ "late" \in Slip
  /\ "early" \in Slip /\ "orphan" \in Slip
  BY Zenon DEF Slip

\* The history of slips is well-typed after every step of a goroutine.
LEMMA SlipTyped ==
  ASSUME Inv, NEW p \in Handler, HandlerStep(p)
  PROVE  slip' \subseteq (Slip \X CallId)
  <1> DEFINE c == job[p].on
  <1>0. TypeOK /\ slip \subseteq (Slip \X CallId)
    BY Zenon DEF Inv, TypeOK
  <1>1. c \in CallId \cup {None} /\ (job[p].op \in Frame \cup {"invite", "timeout"} => c \in CallId)
        /\ (At(p, "invite", "livecheck") => job[p].mark \in CallId)
        /\ (At(p, "disconnect", "get") => c \in CallId)
    BY Zenon DEF Inv, TypeOK, Job, JobInv, At
  <1>2. \A us, d : Robbed(us, d) \subseteq CallId
    BY Zenon DEF Robbed
  <1>3. CASE slip' = slip
    BY Zenon, <1>0, <1>3
  <1>4. CASE \E k \in Slip : \E S \in SUBSET CallId : Mark(k, S)
    BY Zenon, <1>0, <1>4, MarkType
  <1>5. CASE Create(p)
    <2>1. Crossing(c) \subseteq CallId /\ (IF Astray(c) THEN Robbed(Parties(c), c) ELSE {}) \subseteq CallId
      BY Zenon, <1>2 DEF Crossing
    <2>2. CASE slip' = slip
      BY Zenon, <1>0, <2>2
    <2>3. CASE slip' # slip
      <3> DEFINE S == IF Astray(c) THEN Robbed(Parties(c), c) ELSE {}
      <3>1. slip' = slip \cup ({"crossed"} \X Crossing(c)) \cup ({"unmarked"} \X S)
        BY Zenon, <1>5, <2>3 DEF Create
      <3>2. S \subseteq CallId
        BY Zenon, <2>1
      <3> HIDE DEF S
      <3>3. {"crossed"} \X Crossing(c) \subseteq Slip \X CallId
        BY SMT, <2>1, SlipIn
      <3>4. {"unmarked"} \X S \subseteq Slip \X CallId
        BY SMT, <3>2, SlipIn
      <3> QED BY Zenon, <1>0, <3>1, <3>3, <3>4
    <2> QED BY Zenon, <2>2, <2>3
  <1>6. CASE ReadMarker(p)
    <2>1. {c} \in SUBSET CallId
      BY Zenon, <1>1, <1>6 DEF ReadMarker, At
    <2> QED BY Zenon, <1>3, <1>4, <1>6, <2>1, SlipIn DEF ReadMarker
  <1>7. CASE LiveCheck(p)
    <2>1. {c, job[p].mark} \in SUBSET CallId
      BY Zenon, <1>1, <1>7 DEF LiveCheck, At
    <2> QED BY Zenon, <1>3, <1>4, <1>7, <2>1, SlipIn DEF LiveCheck
  <1>8. CASE Reap(p) \/ DisconnectReap(p) \/ Delete(p)
    <2>1. \A us, d : Robbed(us, d) \in SUBSET CallId
      BY Zenon, <1>2
    <2> QED BY Zenon, <1>3, <1>4, <1>8, <2>1, SlipIn DEF Reap, DisconnectReap, Delete
  <1>9. CASE AnswerGet(p) \/ MarkSet(p)
    <2>1. {c} \in SUBSET CallId
      BY Zenon, <1>1, <1>9 DEF AnswerGet, MarkSet, At, Frame
    <2> QED BY Zenon, <1>3, <1>4, <1>9, <2>1, SlipIn DEF AnswerGet, MarkSet
  <1>10. CASE TerminateGet(p) \/ DisconnectGet(p)
    <2>1. {c} \in SUBSET CallId
      BY Zenon, <1>1, <1>10 DEF TerminateGet, DisconnectGet, Frame
    <2> QED BY Zenon, <1>3, <1>4, <1>10, <2>1, SlipIn DEF TerminateGet, DisconnectGet, EndedEarly
  <1>11. CASE onRingTimeout(p)
    <2>1. {c} \in SUBSET CallId
      BY Zenon, <1>1, <1>11 DEF onRingTimeout, At
    <2> QED BY Zenon, <1>3, <1>4, <1>11, <2>1, SlipIn DEF onRingTimeout
  <1>12. CASE Reach(p) \/ Journal(p) \/ Announce(p) \/ MarkGet(p) \/ DisconnectMarker(p)
              \/ finalize(p) \/ DeleteGet(p)
    BY Zenon, <1>3, <1>12 DEF Reach, Journal, Announce, MarkGet, DisconnectMarker, finalize, DeleteGet
  <1> QED BY Zenon, <1>5, <1>6, <1>7, <1>8, <1>9, <1>10, <1>11, <1>12 DEF HandlerStep

\* The side whose marker an invite is looking at is a user.
LEMMA SideIsUser ==
  ASSUME Inv, NEW p \in Handler, job[p].op = "invite"
  PROVE  PartyOf(job[p].on, job[p].side) \in User
  BY Zenon DEF Inv, JobInv, PartyInv, PartyOf

\* A step of an invite that stays an invite on the same call, or ends it.
LEMMA InviteJob ==
  ASSUME Inv, NEW p \in Handler, job[p].op = "invite", party' = party,
         job'[p] = Idle \/ (/\ job'[p].op = "invite" /\ job'[p].on = job[p].on
                            /\ job'[p].pc = "livecheck" => job'[p].mark \in CallId
                            /\ job'[p].pc \notin {"markget", "markset", "finalize", "delget", "del"})
  PROVE  JobInv(p)' /\ VerdictInv(p)'
  <1>1. CASE job'[p] = Idle
    BY Zenon, <1>1, IdleJob
  <1>2. CASE job'[p] # Idle
    BY Zenon, <1>2 DEF Inv, JobInv, VerdictInv, Frame, Invited
  <1> QED BY Zenon, <1>1, <1>2

\* A step that leaves the parties and the history alone.
LEMMA Still ==
  ASSUME Inv, party' = party, acts' = acts
  PROVE  Grows /\ PartyInv'
  BY Zenon DEF Grows, Inv, PartyInv, Invited

\* Reading a marker keeps the invariant.
LEMMA ReadMarkerStep ==
  ASSUME Inv, NEW p \in Handler, ReadMarker(p)
  PROVE  Inv'
  <1> DEFINE u == PartyOf(job[p].on, job[p].side)
  <1>1. u \in User
    BY Zenon, SideIsUser DEF ReadMarker, At
  <1>2. /\ job' \in [Handler -> Job] /\ \A q \in Handler \ {p} : job'[q] = job[q]
        /\ job'[p].pc \in {"marker", "reach", "livecheck"}
        /\ job'[p].pc = "livecheck" => job'[p].mark \in CallId
        /\ job'[p].op = job[p].op /\ job'[p].on = job[p].on
    <2>1. CASE busy[u] # None /\ TakeMarker(p, busy[u])
      <3>1. busy[u] \in CallId
        BY Zenon, <2>1, <1>1 DEF Inv, TypeOK
      <3> QED BY Zenon, <2>1, <3>1, TakeMarkerJob DEF Inv, TypeOK
    <2>2. CASE NotBusy(p)
      BY Zenon, <2>2, NotBusyJob DEF Inv, TypeOK
    <2> QED BY Zenon, <2>1, <2>2 DEF ReadMarker
  <1>s. slip' \subseteq (Slip \X CallId)
    BY Zenon, SlipTyped DEF HandlerStep
  <1>3. TypeOK'
    BY Zenon, <1>s, <1>2 DEF ReadMarker, Inv, TypeOK
  <1>4. JobInv(p)' /\ VerdictInv(p)'
    BY Zenon, <1>2, InviteJob DEF ReadMarker, At
  <1> QED BY Zenon, <1>2, <1>3, <1>4, Still, Preserve DEF ReadMarker

\* The live check, reaping a marker and the reachability check.
LEMMA LiveCheckStep ==
  ASSUME Inv, NEW p \in Handler, LiveCheck(p)
  PROVE  Inv'
  <1> DEFINE c == job[p].on
  <1>1. c \in CallId /\ Invited(c)
    BY Zenon DEF LiveCheck, At, Inv, JobInv
  <1>2. /\ job' \in [Handler -> Job] /\ \A q \in Handler \ {p} : job'[q] = job[q]
        /\ job'[p] = Idle \/ (job'[p].op = job[p].op /\ job'[p].on = job[p].on /\ job'[p].pc = "reap")
    BY Zenon, GotoJob, FinishJob, PcIn DEF LiveCheck, Inv, TypeOK
  <1>3. /\ row' \in [CallId -> [status : Status, ended : BOOLEAN]]
        /\ \A d \in CallId : row'[d] = row[d] \/ (d = c /\ row'[d].status = "missed")
    <2>1. row' = row \/ logInstant(c)
      BY Zenon DEF LiveCheck
    <2> HIDE DEF c
    <2> QED BY Zenon, <1>1, <2>1, DataIn, WriteRowType DEF logInstant, Inv, TypeOK
  <1>4. told' \in [CallId -> [caller : News, callee : News]]
    BY Zenon, TellType, DataIn DEF LiveCheck, Inv, TypeOK
  <1>s. slip' \subseteq (Slip \X CallId)
    BY Zenon, SlipTyped DEF HandlerStep
  <1>5. TypeOK'
    BY Zenon, <1>s, <1>2, <1>3, <1>4 DEF LiveCheck, Inv, TypeOK
  <1>6. JobInv(p)' /\ VerdictInv(p)'
    BY Zenon, <1>2, InviteJob DEF LiveCheck, At
  <1>7. ASSUME NEW d \in CallId PROVE row'[d] = row[d] \/ (Invited(d)' /\ RowTruth(d)')
    BY Zenon, <1>1, <1>3 DEF LiveCheck, RowTruth, Invited
  <1> QED BY Zenon, <1>2, <1>5, <1>6, <1>7, Still, Preserve DEF LiveCheck

\* Clearing an orphan marker (busyOnLiveCall) writes no journal row.
LEMMA ReapStep ==
  ASSUME Inv, NEW p \in Handler, Reap(p)
  PROVE  Inv'
  <1>1. /\ job' \in [Handler -> Job] /\ \A q \in Handler \ {p} : job'[q] = job[q]
        /\ job'[p].op = job[p].op /\ job'[p].on = job[p].on /\ job'[p].pc \in {"marker", "reach"}
    BY Zenon, NotBusyJob DEF Reap, Inv, TypeOK
  <1>s. slip' \subseteq (Slip \X CallId)
    BY Zenon, SlipTyped DEF HandlerStep
  <1>2. TypeOK'
    BY Zenon, <1>s, <1>1 DEF Reap, Inv, TypeOK
  <1>3. JobInv(p)' /\ VerdictInv(p)'
    BY SMTT(30), <1>1, InviteJob DEF Reap, At
  <1> QED BY Zenon, <1>1, <1>2, <1>3, Still, Preserve DEF Reap

\* The reachability check writes a row as missed, which claims no act.
LEMMA ReachStep ==
  ASSUME Inv, NEW p \in Handler, Reach(p)
  PROVE  Inv'
  <1> DEFINE c == job[p].on
  <1>1. c \in CallId /\ Invited(c)
    BY Zenon DEF Reach, At, Inv, JobInv
  <1>2. /\ job' \in [Handler -> Job] /\ \A q \in Handler \ {p} : job'[q] = job[q]
        /\ job'[p] = Idle \/ (job'[p].op = job[p].op /\ job'[p].on = job[p].on /\ job'[p].pc = "create")
    BY Zenon, GotoJob, FinishJob, PcIn DEF Reach, Inv, TypeOK
  <1>3. /\ row' \in [CallId -> [status : Status, ended : BOOLEAN]]
        /\ \A d \in CallId : row'[d] = row[d] \/ (d = c /\ row'[d].status = "missed")
    BY Zenon, <1>1, DataIn, WriteRowType DEF Reach, logInstant, Inv, TypeOK
  <1>4. told' \in [CallId -> [caller : News, callee : News]]
    BY Zenon, TellType, DataIn DEF Reach, Inv, TypeOK
  <1>5. TypeOK'
    BY SMTT(30), <1>2, <1>3, <1>4 DEF Reach, Inv, TypeOK
  <1>6. JobInv(p)' /\ VerdictInv(p)'
    BY Zenon, <1>2, InviteJob DEF Reach, At
  <1>7. ASSUME NEW d \in CallId PROVE row'[d] = row[d] \/ (Invited(d)' /\ RowTruth(d)')
    BY SMTT(30), <1>1, <1>3 DEF Reach, RowTruth, Invited
  <1> QED BY Zenon, <1>2, <1>5, <1>6, <1>7, Still, Preserve DEF Reach

\* Creating the call, its row and the ring.
LEMMA CreateStep ==
  ASSUME Inv, NEW p \in Handler, Create(p)
  PROVE  Inv'
  <1> DEFINE c == job[p].on
  <1>1. c \in CallId
    BY Zenon DEF Create, At, Inv, JobInv
  <1>2. /\ job' \in [Handler -> Job] /\ \A q \in Handler \ {p} : job'[q] = job[q]
        /\ job'[p] = Idle \/ (job'[p].op = job[p].op /\ job'[p].on = job[p].on /\ job'[p].pc = "journal")
    BY GotoJob, FinishJob, PcIn DEF Create, Inv, TypeOK
  <1>3. call' \in [CallId -> Phase] /\ \A d \in CallId : call'[d] = "connected" => call[d] = "connected"
    BY DataIn DEF Create, Inv, TypeOK
  <1>0. busy' \in [User -> CallId \cup {None}]
    <2> DEFINE a == party[c].caller
    <2> DEFINE b == party[c].callee
    <2>1. busy' = busy \/ busy' = [busy EXCEPT ![a] = c, ![b] = c]
      BY Zenon DEF Create
    <2> HIDE DEF a, b, c
    <2> QED BY SMTT(30), <1>1, <2>1 DEF Inv, TypeOK
  <1>s. slip' \subseteq (Slip \X CallId)
    BY Zenon, SlipTyped DEF HandlerStep
  <1>4. TypeOK'
    BY SMTT(30), <1>s, <1>2, <1>3, <1>0 DEF Create, Inv, TypeOK
  <1>5. JobInv(p)' /\ VerdictInv(p)'
    BY SMTT(30), <1>2, InviteJob DEF Create, At
  <1> QED BY Zenon, <1>2, <1>3, <1>4, <1>5, Still, Preserve DEF Create

\* The row an invite opens (repository Create) is missed as well.
LEMMA JournalStep ==
  ASSUME Inv, NEW p \in Handler, Journal(p)
  PROVE  Inv'
  <1> DEFINE c == job[p].on
  <1>1. c \in CallId /\ Invited(c)
    BY Zenon DEF Journal, At, Inv, JobInv
  <1>2. /\ job' \in [Handler -> Job] /\ \A q \in Handler \ {p} : job'[q] = job[q]
        /\ job'[p].op = job[p].op /\ job'[p].on = job[p].on /\ job'[p].pc = "announce"
    BY Zenon, GotoJob, PcIn DEF Journal, Inv, TypeOK
  <1>3. /\ row' \in [CallId -> [status : Status, ended : BOOLEAN]]
        /\ \A d \in CallId : row'[d] = row[d] \/ (d = c /\ row'[d].status = "missed")
    BY Zenon, <1>1, DataIn, WriteRowType DEF Journal, Inv, TypeOK
  <1>4. TypeOK'
    BY Zenon, <1>2, <1>3 DEF Journal, Inv, TypeOK
  <1>5. JobInv(p)' /\ VerdictInv(p)'
    BY Zenon, <1>2, InviteJob DEF Journal, At
  <1>6. ASSUME NEW d \in CallId PROVE row'[d] = row[d] \/ (Invited(d)' /\ RowTruth(d)')
    BY SMTT(30), <1>1, <1>3 DEF Journal, RowTruth, Invited
  <1> QED BY ZenonT(40), <1>2, <1>4, <1>5, <1>6, Still, Preserve DEF Journal

\* Publishing Incoming and arming the timer touch no row.
LEMMA AnnounceStep ==
  ASSUME Inv, NEW p \in Handler, Announce(p)
  PROVE  Inv'
  <1>1. job[p].on \in CallId
    BY Zenon DEF Announce, At, Inv, JobInv
  <1>2. job' \in [Handler -> Job] /\ (\A q \in Handler \ {p} : job'[q] = job[q]) /\ job'[p] = Idle
    BY Zenon, FinishJob DEF Announce, Inv, TypeOK
  <1>3. told' \in [CallId -> [caller : News, callee : News]]
    BY Zenon, TellType, DataIn DEF Announce, Inv, TypeOK
  <1>4. TypeOK'
    BY Zenon, <1>1, <1>2, <1>3 DEF Announce, Inv, TypeOK
  <1> QED BY Zenon, <1>2, <1>4, IdleJob, Still, Preserve DEF Announce

-----------------------------------------------------------------------------
(* call.answer *)

\* A frame starts a goroutine, and is recorded.
LEMMA SignalStarts ==
  ASSUME Inv, NEW p \in Handler, NEW u \in User, NEW f \in Frame, NEW c \in CallId,
         HandleSignal(p, u, f, c)
  PROVE  Inv'
  <1>1. /\ job' \in [Handler -> Job] /\ \A q \in Handler \ {p} : job'[q] = job[q]
        /\ job'[p].op = f /\ job'[p].pc = "get" /\ job'[p].who = u /\ job'[p].on = c
    BY SMTT(30), StartJob, PcIn, OpIn DEF HandleSignal, Inv, TypeOK
  <1>2. Grows /\ PartyInv'
    BY Zenon DEF HandleSignal, Grows, Inv, PartyInv, Invited
  <1>3. TypeOK'
    BY SMTT(30), <1>1 DEF HandleSignal, Inv, TypeOK
  <1>4. JobInv(p)' /\ VerdictInv(p)'
    BY Zenon, <1>1 DEF HandleSignal, JobInv, VerdictInv, Frame, Invited
  <1> QED BY Zenon, <1>1, <1>2, <1>3, <1>4, Preserve DEF HandleSignal

\* onAnswer goes on only for the callee, whose frame is recorded.
LEMMA AnswerGetStep ==
  ASSUME Inv, NEW p \in Handler, AnswerGet(p)
  PROVE  Inv'
  <1>1. /\ job' \in [Handler -> Job] /\ \A q \in Handler \ {p} : job'[q] = job[q]
        /\ \/ job'[p] = Idle
           \/ /\ job'[p].op = job[p].op /\ job'[p].on = job[p].on /\ job'[p].who = job[p].who
              /\ job'[p].pc = "markget" /\ party[job[p].on].callee = job[p].who
    BY Zenon, GotoJob, FinishJob, PcIn DEF AnswerGet, Inv, TypeOK
  <1>s. slip' \subseteq (Slip \X CallId)
    BY Zenon, SlipTyped DEF HandlerStep
  <1>2. TypeOK'
    BY Zenon, <1>s, <1>1 DEF AnswerGet, Inv, TypeOK
  <1>3. JobInv(p)' /\ VerdictInv(p)'
    <2>1. CASE job'[p] = Idle
      BY Zenon, <2>1, IdleJob
    <2>2. CASE job'[p] # Idle
      BY Zenon, <2>2, <1>1 DEF AnswerGet, At, Inv, JobInv, VerdictInv, Frame, Invited
    <2> QED BY Zenon, <2>1, <2>2
  <1> QED BY Zenon, <1>1, <1>2, <1>3, Still, Preserve DEF AnswerGet

\* MarkAnswered's second read keeps what onAnswer checked.
LEMMA MarkGetStep ==
  ASSUME Inv, NEW p \in Handler, MarkGet(p)
  PROVE  Inv'
  <1>1. /\ job' \in [Handler -> Job] /\ \A q \in Handler \ {p} : job'[q] = job[q]
        /\ \/ job'[p] = Idle
           \/ /\ job'[p].op = job[p].op /\ job'[p].on = job[p].on /\ job'[p].who = job[p].who
              /\ job'[p].pc = "markset"
    BY Zenon, GotoJob, FinishJob, PcIn DEF MarkGet, Inv, TypeOK
  <1>2. told' \in [CallId -> [caller : News, callee : News]]
    BY Zenon, TellType, DataIn DEF MarkGet, Inv, TypeOK
  <1>3. TypeOK'
    BY Zenon, <1>1, <1>2 DEF MarkGet, Inv, TypeOK
  <1>4. JobInv(p)' /\ VerdictInv(p)'
    <2>1. CASE job'[p] = Idle
      BY Zenon, <2>1, IdleJob
    <2>2. CASE job'[p] # Idle
      BY Zenon, <2>2, <1>1 DEF MarkGet, At, Inv, JobInv, VerdictInv, Frame, Invited
    <2> QED BY Zenon, <2>1, <2>2
  <1> QED BY Zenon, <1>1, <1>3, <1>4, Still, Preserve DEF MarkGet

\* A call becomes connected only through an answer of its callee.
LEMMA MarkSetStep ==
  ASSUME Inv, NEW p \in Handler, MarkSet(p)
  PROVE  Inv'
  <1> DEFINE c == job[p].on
  <1>1. c \in CallId /\ Invited(c) /\ Answered(c)
    BY Zenon DEF MarkSet, At, Inv, JobInv, Answered, Frame
  <1>2. job' \in [Handler -> Job] /\ (\A q \in Handler \ {p} : job'[q] = job[q]) /\ job'[p] = Idle
    BY Zenon, FinishJob DEF MarkSet, Inv, TypeOK
  <1>3. told' \in [CallId -> [caller : News, callee : News]]
    BY Zenon, TellType, DataIn DEF MarkSet, Inv, TypeOK
  <1>4. /\ call' \in [CallId -> Phase]
        /\ \A d \in CallId : call'[d] = call[d] \/ d = c
    BY Zenon, DataIn DEF MarkSet, Inv, TypeOK
  <1>s. slip' \subseteq (Slip \X CallId)
    BY Zenon, SlipTyped DEF HandlerStep
  <1>5. TypeOK'
    BY Zenon, <1>s, <1>2, <1>3, <1>4 DEF MarkSet, Inv, TypeOK
  <1>6. \A d \in CallId : call'[d] = "connected" =>
          call[d] = "connected" \/ (Invited(d)' /\ Answered(d)')
    BY Zenon, <1>1, <1>4 DEF MarkSet, Invited, Answered
  <1> QED BY Zenon, <1>2, <1>5, <1>6, IdleJob, Still, Preserve DEF MarkSet

-----------------------------------------------------------------------------
(* Ending a call *)

\* A goroutine that has read the call and is about to close its row.
LEMMA TerminateGetStep ==
  ASSUME Inv, NEW p \in Handler, TerminateGet(p)
  PROVE  Inv'
  <1> DEFINE c == job[p].on
  <1>1. c \in CallId /\ job[p].who \in User /\ Invited(c) /\ call[c] \in Phase
    BY Zenon DEF TerminateGet, Inv, JobInv, Frame, TypeOK
  <1>2. /\ job' \in [Handler -> Job] /\ \A q \in Handler \ {p} : job'[q] = job[q]
        /\ \/ job'[p] = Idle
           \/ /\ job'[p].op = job[p].op /\ job'[p].on = c /\ job'[p].who = job[p].who
              /\ job'[p].pc = "finalize" /\ job'[p].seen = call[c]
              /\ MayTerminate(c, job[p].who, job[p].op)
    BY <1>1, SeenJob, FinishJob, PcIn DEF TerminateGet, Inv, TypeOK
  <1>3. told' \in [CallId -> [caller : News, callee : News]]
    BY Zenon, TellType, DataIn DEF TerminateGet, Inv, TypeOK
  <1>s. slip' \subseteq (Slip \X CallId)
    BY Zenon, SlipTyped DEF HandlerStep
  <1>4. TypeOK'
    BY Zenon, <1>s, <1>2, <1>3 DEF TerminateGet, Inv, TypeOK
  <1>5. JobInv(p)' /\ VerdictInv(p)'
    <2>1. CASE job'[p] = Idle
      BY Zenon, <2>1, IdleJob
    <2>2. CASE job'[p] # Idle
      <3>1. JobInv(p)'
        BY Zenon, <2>2, <1>1, <1>2 DEF TerminateGet, Inv, JobInv, Frame, Invited
      <3>2. VerdictInv(p)'
        BY Zenon, <2>2, <1>1, <1>2 DEF TerminateGet, Inv, ConnectedInv, VerdictInv, MayTerminate,
                                involves, Invited, Answered
      <3> QED BY Zenon, <3>1, <3>2
    <2> QED BY Zenon, <2>1, <2>2
  <1> QED BY Zenon, <1>2, <1>4, <1>5, Still, Preserve DEF TerminateGet

\* The ring timer.
LEMMA RingTimerStarts ==
  ASSUME Inv, NEW p \in Handler, NEW c \in CallId, RingTimer(p, c)
  PROVE  Inv'
  <1>1. /\ job' \in [Handler -> Job] /\ \A q \in Handler \ {p} : job'[q] = job[q]
        /\ job'[p].op = "timeout" /\ job'[p].pc = "get" /\ job'[p].on = c
    <2>1. PICK u \in User \cup {None} : Start(p, "timeout", "get", u, c)
      BY Zenon DEF RingTimer
    <2>2. job \in [Handler -> Job] /\ "timeout" \in Op /\ "get" \in Pc /\ c \in CallId \cup {None}
      BY Zenon, PcIn, OpIn DEF Inv, TypeOK
    <2> QED BY <2>1, <2>2, StartJob
  <1>2. TypeOK'
    BY SMTT(30), <1>1 DEF RingTimer, Inv, TypeOK
  <1>3. JobInv(p)' /\ VerdictInv(p)'
    BY Zenon, <1>1 DEF JobInv, VerdictInv, Frame
  <1> QED BY Zenon, <1>1, <1>2, <1>3, Still, Preserve DEF RingTimer

\* onRingTimeout carries a ringing phase to its verdict, never connected.
LEMMA RingTimeoutStep ==
  ASSUME Inv, NEW p \in Handler, onRingTimeout(p)
  PROVE  Inv'
  <1> DEFINE c == job[p].on
  <1>1. c \in CallId /\ call[c] \in Phase
    BY Zenon DEF onRingTimeout, At, Inv, JobInv, TypeOK
  <1>2. /\ job' \in [Handler -> Job] /\ \A q \in Handler \ {p} : job'[q] = job[q]
        /\ \/ job'[p] = Idle
           \/ /\ job'[p].op = job[p].op /\ job'[p].on = c
              /\ job'[p].pc = "finalize" /\ job'[p].seen = call[c] /\ call[c] = "ringing"
    BY <1>1, SeenJob, FinishJob, PcIn DEF onRingTimeout, Inv, TypeOK
  <1>s. slip' \subseteq (Slip \X CallId)
    BY Zenon, SlipTyped DEF HandlerStep
  <1>3. TypeOK'
    BY Zenon, <1>s, <1>2 DEF onRingTimeout, Inv, TypeOK
  <1>4. JobInv(p)' /\ VerdictInv(p)'
    <2>1. CASE job'[p] = Idle
      BY Zenon, <2>1, IdleJob
    <2>2. CASE job'[p] # Idle
      BY Zenon, <2>2, <1>1, <1>2 DEF onRingTimeout, At, JobInv, VerdictInv, Frame
    <2> QED BY Zenon, <2>1, <2>2
  <1> QED BY Zenon, <1>2, <1>3, <1>4, Still, Preserve DEF onRingTimeout

\* The disconnect hook.
LEMMA DisconnectStarts ==
  ASSUME Inv, NEW p \in Handler, NEW u \in User, Disconnect(p, u)
  PROVE  Inv'
  <1>1. /\ job' \in [Handler -> Job] /\ \A q \in Handler \ {p} : job'[q] = job[q]
        /\ job'[p].op = "disconnect" /\ job'[p].pc = "marker" /\ job'[p].who = u
    BY SMTT(30), StartJob, PcIn, OpIn DEF Disconnect, Inv, TypeOK
  <1>2. Grows /\ PartyInv'
    BY SMTT(30) DEF Disconnect, Grows, Inv, PartyInv, Invited
  <1>3. TypeOK'
    BY SMTT(30), <1>1 DEF Disconnect, Inv, TypeOK
  <1>4. JobInv(p)' /\ VerdictInv(p)'
    BY ZenonT(40), <1>1 DEF Disconnect, JobInv, VerdictInv, Frame, Dropped
  <1> QED BY ZenonT(40), <1>1, <1>2, <1>3, <1>4, Preserve DEF Disconnect

\* HandleDisconnect takes a call from the marker of the user who dropped.
LEMMA DisconnectMarkerStep ==
  ASSUME Inv, NEW p \in Handler, DisconnectMarker(p)
  PROVE  Inv'
  <1> DEFINE u == job[p].who
  <1>1. u \in User
    BY Zenon DEF DisconnectMarker, At, Inv, JobInv
  <1>2. /\ job' \in [Handler -> Job] /\ \A q \in Handler \ {p} : job'[q] = job[q]
        /\ \/ job'[p] = Idle
           \/ /\ job'[p].op = job[p].op /\ job'[p].who = u
              /\ job'[p].pc = "get" /\ job'[p].on \in CallId
    <2>1. CASE busy[u] # None /\ TakeCall(p, busy[u])
      <3>1. busy[u] \in CallId
        BY Zenon, <2>1, <1>1 DEF Inv, TypeOK
      <3> QED BY Zenon, <2>1, <3>1, TakeCallJob DEF Inv, TypeOK
    <2>2. CASE Finish(p)
      BY Zenon, <2>2, FinishJob DEF Inv, TypeOK
    <2> QED BY Zenon, <2>1, <2>2 DEF DisconnectMarker
  <1>3. TypeOK'
    BY Zenon, <1>2 DEF DisconnectMarker, Inv, TypeOK
  <1>4. JobInv(p)' /\ VerdictInv(p)'
    <2>1. CASE job'[p] = Idle
      BY Zenon, <2>1, IdleJob
    <2>2. CASE job'[p] # Idle
      BY Zenon, <2>2, <1>2 DEF DisconnectMarker, At, Inv, JobInv, VerdictInv, Frame, Dropped
    <2> QED BY Zenon, <2>1, <2>2
  <1> QED BY Zenon, <1>2, <1>3, <1>4, Still, Preserve DEF DisconnectMarker

\* HandleDisconnect ends a ringing call only for its caller.
LEMMA DisconnectGetStep ==
  ASSUME Inv, NEW p \in Handler, DisconnectGet(p)
  PROVE  Inv'
  <1> DEFINE c == job[p].on
  <1> DEFINE u == job[p].who
  <1>1. c \in CallId /\ u \in User /\ call[c] \in Phase
    BY ZenonT(40) DEF DisconnectGet, At, Inv, JobInv, TypeOK
  <1>2. /\ job' \in [Handler -> Job] /\ \A q \in Handler \ {p} : job'[q] = job[q]
        /\ \/ job'[p] = Idle
           \/ /\ job'[p].op = job[p].op /\ job'[p].on = c /\ job'[p].who = u
              /\ \/ job'[p].pc = "reap"
                 \/ /\ job'[p].pc = "finalize" /\ job'[p].seen = call[c] /\ involves(c, u)
                    /\ call[c] = "connected" \/ u = party[c].caller
    BY SMTT(30), <1>1, GotoJob, SeenJob, FinishJob, PcIn DEF DisconnectGet, Inv, TypeOK
  <1>s. slip' \subseteq (Slip \X CallId)
    BY Zenon, SlipTyped DEF HandlerStep
  <1>3. TypeOK'
    BY SMTT(30), <1>s, <1>2 DEF DisconnectGet, Inv, TypeOK
  <1>4. involves(c, u) => Invited(c)
    BY <1>1, CallsAssumption DEF involves, Invited, NoParty
  <1>5. JobInv(p)' /\ VerdictInv(p)'
    <2>1. CASE job'[p] = Idle
      BY Zenon, <2>1, IdleJob
    <2>2. CASE job'[p] # Idle
      <3>1. JobInv(p)'
        BY Zenon, <2>2, <1>1, <1>2 DEF DisconnectGet, At, Inv, JobInv, Frame, Dropped
      <3>2. VerdictInv(p)'
        BY Zenon, <2>2, <1>1, <1>2, <1>4 DEF DisconnectGet, At, Inv, ConnectedInv, VerdictInv,
                                      Invited, Answered
      <3> QED BY Zenon, <3>1, <3>2
    <2> QED BY Zenon, <2>1, <2>2
  <1> QED BY Zenon, <1>2, <1>3, <1>5, Still, Preserve DEF DisconnectGet

\* Clearing the marker of a dropped user writes no journal row.
LEMMA DisconnectReapStep ==
  ASSUME Inv, NEW p \in Handler, DisconnectReap(p)
  PROVE  Inv'
  <1>1. job' \in [Handler -> Job] /\ (\A q \in Handler \ {p} : job'[q] = job[q]) /\ job'[p] = Idle
    BY SMTT(30), FinishJob DEF DisconnectReap, Inv, TypeOK
  <1>s. slip' \subseteq (Slip \X CallId)
    BY Zenon, SlipTyped DEF HandlerStep
  <1>2. TypeOK'
    BY Zenon, <1>s, <1>1 DEF DisconnectReap, Inv, TypeOK
  <1> QED BY Zenon, <1>1, <1>2, IdleJob, Still, Preserve DEF DisconnectReap

\* The verdict: what is written is what a participant did.
LEMMA FinalStatusTrue ==
  ASSUME Inv, NEW p \in Handler, job[p].pc = "finalize"
  PROVE  LET c == job[p].on
             s == FinalStatus(job[p]) IN
         /\ s \in Status
         /\ s = "completed" => Sent(party[c].callee, {"answer"}, c)
         /\ s = "rejected"  => Sent(party[c].callee, {"reject", "hangup"}, c)
         /\ s = "canceled"  => Sent(party[c].caller, {"cancel", "hangup"}, c) \/ Dropped(party[c].caller)
  <1> DEFINE j == job[p]
  <1>1. JobInv(p) /\ VerdictInv(p)
    BY Zenon DEF Inv
  <1>2. j.op \in {"reject", "cancel", "hangup", "timeout", "disconnect"}
    BY Zenon, <1>1 DEF JobInv
  <1>3. CASE j.op = "reject"
    BY Zenon, <1>1, <1>3, DataIn DEF JobInv, VerdictInv, FinalStatus, Sent, Frame
  <1>4. CASE j.op = "cancel"
    BY Zenon, <1>1, <1>4, DataIn DEF JobInv, VerdictInv, FinalStatus, Sent, Frame
  <1>5. CASE j.op = "timeout"
    BY Zenon, <1>1, <1>5, DataIn DEF FinalStatus
  <1>6. CASE j.op = "disconnect"
    BY SMTT(30), <1>1, <1>6, DataIn DEF JobInv, VerdictInv, FinalStatus, Sent, Answered
  <1>7. CASE j.op = "hangup"
    <2>1. CASE j.seen = "connected"
      BY Zenon, <1>1, <1>7, <2>1, DataIn DEF VerdictInv, FinalStatus, Sent, Answered
    <2>2. CASE j.seen # "connected"
      BY SMTT(30), <1>1, <1>7, <2>2, DataIn DEF JobInv, VerdictInv, FinalStatus, Sent, involves, Frame
    <2> QED BY Zenon, <2>1, <2>2
  <1> QED BY Zenon, <1>2, <1>3, <1>4, <1>5, <1>6, <1>7

\* finalize writes exactly the status that the goroutine's verdict justifies.
LEMMA FinalizeStep ==
  ASSUME Inv, NEW p \in Handler, finalize(p)
  PROVE  Inv'
  <1> DEFINE c == job[p].on
  <1> DEFINE s == FinalStatus(job[p])
  <1>1. c \in CallId
    BY Zenon DEF finalize, Inv, JobInv
  <1>2. /\ job' \in [Handler -> Job] /\ \A q \in Handler \ {p} : job'[q] = job[q]
        /\ job'[p].op = job[p].op /\ job'[p].on = c /\ job'[p].who = job[p].who
        /\ job'[p].pc = "delget"
    BY Zenon, GotoJob, PcIn DEF finalize, Inv, TypeOK
  <1>3. /\ row' \in [CallId -> [status : Status, ended : BOOLEAN]]
        /\ \A d \in CallId : row'[d] = row[d] \/ (d = c /\ row[d] # NoRow /\ row'[d].status = s)
    <2>1. row' = row \/ (row[c] # NoRow /\ WriteRow(c, s, TRUE))
      BY ZenonT(40) DEF finalize
    <2>2. s \in Status
      BY Zenon, FinalStatusTrue DEF finalize
    <2> HIDE DEF c, s
    <2> QED BY Zenon, <1>1, <2>1, <2>2, WriteRowType DEF Inv, TypeOK
  <1>4. TypeOK'
    BY Zenon, <1>2, <1>3 DEF finalize, Inv, TypeOK
  <1>5. JobInv(p)' /\ VerdictInv(p)'
    BY Zenon, <1>1, <1>2 DEF finalize, Inv, JobInv, VerdictInv, Frame, Invited, Dropped
  <1>6. ASSUME NEW d \in CallId PROVE row'[d] = row[d] \/ (Invited(d)' /\ RowTruth(d)')
    <2>1. CASE row'[d] = row[d]
      BY Zenon, <2>1
    <2>2. CASE row'[d] # row[d]
      <3>1. d = c /\ row'[d].status = s /\ Invited(d)'
        BY Zenon, <2>2, <1>3 DEF finalize, Inv, RowInv, Invited
      <3>2. RowTruth(d)'
        BY Zenon, <3>1, FinalStatusTrue DEF finalize, RowTruth, Sent, Dropped
      <3> QED BY SMTT(30), <3>1, <3>2
    <2> QED BY Zenon, <2>1, <2>2
  <1> QED BY Zenon, <1>2, <1>4, <1>5, <1>6, Still, Preserve DEF finalize

\* The last words keep the record of what was heard well-typed.
LEMMA FarewellType ==
  ASSUME TypeOK, NEW p \in Handler, Farewell(p)
  PROVE  /\ told' \in [CallId -> [caller : News, callee : News]]
         /\ job' \in [Handler -> Job] /\ (\A q \in Handler \ {p} : job'[q] = job[q]) /\ job'[p] = Idle
  <1>1. job' \in [Handler -> Job] /\ (\A q \in Handler \ {p} : job'[q] = job[q]) /\ job'[p] = Idle
    BY Zenon, FinishJob DEF Farewell, TypeOK
  <1> DEFINE c == job[p].on
  <1>2. \/ told' = [told EXCEPT ![c] = [caller |-> "over", callee |-> "over"]]
        \/ told' = [told EXCEPT ![c] = Hear(@, other(c, job[p].who), "over")]
        \/ told' = [told EXCEPT ![c] = @]
    BY Zenon DEF Farewell
  <1>3. [caller |-> "over", callee |-> "over"] \in [caller : News, callee : News]
    BY Zenon, DataIn
  <1>4. \A r \in [caller : News, callee : News] :
          Hear(r, other(c, job[p].who), "over") \in [caller : News, callee : News]
    BY Zenon, DataIn DEF Hear
  <1> DEFINE r == Hear(told[c], other(c, job[p].who), "over")
  <1>5. c \in CallId => r \in [caller : News, callee : News]
    BY Zenon, <1>4 DEF TypeOK
  <1>6. \/ told' = [told EXCEPT ![c] = [caller |-> "over", callee |-> "over"]]
        \/ told' = [told EXCEPT ![c] = r]
        \/ told' = [told EXCEPT ![c] = told[c]]
    BY Zenon, <1>2
  <1> HIDE DEF r, c
  <1>7. told' \in [CallId -> [caller : News, callee : News]]
    BY ZenonT(40), <1>3, <1>5, <1>6 DEF TypeOK
  <1> QED BY Zenon, <1>1, <1>7

\* RedisStore.Delete's read comes after the verdict was written.
LEMMA DeleteGetStep ==
  ASSUME Inv, NEW p \in Handler, DeleteGet(p)
  PROVE  Inv'
  <1> DEFINE c == job[p].on
  <1>1. c \in CallId /\ call[c] \in Phase
    BY ZenonT(40) DEF DeleteGet, Inv, JobInv, TypeOK
  <1>2. /\ job' \in [Handler -> Job] /\ \A q \in Handler \ {p} : job'[q] = job[q]
        /\ \/ job'[p] = Idle
           \/ /\ job'[p].op = job[p].op /\ job'[p].on = c /\ job'[p].who = job[p].who
              /\ job'[p].pc = "del"
        /\ told' \in [CallId -> [caller : News, callee : News]]
    BY <1>1, SeenJob, FarewellType, PcIn DEF DeleteGet, Inv, TypeOK
  <1>3. TypeOK'
    BY Zenon, <1>2 DEF DeleteGet, Inv, TypeOK
  <1>4. JobInv(p)' /\ VerdictInv(p)'
    <2>1. CASE job'[p] = Idle
      BY Zenon, <2>1, IdleJob
    <2>2. CASE job'[p] # Idle
      BY Zenon, <2>2, <1>1, <1>2 DEF DeleteGet, Inv, JobInv, VerdictInv, Frame, Invited, Dropped
    <2> QED BY Zenon, <2>1, <2>2
  <1> QED BY Zenon, <1>2, <1>3, <1>4, Still, Preserve DEF DeleteGet

\* Deleting the call key and the markers connects no call.
LEMMA DeleteStep ==
  ASSUME Inv, NEW p \in Handler, Delete(p)
  PROVE  Inv'
  <1>1. /\ job' \in [Handler -> Job] /\ \A q \in Handler \ {p} : job'[q] = job[q]
        /\ job'[p] = Idle /\ told' \in [CallId -> [caller : News, callee : News]]
    BY Zenon, FarewellType DEF Delete, Inv
  <1>2. call' \in [CallId -> Phase] /\ \A d \in CallId : call'[d] = "connected" => call[d] = "connected"
    BY SMTT(30), DataIn DEF Delete, Inv, TypeOK
  <1>3. busy' \in [User -> CallId \cup {None}]
    <2> DEFINE a == party[job[p].on].caller
    <2> DEFINE b == party[job[p].on].callee
    <2>1. busy' = busy \/ busy' = [busy EXCEPT ![a] = None, ![b] = None]
      BY Zenon DEF Delete
    <2> HIDE DEF a, b
    <2> QED BY Zenon, <2>1 DEF Inv, TypeOK
  <1>s. slip' \subseteq (Slip \X CallId)
    BY Zenon, SlipTyped DEF HandlerStep
  <1>4. TypeOK'
    BY Zenon, <1>s, <1>1, <1>2, <1>3 DEF Delete, Inv, TypeOK
  <1> QED BY ZenonT(40), <1>1, <1>2, <1>4, IdleJob, Still, Preserve DEF Delete

-----------------------------------------------------------------------------
(* The environment *)

\* Connections, key expiry and crashes claim no act of a participant.
LEMMA EnvironmentStep ==
  ASSUME Inv, \/ \E u \in User : Connect(u) \/ ExpireMarker(u) \/ ExpirePresence(u)
              \/ \E c \in CallId : ExpireCall(c)
              \/ \E ps \in SUBSET Working, ts \in SUBSET timer, us \in SUBSET User : Crash(ps, ts, us)
              \/ UNCHANGED vars
  PROVE  Inv'
  <1>1. ASSUME NEW u \in User, Connect(u) \/ ExpireMarker(u) \/ ExpirePresence(u) PROVE Inv'
    <2>1. TypeOK' /\ job' = job /\ call' = call /\ row' = row /\ party' = party /\ acts' = acts
      BY Zenon, <1>1 DEF Connect, ExpireMarker, ExpirePresence, Inv, TypeOK
    <2> QED BY Zenon, <2>1, Still, Preserve
  <1>2. ASSUME NEW c \in CallId, ExpireCall(c) PROVE Inv'
    <2>1. TypeOK' /\ job' = job /\ row' = row /\ party' = party /\ acts' = acts
      BY Zenon, <1>2, DataIn DEF ExpireCall, Inv, TypeOK
    <2>2. \A d \in CallId : call'[d] = "connected" => call[d] = "connected"
      BY SMTT(30), <1>2 DEF ExpireCall, Inv, TypeOK
    <2> QED BY Zenon, <2>1, <2>2, Still, Preserve
  <1>3. ASSUME NEW ps \in SUBSET Working, NEW ts \in SUBSET timer, NEW us \in SUBSET User, Crash(ps, ts, us)
        PROVE Inv'
    <2>1. acts' \subseteq ((User \cup {None}) \X (Frame \cup {"drop", "crash"}) \X (CallId \cup {None}))
      <3>1. us \X {"drop"} \X {None} \subseteq (User \cup {None}) \X (Frame \cup {"drop", "crash"}) \X (CallId \cup {None})
        BY SMT
      <3>2. <<None, "crash", None>> \in (User \cup {None}) \X (Frame \cup {"drop", "crash"}) \X (CallId \cup {None})
        BY SMT
      <3> QED BY ZenonT(40), <1>3, <3>1, <3>2 DEF Crash, Inv, TypeOK
    <2>2. slip' \subseteq (Slip \X CallId)
      <3> DEFINE S == ts \cup {c \in CallId : \E p \in ps : job[p].on = c /\ job[p].op \in {"invite", "timeout"}}
      <3>1. Mark("orphan", S)
        BY Zenon, <1>3 DEF Crash
      <3>2. S \subseteq CallId
        BY Zenon DEF Inv, TypeOK
      <3> HIDE DEF S
      <3> QED BY Zenon, <3>1, <3>2, MarkType, SlipIn DEF Inv
    <2>3. \A q \in Handler : job'[q] = job[q] \/ job'[q] = Idle
      BY Zenon, <1>3 DEF Crash
    <2>4. TypeOK' /\ call' = call /\ row' = row /\ party' = party
      <3>1. job' \in [Handler -> Job]
        BY Zenon, <1>3, IdleIn DEF Crash, Inv, TypeOK
      <3>2. timer' \subseteq timer /\ UNCHANGED <<party, call, busy, row, online, told>>
        BY Zenon, <1>3 DEF Crash
      <3> QED
        BY ZenonT(40), <2>1, <2>2, <3>1, <3>2 DEF Inv, TypeOK
    <2>5. Grows /\ PartyInv'
      BY ZenonT(40), <1>3 DEF Crash, Grows, Inv, PartyInv, Invited
    <2> QED BY Zenon, <2>3, <2>4, <2>5, IdleJob, Preserve
  <1>4. CASE UNCHANGED vars
    <2>1. TypeOK' /\ job' = job /\ call' = call /\ row' = row /\ party' = party /\ acts' = acts
      BY Zenon, <1>4 DEF vars, Inv, TypeOK
    <2> QED BY Zenon, <2>1, Still, Preserve
  <1> QED BY Zenon, <1>1, <1>2, <1>3, <1>4

\* The initial states satisfy the invariant.
LEMMA InitInv == Init => Inv
  <1> SUFFICES ASSUME Init PROVE Inv
    BY Zenon
  <1>1. TypeOK
    <2>1. NoParty \in [caller : User \cup {None}, callee : User \cup {None}]
      BY Zenon DEF NoParty
    <2>2. NoRow \in [status : Status, ended : BOOLEAN]
      BY Zenon DEF NoRow, Status
    <2>3. Silent \in [caller : News, callee : News]
      BY Zenon DEF Silent, News
    <2> QED BY Zenon, <2>1, <2>2, <2>3, IdleIn, DataIn DEF Init, TypeOK
  <1>2. \A p \in Handler : JobInv(p) /\ VerdictInv(p)
    BY Zenon DEF Init, JobInv, VerdictInv, Idle, Frame
  <1>3. ConnectedInv /\ PartyInv /\ RowInv
    BY Zenon DEF Init, ConnectedInv, PartyInv, RowInv, Invited
  <1>4. JournalTruth
    BY Zenon DEF Init, JournalTruth, RowTruth, NoRow
  <1> QED BY Zenon, <1>1, <1>2, <1>3, <1>4 DEF Inv

\* Every step of the specification preserves the invariant.
LEMMA NextInv == Inv /\ [Next]_vars => Inv'
  <1> SUFFICES ASSUME Inv, [Next]_vars PROVE Inv'
    BY Zenon
  <1>1. ASSUME NEW p \in Handler, HandlerStep(p) PROVE Inv'
    BY Zenon, <1>1, ReadMarkerStep, LiveCheckStep, ReapStep, ReachStep, CreateStep, JournalStep,
       AnnounceStep, AnswerGetStep, MarkGetStep, MarkSetStep, TerminateGetStep, RingTimeoutStep,
       DisconnectMarkerStep, DisconnectGetStep, DisconnectReapStep, FinalizeStep,
       DeleteGetStep, DeleteStep
    DEF HandlerStep
  <1> QED BY Zenon, <1>1, InviteStarts, SignalStarts, RingTimerStarts, DisconnectStarts,
             EnvironmentStep DEF Next

-----------------------------------------------------------------------------
(* The results *)

\* Every variable of the signalling service keeps its type.
THEOREM TypeCorrect == Spec => []TypeOK
  <1>1. Inv => TypeOK
    BY Zenon DEF Inv
  <1> QED BY InitInv, NextInv, <1>1, PTL DEF Spec

\* The call journal never claims an answer, a refusal or a cancellation that no
\* participant made: whatever the interleaving of frames, ring timers and
\* disconnect hooks, and whatever fails.
THEOREM JournalNeverInvents == Spec => []JournalTruth
  <1>1. Inv => JournalTruth
    BY Zenon DEF Inv
  <1> QED BY InitInv, NextInv, <1>1, PTL DEF Spec

-----------------------------------------------------------------------------
(* The busy check, whatever interleaves *)

\* A live call that no slip has touched: its markers vouch for it.
Vouched(c) == Live(c) /\ ~Astray(c)

\* The part of an invite that decides whether there will be a call.
Checking(j) == j.op = "invite" /\ j.pc \in {"marker", "livecheck", "reap", "reach", "create"}

\* The invite j has found this side of its call free.
Passed(j, side) ==
  \/ j.pc \in {"reach", "create"}
  \/ side = "caller" /\ j.side = "callee"
  \/ j.pc = "reap" /\ j.side = side

\* The goroutine j holds what it read of call c: its marker, or its key.
Refers(j, c) ==
  \/ j.op = "invite" /\ j.pc \in {"livecheck", "reap"} /\ j.mark = c
  \/ j.op = "disconnect" /\ j.pc \in {"get", "reap"} /\ j.on = c
  \/ j.pc \in {"markget", "markset"} /\ j.on = c

\* There is, or a goroutine remembers, something of call c in Redis.
Touched(c) ==
  \/ Live(c)
  \/ \E u \in User : busy[u] = c
  \/ \E q \in Handler : Refers(job[q], c)

\* A marker that a goroutine holds names a call of the user it was read for.
NamesInv(p) ==
  LET j == job[p] IN
  /\ j.op = "invite" /\ j.pc \in {"livecheck", "reap"} =>
       j.mark \in CallId /\ Invited(j.mark) /\ involves(j.mark, PartyOf(j.on, j.side))
  /\ j.op = "disconnect" /\ j.pc \in {"get", "reap"} => Invited(j.on) /\ involves(j.on, j.who)

\* A marker that is about to be cleared names no call it could vouch for.
ReapInv(p) ==
  LET j == job[p] IN
  /\ j.op = "invite" /\ j.pc = "reap" => ~Vouched(j.mark)
  /\ j.op = "disconnect" /\ j.pc = "reap" => ~Vouched(j.on)

\* What an invite whose checks can be trusted knows: no vouched call has a side
\* it found free, and the marker it follows is the one of such a call, if any.
CheckInv(p) ==
  LET j == job[p] IN
  Checking(j) /\ ~Astray(j.on) =>
    \A d \in CallId \ {j.on} : Vouched(d) =>
      /\ \A side \in Side : Passed(j, side) => ~involves(d, PartyOf(j.on, side))
      /\ j.pc = "livecheck" /\ involves(d, PartyOf(j.on, j.side)) => j.mark = d

\* Nothing is known of a call that is still being checked, and one goroutine
\* alone checks it.
FreshInv(p) ==
  Checking(job[p]) => /\ ~Touched(job[p].on)
                      /\ \A q \in Handler \ {p} : job[q].op = "invite" => job[q].on # job[p].on

LiveInv == \A c \in CallId : Live(c) => Invited(c)

MarkerInv == \A u \in User : busy[u] # None => Invited(busy[u]) /\ involves(busy[u], u)

VouchInv == \A c \in CallId : Vouched(c) => busy[party[c].caller] = c /\ busy[party[c].callee] = c

BusyInv ==
  /\ \A p \in Handler : NamesInv(p) /\ ReapInv(p) /\ CheckInv(p) /\ FreshInv(p)
  /\ LiveInv
  /\ MarkerInv
  /\ VouchInv

\* What a goroutine that moved must show for the invariant.
MoveOK(q) ==
  /\ NamesInv(q)' /\ ReapInv(q)' /\ CheckInv(q)'
  /\ \A c \in CallId : Refers(job'[q], c) => Touched(c)
  /\ job'[q].op = "invite" => job[q].op = "invite" /\ job'[q].on = job[q].on
  /\ Checking(job'[q]) => Checking(job[q])

\* A goroutine that is done has nothing to show.
LEMMA IdleMoves ==
  ASSUME NEW q \in Handler, job'[q] = Idle
  PROVE  MoveOK(q)
  <1>1. job'[q].op = "idle" /\ job'[q].pc = "idle"
    BY DEF Idle
  <1>2. NamesInv(q)' /\ ReapInv(q)'
    BY Zenon, <1>1 DEF NamesInv, ReapInv
  <1>3. CheckInv(q)' /\ ~Checking(job'[q])
    BY Zenon, <1>1 DEF CheckInv, Checking
  <1>4. \A c \in CallId : ~Refers(job'[q], c)
    BY Zenon, <1>1 DEF Refers
  <1> QED BY Zenon, <1>1, <1>2, <1>3, <1>4 DEF MoveOK

\* Slips are never taken back.
LEMMA AstrayStays ==
  ASSUME slip \subseteq slip'
  PROVE  \A c : Astray(c) => Astray(c)'
  BY Zenon DEF Astray, Slipped

\* Recording a slip of calls S takes nothing back, and they have slipped.
LEMMA MarkSlips ==
  ASSUME NEW k, NEW S, Mark(k, S)
  PROVE  slip \subseteq slip' /\ \A c \in S : Slipped(k, c)'
  <1>1. \A c \in S : <<k, c>> \in {k} \X S
    BY SMT
  <1> QED BY Zenon, <1>1 DEF Mark, Slipped

\* The inductive step, once for all actions but the ones that place a call: no
\* call becomes vouched, and a vouched call keeps its markers.
LEMMA Keeps ==
  ASSUME Inv, BusyInv, party' = party, slip \subseteq slip',
         \A c \in CallId : Live(c)' => Live(c) \/ (Astray(c)' /\ Touched(c) /\ Invited(c)),
         \A u \in User : \/ busy'[u] = busy[u]
                         \/ busy'[u] = None /\ \A c \in CallId : busy[u] = c => ~Vouched(c)',
         \A q \in Handler : job'[q] = job[q] \/ MoveOK(q)
  PROVE  BusyInv'
  <1>1. \A c \in CallId : Vouched(c)' => Vouched(c)
    BY Zenon, AstrayStays DEF Vouched
  <1>2. \A c \in CallId : Touched(c)' => Touched(c)
    <2> SUFFICES ASSUME NEW c \in CallId, Touched(c)' PROVE Touched(c)
      BY Zenon
    <2>1. CASE Live(c)'
      BY Zenon, <2>1 DEF Touched
    <2>2. CASE \E u \in User : busy'[u] = c
      BY Zenon, <2>2, CallsAssumption DEF Touched
    <2>3. CASE \E q \in Handler : Refers(job'[q], c)
      BY Zenon, <2>3 DEF Touched, MoveOK
    <2> QED BY Zenon, <2>1, <2>2, <2>3 DEF Touched, Refers
  <1>3. LiveInv' /\ MarkerInv'
    BY Zenon DEF BusyInv, LiveInv, MarkerInv, Invited, involves
  <1>4. VouchInv'
    <2> SUFFICES ASSUME NEW c \in CallId, Vouched(c)'
                 PROVE  busy'[party[c].caller] = c /\ busy'[party[c].callee] = c
      BY Zenon DEF VouchInv
    <2>1. Vouched(c) /\ busy[party[c].caller] = c /\ busy[party[c].callee] = c
      BY Zenon, <1>1 DEF BusyInv, VouchInv
    <2>2. party[c].caller \in User /\ party[c].callee \in User
      BY Zenon, <2>1 DEF BusyInv, LiveInv, Vouched, Inv, PartyInv
    <2> QED BY Zenon, <2>1, <2>2
  <1>5. ASSUME NEW q \in Handler PROVE NamesInv(q)' /\ ReapInv(q)' /\ CheckInv(q)'
    <2>1. CASE MoveOK(q)
      BY Zenon, <2>1 DEF MoveOK
    <2>2. CASE job'[q] = job[q]
      <3>1. NamesInv(q) /\ ReapInv(q) /\ CheckInv(q) /\ JobInv(q)
        BY Zenon DEF BusyInv, Inv
      <3>2. NamesInv(q)'
        BY Zenon, <2>2, <3>1 DEF NamesInv, Invited, involves, PartyOf
      <3>3. ReapInv(q)'
        BY Zenon, <1>1, <2>2, <3>1 DEF ReapInv, NamesInv, JobInv
      <3>4. CheckInv(q)'
        BY ZenonT(40), <1>1, <2>2, <3>1, AstrayStays DEF CheckInv, involves, PartyOf
      <3> QED BY Zenon, <3>2, <3>3, <3>4
    <2> QED BY Zenon, <2>1, <2>2
  <1>6. ASSUME NEW q \in Handler PROVE FreshInv(q)'
    <2> SUFFICES ASSUME Checking(job'[q])
                 PROVE  /\ ~Touched(job[q].on)'
                        /\ \A r \in Handler \ {q} : job'[r].op = "invite" => job'[r].on # job'[q].on
      BY Zenon DEF FreshInv, Checking
    <2>1. Checking(job[q]) /\ job'[q].on = job[q].on
      BY Zenon DEF MoveOK, Checking
    <2>2. /\ ~Touched(job[q].on) /\ job[q].on \in CallId
          /\ \A r \in Handler \ {q} : job[r].op = "invite" => job[r].on # job[q].on
      BY Zenon, <2>1 DEF BusyInv, FreshInv, Inv, JobInv, Checking
    <2>3. \A r \in Handler \ {q} : job'[r].op = "invite" => job'[r].on # job'[q].on
      BY Zenon, <2>1, <2>2 DEF MoveOK
    <2>4. ~Touched(job[q].on)'
      <3>1. PICK e \in CallId : e = job[q].on
        BY Zenon, <2>2
      <3>2. ~Touched(e)' /\ job'[q].on = e
        BY Zenon, <1>2, <2>1, <2>2, <3>1
      <3> QED BY Zenon, <3>2 DEF Touched, Refers
    <2> QED BY Zenon, <2>3, <2>4
  <1> QED BY Zenon, <1>3, <1>4, <1>5, <1>6 DEF BusyInv

\* Goto keeps everything a goroutine remembers.
LEMMA GotoOwn ==
  ASSUME job \in [Handler -> Job], NEW p \in Handler, NEW x \in Pc, Goto(p, x)
  PROVE  /\ job'[p].pc = x /\ job'[p].op = job[p].op /\ job'[p].on = job[p].on
         /\ job'[p].who = job[p].who /\ job'[p].side = job[p].side
         /\ job'[p].mark = job[p].mark /\ job'[p].seen = job[p].seen
  BY Zenon DEF Goto, Job

\* NotBusy turns to the callee, or from the callee to the reachability check.
LEMMA NotBusyOwn ==
  ASSUME job \in [Handler -> Job], NEW p \in Handler, NotBusy(p)
  PROVE  /\ job'[p].op = job[p].op /\ job'[p].on = job[p].on /\ job'[p].side = "callee"
         /\ job'[p].pc = IF job[p].side = "caller" THEN "marker" ELSE "reach"
  <1> DEFINE x == IF job[p].side = "caller" THEN "marker" ELSE "reach"
  <1>1. job' = [job EXCEPT ![p].side = "callee", ![p].mark = None, ![p].pc = x]
    BY Zenon DEF NotBusy
  <1> HIDE DEF x
  <1>2. job' = [job EXCEPT ![p] = [job[p] EXCEPT !.side = "callee", !.mark = None, !.pc = x]]
    BY Zenon, <1>1 DEF Job
  <1>3. /\ job'[p].op = job[p].op /\ job'[p].on = job[p].on /\ job'[p].side = "callee"
        /\ job'[p].pc = x
    BY Zenon, <1>2 DEF Job
  <1> QED BY Zenon, <1>3 DEF x

\* TakeMarker remembers the marker and keeps the side.
LEMMA TakeMarkerOwn ==
  ASSUME job \in [Handler -> Job], NEW p \in Handler, NEW m \in CallId, TakeMarker(p, m)
  PROVE  /\ job'[p].pc = "livecheck" /\ job'[p].mark = m /\ job'[p].side = job[p].side
         /\ job'[p].op = job[p].op /\ job'[p].on = job[p].on
  BY ZenonT(40) DEF TakeMarker, Job

\* Start fills in the record of an idle goroutine.
LEMMA StartOwn ==
  ASSUME job \in [Handler -> Job], NEW p \in Handler, NEW o, NEW x, NEW u, NEW c,
         Start(p, o, x, u, c)
  PROVE  /\ job'[p].op = o /\ job'[p].pc = x /\ job'[p].who = u /\ job'[p].on = c
         /\ job'[p].side = "caller"
  BY ZenonT(40) DEF Start, Idle

\* An invite is about a call between two users, and looks at one of them.
LEMMA InviteParties ==
  ASSUME Inv, NEW p \in Handler, job[p].op = "invite"
  PROVE  /\ job[p].on \in CallId /\ Invited(job[p].on)
         /\ party[job[p].on].caller \in User /\ party[job[p].on].callee \in User
         /\ job[p].side \in Side
         /\ PartyOf(job[p].on, job[p].side) \in User
  BY Zenon, SideIsUser DEF Inv, TypeOK, Job, JobInv, PartyInv

\* A vouched call holds the markers of its users.
LEMMA VouchedHolds ==
  ASSUME BusyInv, NEW c \in CallId, NEW u, Vouched(c), involves(c, u)
  PROVE  busy[u] = c
  BY Zenon DEF BusyInv, VouchInv, involves

\* onInvite: the call is new, so nothing in Redis or in a goroutine names it.
LEMMA InviteBusy ==
  ASSUME Inv, BusyInv, NEW p \in Handler, NEW u \in User, NEW v \in User, NEW c \in CallId,
         onInvite(p, u, v, c)
  PROVE  BusyInv'
  <1>1. /\ job'[p].op = "invite" /\ job'[p].pc = "marker" /\ job'[p].on = c /\ job'[p].side = "caller"
        /\ \A q \in Handler \ {p} : job'[q] = job[q]
    <2>1. /\ job \in [Handler -> Job] /\ Start(p, "invite", "marker", u, c)
          /\ u \in User \cup {None} /\ c \in CallId \cup {None}
      BY Zenon DEF onInvite, Inv, TypeOK
    <2>2. "invite" \in Op /\ "marker" \in Pc
      BY Zenon, PcIn, OpIn
    <2>3. \A q \in Handler \ {p} : job'[q] = job[q]
      BY Zenon, <2>1, <2>2, StartJob
    <2> QED BY <2>1, <2>3, StartOwn
  <1>2. /\ \A d \in CallId : Invited(d) => party'[d] = party[d] /\ Invited(d)' /\ d # c
        /\ call' = call /\ busy' = busy /\ slip' = slip
    BY Zenon DEF onInvite, Inv, TypeOK, Invited
  <1>3. \A d \in CallId : (Live(d)' <=> Live(d)) /\ (Vouched(d)' <=> Vouched(d)) /\ (Astray(d)' <=> Astray(d))
    BY Zenon, <1>2 DEF Live, Vouched, Astray, Slipped
  <1>4. \A q \in Handler : \A d \in CallId : Refers(job[q], d) => Invited(d)
    BY Zenon DEF BusyInv, NamesInv, Refers, Inv, JobInv, Frame
  <1>5. ~Touched(c)
    BY Zenon, <1>2, <1>4, CallsAssumption DEF Touched, BusyInv, LiveInv, MarkerInv
  <1>6. \A d \in CallId : Touched(d)' => Touched(d)
    <2>1. \A d \in CallId : ~Refers(job'[p], d)
      BY Zenon, <1>1 DEF Refers
    <2> QED BY Zenon, <1>1, <1>2, <1>3, <2>1 DEF Touched, Refers
  <1>7. LiveInv' /\ MarkerInv' /\ VouchInv'
    <2>1. LiveInv'
      BY Zenon, <1>2, <1>3 DEF BusyInv, LiveInv
    <2>2. MarkerInv'
      BY Zenon, <1>2 DEF BusyInv, MarkerInv, Inv, TypeOK, involves
    <2>3. VouchInv'
      BY Zenon, <1>2, <1>3 DEF BusyInv, LiveInv, VouchInv, Vouched
    <2> QED BY Zenon, <2>1, <2>2, <2>3
  <1>8. ASSUME NEW q \in Handler PROVE NamesInv(q)' /\ ReapInv(q)' /\ CheckInv(q)'
    <2>1. CASE q = p
      BY Zenon, <1>1, <2>1 DEF NamesInv, ReapInv, CheckInv, Passed
    <2>2. CASE q # p
      <3>1. NamesInv(q) /\ ReapInv(q) /\ CheckInv(q) /\ JobInv(q) /\ job'[q] = job[q]
        BY Zenon, <1>1, <2>2 DEF BusyInv, Inv
      <3>2. NamesInv(q)'
        BY ZenonT(40), <1>2, <3>1 DEF NamesInv, JobInv, involves, PartyOf
      <3>3. ReapInv(q)'
        BY Zenon, <1>3, <3>1 DEF ReapInv, NamesInv, JobInv
      <3>4. CheckInv(q)'
        <4>1. \A d \in CallId : Vouched(d) => party'[d] = party[d]
          BY Zenon, <1>2 DEF BusyInv, LiveInv, Vouched
        <4>2. Checking(job[q]) => job[q].on \in CallId /\ party'[job[q].on] = party[job[q].on]
          BY Zenon, <1>2, <3>1 DEF Checking, JobInv
        <4> SUFFICES ASSUME Checking(job[q]), ~Astray(job[q].on),
                            NEW d \in CallId \ {job[q].on}, Vouched(d)
                     PROVE  /\ \A s \in Side : Passed(job[q], s) => ~involves(d, PartyOf(job[q].on, s))'
                            /\ job[q].pc = "livecheck" /\ involves(d, PartyOf(job[q].on, job[q].side))' => job[q].mark = d
          BY Zenon, <1>3, <3>1, <4>2 DEF CheckInv, Passed
        <4>3. /\ \A s \in Side : Passed(job[q], s) => ~involves(d, PartyOf(job[q].on, s))
              /\ job[q].pc = "livecheck" /\ involves(d, PartyOf(job[q].on, job[q].side)) => job[q].mark = d
          BY Zenon, <3>1 DEF CheckInv
        <4> QED BY Zenon, <3>1, <4>1, <4>2, <4>3 DEF involves, PartyOf
      <3> QED BY Zenon, <3>2, <3>3, <3>4
    <2> QED BY Zenon, <2>1, <2>2
  <1>9. ASSUME NEW q \in Handler PROVE FreshInv(q)'
    <2>1. \A r \in Handler : job[r].op = "invite" => job[r].on \in CallId /\ job[r].on # c
      BY Zenon, <1>2 DEF Inv, JobInv
    <2>2. CASE q = p
      <3>1. ~Touched(job[p].on)'
        BY Zenon, <1>1, <1>5, <1>6 DEF Touched, Refers
      <3> QED BY Zenon, <1>1, <2>1, <2>2, <3>1 DEF FreshInv
    <2>3. CASE q # p
      <3>1. job'[q] = job[q]
        BY Zenon, <1>1, <2>3
      <3> SUFFICES ASSUME Checking(job[q])
                   PROVE  /\ ~Touched(job[q].on)'
                          /\ \A r \in Handler \ {q} : job'[r].op = "invite" => job'[r].on # job'[q].on
        BY Zenon, <3>1 DEF FreshInv, Checking
      <3>2. /\ ~Touched(job[q].on) /\ job[q].on \in CallId /\ job[q].on # c
            /\ \A r \in Handler \ {q} : job[r].op = "invite" => job[r].on # job[q].on
        BY Zenon, <2>1 DEF BusyInv, FreshInv, Checking
      <3>3. PICK e \in CallId : e = job[q].on
        BY Zenon, <3>2
      <3>4. ~Touched(e)' /\ job'[q].on = e
        BY Zenon, <1>6, <3>1, <3>2, <3>3
      <3>5. ~Touched(job[q].on)'
        BY Zenon, <3>4 DEF Touched, Refers
      <3> QED BY Zenon, <1>1, <3>1, <3>2, <3>5
    <2> QED BY Zenon, <2>2, <2>3
  <1> QED BY Zenon, <1>7, <1>8, <1>9 DEF BusyInv

\* The side that an invite leaves behind is free of vouched calls.
LEMMA FreeSide ==
  ASSUME Inv, BusyInv, NEW p \in Handler, NEW c \in CallId, job[p].on = c,
         Checking(job[p]), NotBusy(p),
         party' = party, slip \subseteq slip',
         \A d \in CallId : Vouched(d)' => Vouched(d),
         ~Astray(c)' => \A d \in CallId \ {c} : Vouched(d) => ~involves(d, PartyOf(c, job[p].side))
  PROVE  MoveOK(p)
  <1>1. /\ job'[p].op = "invite" /\ job'[p].on = c /\ job'[p].side = "callee"
        /\ job'[p].pc = IF job[p].side = "caller" THEN "marker" ELSE "reach"
        /\ job[p].op = "invite" /\ job[p].side \in {"caller", "callee"}
    BY Zenon, NotBusyOwn, InviteParties DEF Inv, TypeOK, Checking, Side
  <1>2. NamesInv(p)' /\ ReapInv(p)' /\ \A d \in CallId : ~Refers(job'[p], d)
    BY Zenon, <1>1 DEF NamesInv, ReapInv, Refers
  <1>3. CheckInv(p)'
    <2> SUFFICES ASSUME ~Astray(c)', NEW d \in CallId \ {c}, Vouched(d), NEW s \in Side,
                        Passed(job'[p], s)
                 PROVE  ~involves(d, PartyOf(c, s))
      BY Zenon, <1>1 DEF CheckInv, involves, PartyOf, Astray, Slipped
    <2>1. ~Astray(c)
      BY Zenon, AstrayStays
    <2>2. CASE s = job[p].side
      BY Zenon, <2>2
    <2>3. CASE s # job[p].side
      <3>1. Passed(job[p], s)
        BY Zenon, <1>1, <2>3 DEF Passed, Side
      <3> QED BY Zenon, <2>1, <3>1 DEF BusyInv, CheckInv
    <2> QED BY Zenon, <2>2, <2>3
  <1> QED BY Zenon, <1>1, <1>2, <1>3 DEF MoveOK

\* Reading a marker: a vouched call of that user is the one it names.
LEMMA ReadMarkerBusy ==
  ASSUME Inv, BusyInv, NEW p \in Handler, ReadMarker(p)
  PROVE  BusyInv'
  <1>0. PICK c \in CallId : job[p].on = c
    BY Zenon, InviteParties DEF ReadMarker, At
  <1> DEFINE u == PartyOf(c, job[p].side)
  <1>1. /\ Checking(job[p]) /\ job[p].op = "invite" /\ job[p].pc = "marker" /\ u \in User
        /\ job[p].side \in Side
    BY Zenon, <1>0, InviteParties DEF ReadMarker, At, Checking
  <1>2. party' = party /\ call' = call /\ busy' = busy /\ slip \subseteq slip'
    BY Zenon, <1>0 DEF ReadMarker, Mark
  <1>3. \A d \in CallId : Live(d)' = Live(d) /\ (Vouched(d)' => Vouched(d))
    BY Zenon, <1>0, <1>2, AstrayStays DEF Live, Vouched
  <1>4. \A q \in Handler \ {p} : job'[q] = job[q]
    <2>1. CASE NotBusy(p)
      BY Zenon, <1>0, <2>1, NotBusyJob DEF Inv, TypeOK
    <2>2. CASE busy[u] # None /\ TakeMarker(p, busy[u])
      <3>1. busy[u] \in CallId
        BY Zenon, <1>0, <1>1, <2>2 DEF Inv, TypeOK
      <3> QED BY Zenon, <1>0, <2>2, <3>1, TakeMarkerJob DEF Inv, TypeOK
    <2> QED BY Zenon, <1>0, <2>1, <2>2 DEF ReadMarker
  <1>5. MoveOK(p)
    <2>1. CASE busy[u] # None /\ TakeMarker(p, busy[u])
      <3>1. /\ job'[p].pc = "livecheck" /\ job'[p].mark = busy[u] /\ job'[p].side = job[p].side
            /\ job'[p].op = "invite" /\ job'[p].on = c /\ busy[u] \in CallId
        <4>1. busy[u] \in CallId
          BY Zenon, <1>0, <1>1, <2>1 DEF Inv, TypeOK
        <4> QED BY Zenon, <1>0, <1>1, <2>1, <4>1, TakeMarkerOwn DEF Inv, TypeOK
      <3>2. NamesInv(p)' /\ ReapInv(p)'
        BY Zenon, <1>0, <1>1, <1>2, <2>1, <3>1 DEF NamesInv, ReapInv, BusyInv, MarkerInv, Invited, involves, PartyOf
      <3>3. \A d \in CallId : Refers(job'[p], d) => Touched(d)
        BY Zenon, <1>0, <1>1, <3>1 DEF Refers, Touched
      <3>4. CheckInv(p)'
        <4> SUFFICES ASSUME ~Astray(c)', NEW d \in CallId \ {c}, Vouched(d)
                     PROVE  /\ \A s \in Side : Passed(job'[p], s) => ~involves(d, PartyOf(c, s))
                            /\ involves(d, u) => busy[u] = d
          BY ZenonT(40), <1>0, <1>1, <1>2, <1>3, <3>1 DEF CheckInv, involves, PartyOf, Astray, Slipped
        <4>1. \A s \in Side : Passed(job'[p], s) => Passed(job[p], s)
          BY Zenon, <1>0, <1>1, <3>1 DEF Passed
        <4>2. \A s \in Side : Passed(job[p], s) => ~involves(d, PartyOf(c, s))
          BY Zenon, <1>0, <1>1, <1>2, AstrayStays DEF BusyInv, CheckInv
        <4>3. involves(d, u) => busy[u] = d
          BY Zenon, <1>0, VouchedHolds
        <4> QED BY Zenon, <1>0, <4>1, <4>2, <4>3
      <3>5. Checking(job[p])
        BY Zenon, <1>0, <1>1
      <3> QED BY Zenon, <1>0, <1>1, <3>1, <3>2, <3>3, <3>4, <3>5 DEF MoveOK
    <2>2. CASE busy[u] = None /\ NotBusy(p)
      <3>1. \A d \in CallId \ {c} : Vouched(d) => ~involves(d, u)
        BY Zenon, <1>0, <2>2, VouchedHolds, CallsAssumption
      <3> QED BY Zenon, <1>0, <1>1, <1>2, <1>3, <2>2, <3>1, FreeSide
    <2>3. CASE NotBusy(p) /\ Mark("blind", {c})
      <3>1. Astray(c)'
        BY Zenon, <1>0, <2>3, MarkSlips DEF Astray
      <3> QED BY Zenon, <1>0, <1>1, <1>2, <1>3, <2>3, <3>1, FreeSide
    <2> QED BY Zenon, <1>0, <2>1, <2>2, <2>3 DEF ReadMarker
  <1> QED BY Zenon, <1>0, <1>2, <1>3, <1>4, <1>5, Keeps

\* The live check of a marker lets an invite pass only if its call is gone.
LEMMA LiveCheckBusy ==
  ASSUME Inv, BusyInv, NEW p \in Handler, LiveCheck(p)
  PROVE  BusyInv'
  <1>0. PICK c \in CallId : job[p].on = c
    BY Zenon, InviteParties DEF LiveCheck, At
  <1> DEFINE u == PartyOf(c, job[p].side)
  <1>m. PICK m \in CallId : job[p].mark = m
    BY Zenon DEF LiveCheck, At, BusyInv, NamesInv
  <1>1. /\ Checking(job[p]) /\ job[p].op = "invite" /\ job[p].pc = "livecheck" /\ u \in User
        /\ job[p].side \in Side
    BY Zenon, <1>0, InviteParties DEF LiveCheck, At, Checking
  <1>2. party' = party /\ call' = call /\ busy' = busy /\ slip \subseteq slip'
    BY Zenon, <1>0, <1>m DEF LiveCheck, Mark
  <1>3. \A d \in CallId : Live(d)' = Live(d) /\ (Vouched(d)' => Vouched(d))
    BY Zenon, <1>0, <1>m, <1>2, AstrayStays DEF Live, Vouched
  <1>4. \A q \in Handler \ {p} : job'[q] = job[q]
    BY Zenon, <1>0, <1>m, GotoJob, FinishJob, PcIn DEF LiveCheck, Inv, TypeOK
  <1>5. m \in CallId /\ Invited(m) /\ involves(m, u)
    BY Zenon, <1>0, <1>m, <1>1 DEF BusyInv, NamesInv
  <1>6. MoveOK(p)
    <2>1. CASE Finish(p)
      BY Zenon, <1>0, <1>m, <2>1, FinishJob, IdleMoves DEF Inv, TypeOK
    <2>2. CASE Goto(p, "reap") /\ (~Live(m) \/ Mark("blind", {c, m}))
      <3>1. /\ job'[p].pc = "reap" /\ job'[p].mark = m /\ job'[p].side = job[p].side
            /\ job'[p].op = "invite" /\ job'[p].on = c
        BY Zenon, <1>0, <1>m, <1>1, <2>2, GotoOwn, PcIn DEF Inv, TypeOK
      <3>2. NamesInv(p)'
        BY Zenon, <1>0, <1>m, <1>2, <1>5, <3>1 DEF NamesInv, Invited, involves, PartyOf
      <3>3. Live(m)' => Astray(m)' /\ Astray(c)'
        BY Zenon, <1>0, <1>m, <1>3, <1>5, <2>2, MarkSlips DEF Astray
      <3>4. ReapInv(p)'
        BY Zenon, <1>0, <1>m, <3>1, <3>3 DEF ReapInv, Vouched, Live, Astray, Slipped
      <3>5. \A d \in CallId : Refers(job'[p], d) => Touched(d)
        BY Zenon, <1>0, <1>m, <1>1, <3>1 DEF Refers, Touched
      <3>6. CheckInv(p)'
        <4> SUFFICES ASSUME ~Astray(c)', NEW d \in CallId \ {c}, Vouched(d), NEW s \in Side,
                            Passed(job'[p], s)
                     PROVE  ~involves(d, PartyOf(c, s))
          BY Zenon, <1>0, <1>m, <1>1, <1>2, <1>3, <3>1 DEF CheckInv, involves, PartyOf, Astray, Slipped
        <4>1. ~Astray(c) /\ ~Live(m)
          BY Zenon, <1>2, <1>3, <3>3, AstrayStays
        <4>2. CASE s = job[p].side
          BY Zenon, <1>0, <1>m, <1>1, <4>1, <4>2 DEF BusyInv, CheckInv, Vouched
        <4>3. CASE s # job[p].side
          <5>1. Passed(job[p], s)
            BY Zenon, <1>0, <1>m, <3>1, <4>3 DEF Passed
          <5> QED BY Zenon, <1>0, <1>m, <1>1, <4>1, <5>1 DEF BusyInv, CheckInv
        <4> QED BY Zenon, <1>0, <1>m, <4>2, <4>3
      <3>7. Checking(job[p])
        BY Zenon, <1>0, <1>m, <1>1
      <3> QED BY Zenon, <1>0, <1>m, <1>1, <3>1, <3>2, <3>4, <3>5, <3>6, <3>7 DEF MoveOK
    <2> QED BY Zenon, <1>0, <1>m, <1>5, <2>1, <2>2 DEF LiveCheck
  <1> QED BY Zenon, <1>0, <1>m, <1>2, <1>3, <1>4, <1>6, Keeps

\* Clearing a marker takes it from no vouched call, but for the ones it robs.
LEMMA ReapBusy ==
  ASSUME Inv, BusyInv, NEW p \in Handler, Reap(p)
  PROVE  BusyInv'
  <1>0. PICK c \in CallId : job[p].on = c
    BY Zenon, InviteParties DEF Reap, At
  <1> DEFINE u == PartyOf(c, job[p].side)
  <1>m. PICK m \in CallId : job[p].mark = m
    BY Zenon DEF Reap, At, BusyInv, NamesInv
  <1>1. /\ Checking(job[p]) /\ job[p].op = "invite" /\ job[p].pc = "reap" /\ u \in User
        /\ job[p].side \in Side
    BY Zenon, <1>0, InviteParties DEF Reap, At, Checking
  <1>2. party' = party /\ call' = call /\ slip \subseteq slip' /\ NotBusy(p)
    BY Zenon, <1>0, <1>m DEF Reap, Mark
  <1>3. \A d \in CallId : Live(d)' = Live(d) /\ (Vouched(d)' => Vouched(d))
    BY Zenon, <1>0, <1>m, <1>2, AstrayStays DEF Live, Vouched
  <1>4. \A q \in Handler \ {p} : job'[q] = job[q]
    BY Zenon, <1>0, <1>m, <1>2, NotBusyJob DEF Inv, TypeOK
  <1>5. ~Vouched(m)
    BY Zenon, <1>0, <1>m, <1>1 DEF BusyInv, ReapInv
  <1>6. \A w \in User : \/ busy'[w] = busy[w]
                        \/ busy'[w] = None /\ \A d \in CallId : busy[w] = d => ~Vouched(d)'
    <2>1. CASE busy' = busy
      BY Zenon, <1>0, <1>m, <2>1
    <2>2. CASE busy' = [busy EXCEPT ![u] = None] /\ Mark("unmarked", Robbed({u}, m))
      <3>1. \A d \in CallId : busy[u] = d => ~Vouched(d)'
        <4> SUFFICES ASSUME NEW d \in CallId, busy[u] = d, Vouched(d)' PROVE FALSE
          BY Zenon
        <4>1. d # m /\ Live(d)
          BY Zenon, <1>0, <1>m, <1>3, <1>5 DEF Vouched
        <4>2. d \in Robbed({u}, m)
          BY Zenon, <1>0, <1>m, <4>1 DEF Robbed
        <4>3. Astray(d)'
          BY Zenon, <1>0, <1>m, <2>2, <4>2, MarkSlips DEF Astray
        <4> QED BY Zenon, <1>0, <1>m, <4>3 DEF Vouched
      <3> QED BY Zenon, <1>0, <1>m, <1>1, <2>2, <3>1 DEF Inv, TypeOK
    <2> QED BY Zenon, <1>0, <1>m, <2>1, <2>2 DEF Reap
  <1>7. \A d \in CallId \ {c} : ~Astray(c)' /\ Vouched(d) => ~involves(d, u)
    <2>1. Passed(job[p], job[p].side)
      BY Zenon, <1>0, <1>m, <1>1 DEF Passed
    <2> QED BY Zenon, <1>0, <1>m, <1>1, <1>2, <2>1, AstrayStays DEF BusyInv, CheckInv
  <1>8. MoveOK(p)
    BY Zenon, <1>0, <1>m, <1>1, <1>2, <1>3, <1>7, FreeSide
  <1> QED BY Zenon, <1>0, <1>m, <1>2, <1>3, <1>4, <1>6, <1>8, Keeps

\* The reachability check, the journal row and the ring change no marker.
LEMMA ReachBusy ==
  ASSUME Inv, BusyInv, NEW p \in Handler, Reach(p) \/ Journal(p) \/ Announce(p)
  PROVE  BusyInv'
  <1>0. PICK c \in CallId : job[p].on = c
    BY Zenon, InviteParties DEF Reach, Journal, Announce, At
  <1>1. job[p].op = "invite" /\ party' = party /\ call' = call /\ busy' = busy /\ slip' = slip
    BY Zenon DEF Reach, Journal, Announce, At
  <1>2. \A d \in CallId : Live(d)' = Live(d) /\ (Vouched(d)' => Vouched(d)) /\ (Astray(d)' => Astray(d))
    BY Zenon, <1>1 DEF Live, Vouched, Astray, Slipped
  <1>3. \A q \in Handler \ {p} : job'[q] = job[q]
    BY Zenon, GotoJob, FinishJob, PcIn DEF Reach, Journal, Announce, Inv, TypeOK
  <1>4. MoveOK(p)
    <2>1. CASE Finish(p)
      BY Zenon, <2>1, FinishJob, IdleMoves DEF Inv, TypeOK
    <2>2. CASE Goto(p, "announce")
      <3>1. job'[p].pc = "announce" /\ job'[p].op = "invite" /\ job'[p].on = job[p].on
        BY Zenon, <1>1, <2>2, GotoOwn, PcIn DEF Inv, TypeOK
      <3>2. NamesInv(p)' /\ ReapInv(p)' /\ CheckInv(p)'
        BY Zenon, <3>1 DEF NamesInv, ReapInv, CheckInv, Checking
      <3>3. ~Checking(job'[p]) /\ \A d \in CallId : ~Refers(job'[p], d)
        BY Zenon, <3>1 DEF Refers, Checking
      <3> QED BY Zenon, <1>1, <3>1, <3>2, <3>3 DEF MoveOK
    <2>3. CASE job[p].pc = "reach" /\ Goto(p, "create")
      <3>1. job'[p].pc = "create" /\ job'[p].op = "invite" /\ job'[p].on = c
        BY Zenon, <1>0, <1>1, <2>3, GotoOwn, PcIn DEF Inv, TypeOK
      <3>2. NamesInv(p)' /\ ReapInv(p)' /\ \A d \in CallId : ~Refers(job'[p], d)
        BY Zenon, <3>1 DEF NamesInv, ReapInv, Refers
      <3>3. Checking(job[p]) /\ \A s \in Side : Passed(job[p], s)
        BY Zenon, <1>1, <2>3 DEF Checking, Passed
      <3>4. CheckInv(p)'
        <4> SUFFICES ASSUME ~Astray(c)', NEW d \in CallId \ {c}, Vouched(d), NEW s \in Side
                     PROVE  ~involves(d, PartyOf(c, s))
          BY Zenon, <1>1, <1>2, <3>1 DEF CheckInv, involves, PartyOf, Astray, Slipped
        <4>1. ~Astray(c)
          BY Zenon, <1>1 DEF Astray, Slipped
        <4> QED BY Zenon, <1>0, <3>3, <4>1 DEF BusyInv, CheckInv
      <3> QED BY Zenon, <1>0, <1>1, <3>1, <3>2, <3>3, <3>4 DEF MoveOK
    <2> QED BY Zenon, <2>1, <2>2, <2>3 DEF Reach, Journal, Announce, At
  <1>5. slip \subseteq slip'
    BY Zenon, <1>1
  <1> QED BY Zenon, <1>1, <1>2, <1>3, <1>4, <1>5, Keeps

\* Create: the new call takes both markers, which no vouched call held if the
\* checks of its invite can be trusted; the invites it crosses cannot be.
LEMMA CreateBusy ==
  ASSUME Inv, BusyInv, NEW p \in Handler, Create(p)
  PROVE  BusyInv'
  <1>0. PICK c \in CallId : job[p].on = c
    BY Zenon, InviteParties DEF Create, At
  <1>1. /\ job[p].op = "invite" /\ job[p].pc = "create" /\ Checking(job[p]) /\ Invited(c)
        /\ party[c].caller \in User /\ party[c].callee \in User
    BY Zenon, <1>0, InviteParties DEF Create, At, Checking
  <1>2. CASE Finish(p) /\ call' = call /\ busy' = busy /\ slip' = slip
    <2>1. party' = party /\ slip \subseteq slip' /\ \A q \in Handler \ {p} : job'[q] = job[q]
      BY Zenon, <1>2, FinishJob DEF Create, Inv, TypeOK
    <2>2. MoveOK(p)
      BY Zenon, <1>2, FinishJob, IdleMoves DEF Inv, TypeOK
    <2>3. \A d \in CallId : Live(d)' = Live(d)
      BY Zenon, <1>2 DEF Live
    <2> QED BY Zenon, <1>2, <2>1, <2>2, <2>3, Keeps
  <1>3. CASE ~(Finish(p) /\ call' = call /\ busy' = busy /\ slip' = slip)
    <2> DEFINE S == IF Astray(c) THEN Robbed(Parties(c), c) ELSE {}
    <2>1. /\ call' = [call EXCEPT ![c] = "ringing"] /\ party' = party /\ Goto(p, "journal")
          /\ busy' = [busy EXCEPT ![party[c].caller] = c, ![party[c].callee] = c]
          /\ slip' = slip \cup ({"crossed"} \X Crossing(c)) \cup ({"unmarked"} \X S)
      BY Zenon, <1>0, <1>3 DEF Create
    <2>2. slip \subseteq slip' /\ (\A d \in Crossing(c) : Astray(d)') /\ (\A d \in S : Astray(d)')
      <3>1. (\A d \in Crossing(c) : <<"crossed", d>> \in {"crossed"} \X Crossing(c))
            /\ (\A d \in S : <<"unmarked", d>> \in {"unmarked"} \X S)
        <4> HIDE DEF S
        <4> QED BY SMT
      <3> HIDE DEF S
      <3> QED BY Zenon, <2>1, <3>1 DEF Astray, Slipped
    <2>3. /\ job'[p].pc = "journal" /\ job'[p].op = "invite" /\ job'[p].on = c
          /\ \A q \in Handler \ {p} : job'[q] = job[q]
      BY Zenon, <1>0, <1>1, <2>1, GotoJob, PcIn DEF Inv, TypeOK
    <2>4. \A d \in CallId \ {c} : Live(d)' = Live(d) /\ (Vouched(d)' => Vouched(d))
      BY Zenon, <2>1, <2>2, AstrayStays DEF Live, Vouched, Inv, TypeOK
    <2>5. \A u \in User : busy'[u] = IF u = party[c].caller \/ u = party[c].callee THEN c ELSE busy[u]
      BY Zenon, <1>1, <2>1 DEF Inv, TypeOK
    <2>6. ASSUME NEW d \in CallId \ {c}, Vouched(d)', NEW u, involves(d, u)
          PROVE  u # party[c].caller /\ u # party[c].callee
      <3> SUFFICES ASSUME u \in Parties(c) PROVE FALSE
        BY Zenon DEF Parties
      <3>1. Vouched(d) /\ busy[u] = d /\ Live(d)
        BY Zenon, <2>4, <2>6, VouchedHolds DEF Vouched
      <3>2. CASE Astray(c)
        <4>1. d \in S
          BY Zenon, <3>1, <3>2 DEF Robbed
        <4> QED BY Zenon, <2>2, <2>6, <4>1 DEF Vouched
      <3>3. CASE ~Astray(c)
        <4>1. \A s \in Side : ~involves(d, PartyOf(c, s))
          BY Zenon, <1>0, <1>1, <3>1, <3>3 DEF BusyInv, CheckInv, Passed
        <4>2. ~involves(d, party[c].caller) /\ ~involves(d, party[c].callee)
          BY Zenon, <4>1 DEF Side, PartyOf
        <4> QED BY Zenon, <2>6, <4>2 DEF Parties
      <3> QED BY Zenon, <3>2, <3>3
    <2>7. LiveInv' /\ MarkerInv'
      <3>1. LiveInv'
        BY Zenon, <1>1, <2>1, <2>4 DEF BusyInv, LiveInv, Invited
      <3>2. MarkerInv'
        <4> SUFFICES ASSUME NEW u \in User, busy'[u] # None
                     PROVE  Invited(busy'[u]) /\ involves(busy'[u], u)
          BY Zenon, <2>1 DEF MarkerInv, Invited, involves
        <4>1. CASE u = party[c].caller \/ u = party[c].callee
          BY Zenon, <1>1, <2>5, <4>1 DEF involves
        <4>2. CASE ~(u = party[c].caller \/ u = party[c].callee)
          BY Zenon, <2>5, <4>2 DEF BusyInv, MarkerInv
        <4> QED BY Zenon, <4>1, <4>2
      <3> QED BY Zenon, <3>1, <3>2
    <2>8. VouchInv'
      <3> SUFFICES ASSUME NEW d \in CallId, Vouched(d)'
                   PROVE  busy'[party[d].caller] = d /\ busy'[party[d].callee] = d
        BY Zenon, <2>1 DEF VouchInv
      <3>1. CASE d = c
        BY Zenon, <1>1, <2>5, <3>1
      <3>2. CASE d # c
        <4>1. Vouched(d) /\ party[d].caller \in User /\ party[d].callee \in User
          BY Zenon, <2>4, <3>2 DEF BusyInv, LiveInv, Vouched, Inv, PartyInv
        <4>2. busy[party[d].caller] = d /\ busy[party[d].callee] = d
          BY Zenon, <4>1 DEF BusyInv, VouchInv
        <4>3. involves(d, party[d].caller) /\ involves(d, party[d].callee)
          BY Zenon DEF involves
        <4>4. /\ party[d].caller # party[c].caller /\ party[d].caller # party[c].callee
              /\ party[d].callee # party[c].caller /\ party[d].callee # party[c].callee
          BY Zenon, <2>6, <3>2, <4>3
        <4> QED BY Zenon, <2>5, <4>1, <4>2, <4>4
      <3> QED BY Zenon, <3>1, <3>2
    <2>9. ~Touched(c) /\ \A q \in Handler \ {p} : job[q].op = "invite" => job[q].on # c
      BY Zenon, <1>0, <1>1 DEF BusyInv, FreshInv
    <2>10. ASSUME NEW q \in Handler PROVE NamesInv(q)' /\ ReapInv(q)' /\ CheckInv(q)'
      <3>1. CASE q = p
        BY Zenon, <2>3, <3>1 DEF NamesInv, ReapInv, CheckInv, Checking
      <3>2. CASE q # p
        <4>1. NamesInv(q) /\ ReapInv(q) /\ CheckInv(q) /\ JobInv(q) /\ job'[q] = job[q]
          BY Zenon, <2>3, <3>2 DEF BusyInv, Inv
        <4>2. NamesInv(q)'
          BY Zenon, <2>1, <4>1 DEF NamesInv, Invited, involves, PartyOf
        <4>3. ReapInv(q)'
          <5>1. \A d \in CallId : Refers(job[q], d) => d # c
            BY Zenon, <2>9 DEF Touched
          <5> QED BY Zenon, <2>4, <4>1, <5>1 DEF ReapInv, NamesInv, JobInv, Refers
        <4>4. CheckInv(q)'
          <5> SUFFICES ASSUME Checking(job[q]) PROVE CheckInv(q)'
            BY Zenon, <4>1 DEF CheckInv, Checking
          <5>1. PICK e \in CallId : job[q].on = e
            BY Zenon, <4>1 DEF JobInv, Checking
          <5> SUFFICES ASSUME ~Astray(e)', NEW d \in CallId \ {e}, Vouched(d)'
                       PROVE  /\ \A s \in Side : Passed(job'[q], s) => ~involves(d, PartyOf(e, s))
                              /\ job'[q].pc = "livecheck" /\ involves(d, PartyOf(e, job'[q].side)) => job'[q].mark = d
            <6>1. job'[q].on = e
              BY Zenon, <4>1, <5>1
            <6> QED BY Zenon, <2>1, <6>1 DEF CheckInv, involves, PartyOf, Astray, Slipped
          <5>2. ~Astray(e)
            BY Zenon, <2>2, AstrayStays
          <5>3. CASE d # c
            BY Zenon, <2>4, <4>1, <5>1, <5>2, <5>3 DEF CheckInv
          <5>4. CASE d = c
            <6>1. Running(e, "invite", {"marker", "livecheck", "reap", "reach", "create"})
              BY Zenon, <5>1 DEF Running, Checking
            <6>2. e \notin Crossing(c) /\ e # c
              BY Zenon, <2>2, <5>4
            <6>3. Parties(c) \cap Parties(e) = {}
              BY Zenon, <6>1, <6>2 DEF Crossing
            <6>4. \A s : ~involves(c, PartyOf(e, s))
              BY Zenon, <6>3 DEF Parties, PartyOf, involves
            <6> QED BY Zenon, <5>4, <6>4
          <5> QED BY Zenon, <5>3, <5>4
        <4> QED BY Zenon, <4>2, <4>3, <4>4
      <3> QED BY Zenon, <3>1, <3>2
    <2>11. ASSUME NEW q \in Handler PROVE FreshInv(q)'
      <3>1. CASE q = p
        BY Zenon, <2>3, <3>1 DEF FreshInv, Checking
      <3>2. CASE q # p
        <4>1. job'[q] = job[q]
          BY Zenon, <2>3, <3>2
        <4> SUFFICES ASSUME Checking(job[q]) PROVE FreshInv(q)'
          BY Zenon, <4>1 DEF FreshInv, Checking
        <4>2. PICK e \in CallId : job[q].on = e
          BY Zenon DEF Inv, JobInv, Checking
        <4>3. ~Touched(e) /\ e # c /\ \A r \in Handler \ {q} : job[r].op = "invite" => job[r].on # e
          BY Zenon, <2>9, <3>2, <4>2 DEF BusyInv, FreshInv, Checking
        <4>4. ~Touched(e)'
          <5>1. ~Live(e)'
            BY Zenon, <2>4, <4>3 DEF Touched
          <5>2. \A u \in User : busy'[u] # e
            BY Zenon, <2>5, <4>3 DEF Touched
          <5>3. \A r \in Handler : ~Refers(job'[r], e)
            BY Zenon, <2>3, <4>3 DEF Touched, Refers
          <5> QED BY Zenon, <5>1, <5>2, <5>3 DEF Touched, Refers
        <4>5. ~Touched(job[q].on)'
          BY Zenon, <4>1, <4>2, <4>4 DEF Touched, Refers
        <4>6. \A r \in Handler \ {q} : job'[r].op = "invite" => job'[r].on # job'[q].on
          BY Zenon, <1>0, <1>1, <2>3, <4>1, <4>2, <4>3
        <4> QED BY Zenon, <4>5, <4>6 DEF FreshInv
      <3> QED BY Zenon, <3>1, <3>2
    <2> QED BY Zenon, <2>7, <2>8, <2>10, <2>11 DEF BusyInv
  <1> QED BY Zenon, <1>2, <1>3

\* A goroutine of another kind, that holds neither a marker nor a call key, has
\* nothing to show.
LEMMA PlainMoves ==
  ASSUME NEW q \in Handler, job'[q].op # "invite", job'[q].pc \notin {"markget", "markset"},
         job'[q].op = "disconnect" => job'[q].pc \notin {"get", "reap"}
  PROVE  MoveOK(q)
  <1>1. NamesInv(q)' /\ ReapInv(q)'
    BY Zenon DEF NamesInv, ReapInv
  <1>2. CheckInv(q)' /\ ~Checking(job'[q])
    BY Zenon DEF CheckInv, Checking
  <1>3. \A c \in CallId : ~Refers(job'[q], c)
    BY Zenon DEF Refers
  <1> QED BY Zenon, <1>1, <1>2, <1>3 DEF MoveOK

\* A step that writes neither a call key nor a marker.
LEMMA QuietBusy ==
  ASSUME Inv, BusyInv, party' = party, call' = call, busy' = busy, slip \subseteq slip',
         \A q \in Handler : job'[q] = job[q] \/ MoveOK(q)
  PROVE  BusyInv'
  <1>1. \A c \in CallId : Live(c)' = Live(c)
    BY Zenon DEF Live
  <1> QED BY Zenon, <1>1, Keeps

\* Starting a goroutine for a frame, a ring timer or a lost connection.
LEMMA StartBusy ==
  ASSUME Inv, BusyInv, NEW p \in Handler,
         \/ \E u \in User, f \in Frame, c \in CallId : HandleSignal(p, u, f, c)
         \/ \E c \in CallId : RingTimer(p, c)
         \/ \E u \in User : Disconnect(p, u)
  PROVE  BusyInv'
  <1>1. PICK o \in Op, x \in Pc, u \in User \cup {None}, c \in CallId \cup {None} :
          Start(p, o, x, u, c) /\ o # "invite" /\ x \in {"get", "marker"} /\ (o = "disconnect" => x = "marker")
    BY Zenon, OpIn, PcIn DEF HandleSignal, RingTimer, Disconnect, Frame
  <1>2. party' = party /\ call' = call /\ busy' = busy /\ slip \subseteq slip'
    BY Zenon DEF HandleSignal, RingTimer, Disconnect
  <1>3. job'[p].op = o /\ job'[p].pc = x /\ \A q \in Handler \ {p} : job'[q] = job[q]
    BY ZenonT(40), <1>1, StartJob DEF Inv, TypeOK
  <1>4. MoveOK(p)
    BY Zenon, <1>1, <1>3, PlainMoves
  <1> QED BY Zenon, <1>2, <1>3, <1>4, QuietBusy

\* An answer that finds its call remembers a call that is there.
LEMMA AnswerBusy ==
  ASSUME Inv, BusyInv, NEW p \in Handler, AnswerGet(p) \/ MarkGet(p)
  PROVE  BusyInv'
  <1>1. party' = party /\ call' = call /\ busy' = busy /\ slip \subseteq slip'
    BY Zenon, MarkSlips DEF AnswerGet, MarkGet
  <1>2. job[p].op = "answer" /\ \A q \in Handler \ {p} : job'[q] = job[q]
    BY Zenon, GotoJob, FinishJob, PcIn DEF AnswerGet, MarkGet, At, Inv, TypeOK
  <1>3. CASE Finish(p)
    BY Zenon, <1>1, <1>2, <1>3, FinishJob, IdleMoves, QuietBusy DEF Inv, TypeOK
  <1>4. CASE ~Finish(p)
    <2>1. /\ Live(job[p].on) /\ job'[p].on = job[p].on /\ job'[p].op = "answer"
          /\ job'[p].pc \in {"markget", "markset"}
      BY Zenon, <1>2, <1>4, GotoJob, PcIn DEF AnswerGet, MarkGet, Live, Inv, TypeOK
    <2>2. NamesInv(p)' /\ ReapInv(p)' /\ CheckInv(p)' /\ ~Checking(job'[p])
      BY Zenon, <2>1 DEF NamesInv, ReapInv, CheckInv, Checking
    <2>3. \A c \in CallId : Refers(job'[p], c) => Touched(c)
      BY Zenon, <2>1 DEF Refers, Touched
    <2>4. MoveOK(p)
      BY Zenon, <2>1, <2>2, <2>3 DEF MoveOK
    <2> QED BY Zenon, <1>1, <1>2, <2>4, QuietBusy
  <1> QED BY Zenon, <1>3, <1>4

\* MarkAnswered may bring a deleted call back, but then it has slipped.
LEMMA MarkSetBusy ==
  ASSUME Inv, BusyInv, NEW p \in Handler, MarkSet(p)
  PROVE  BusyInv'
  <1>1. PICK c \in CallId : job[p].on = c /\ Invited(c)
    BY Zenon DEF MarkSet, At, Inv, JobInv, Frame
  <1>2. party' = party /\ busy' = busy /\ slip \subseteq slip'
    BY Zenon, <1>1, MarkSlips DEF MarkSet
  <1>3. job'[p] = Idle /\ \A q \in Handler \ {p} : job'[q] = job[q]
    BY Zenon, FinishJob DEF MarkSet, Inv, TypeOK
  <1>4. Touched(c)
    BY Zenon, <1>1 DEF Touched, Refers, MarkSet, At
  <1>5. \A d \in CallId : Live(d)' => Live(d) \/ (Astray(d)' /\ Touched(d) /\ Invited(d))
    <2>1. \A d \in CallId \ {c} : Live(d)' => Live(d)
      BY Zenon, <1>1 DEF MarkSet, Live, Inv, TypeOK
    <2>2. Live(c)' => Live(c) \/ Astray(c)'
      <3>1. CASE call' = call
        BY Zenon, <3>1 DEF Live
      <3>2. CASE ~Live(c) => Mark("unmarked", {c})
        BY Zenon, <3>2, MarkSlips DEF Astray
      <3> QED BY Zenon, <1>1, <3>1, <3>2 DEF MarkSet
    <2> QED BY Zenon, <1>1, <1>4, <2>1, <2>2
  <1> QED BY Zenon, <1>2, <1>3, <1>5, IdleMoves, Keeps

\* onTerminate, onRingTimeout and the journal's last word write no marker.
LEMMA EndingBusy ==
  ASSUME Inv, BusyInv, NEW p \in Handler,
         TerminateGet(p) \/ onRingTimeout(p) \/ finalize(p) \/ DeleteGet(p)
  PROVE  BusyInv'
  <1>1. party' = party /\ call' = call /\ busy' = busy /\ slip \subseteq slip'
    BY Zenon, MarkSlips DEF TerminateGet, onRingTimeout, finalize, DeleteGet, EndedEarly
  <1>2. job[p].op # "invite" /\ job[p].on \in CallId
    BY Zenon DEF TerminateGet, onRingTimeout, finalize, DeleteGet, At, Inv, JobInv, Frame
  <1>3. call[job[p].on] \in Phase /\ job \in [Handler -> Job]
    BY Zenon, <1>2 DEF Inv, TypeOK
  <1>4. \/ Finish(p)
        \/ Goto(p, "delget")
        \/ \E x \in {"finalize", "del"} : GotoWith(p, x, call[job[p].on])
    BY Zenon DEF TerminateGet, onRingTimeout, finalize, DeleteGet, Farewell
  <1>5. MoveOK(p) /\ \A q \in Handler \ {p} : job'[q] = job[q]
    <2>1. CASE Finish(p)
      BY Zenon, <1>3, <2>1, FinishJob, IdleMoves
    <2>2. CASE Goto(p, "delget")
      BY Zenon, <1>2, <1>3, <2>2, GotoJob, PcIn, PlainMoves
    <2>3. ASSUME NEW x \in {"finalize", "del"}, GotoWith(p, x, call[job[p].on])
          PROVE  MoveOK(p) /\ \A q \in Handler \ {p} : job'[q] = job[q]
      <3>1. x \in Pc /\ x \notin {"markget", "markset", "get", "reap"}
        BY Zenon, PcIn
      <3> QED BY Zenon, <1>2, <1>3, <2>3, <3>1, SeenJob, PlainMoves
    <2> QED BY Zenon, <1>4, <2>1, <2>2, <2>3
  <1> QED BY Zenon, <1>1, <1>5, QuietBusy

\* The disconnect hook reads a marker of its user, and the call it names.
LEMMA HookBusy ==
  ASSUME Inv, BusyInv, NEW p \in Handler, DisconnectMarker(p) \/ DisconnectGet(p)
  PROVE  BusyInv'
  <1>1. party' = party /\ call' = call /\ busy' = busy /\ slip \subseteq slip'
    BY Zenon, MarkSlips DEF DisconnectMarker, DisconnectGet, EndedEarly
  <1>2. /\ job[p].op = "disconnect" /\ job[p].who \in User /\ job \in [Handler -> Job]
        /\ busy[job[p].who] \in CallId \cup {None}
    BY Zenon DEF DisconnectMarker, DisconnectGet, At, Inv, JobInv, TypeOK
  <1>3. CASE Finish(p)
    BY Zenon, <1>1, <1>2, <1>3, FinishJob, IdleMoves, QuietBusy
  <1>4. CASE DisconnectMarker(p) /\ busy[job[p].who] # None /\ TakeCall(p, busy[job[p].who])
    <2>1. PICK m \in CallId : busy[job[p].who] = m
      BY Zenon, <1>2, <1>4
    <2>2. /\ job'[p].pc = "get" /\ job'[p].on = m /\ job'[p].op = "disconnect" /\ job'[p].who = job[p].who
          /\ \A q \in Handler \ {p} : job'[q] = job[q]
      BY Zenon, <1>2, <1>4, <2>1, TakeCallJob
    <2>3. Invited(m) /\ involves(m, job[p].who) /\ Touched(m)
      BY Zenon, <1>2, <1>4, <2>1 DEF BusyInv, MarkerInv, Touched
    <2>4. NamesInv(p)'
      BY Zenon, <1>1, <2>2, <2>3 DEF NamesInv, Invited, involves
    <2>5. ReapInv(p)' /\ CheckInv(p)' /\ ~Checking(job'[p])
      BY Zenon, <2>2 DEF ReapInv, CheckInv, Checking
    <2>6. \A c \in CallId : Refers(job'[p], c) => Touched(c)
      BY Zenon, <2>2, <2>3 DEF Refers
    <2>7. MoveOK(p)
      BY Zenon, <2>2, <2>4, <2>5, <2>6 DEF MoveOK
    <2> QED BY Zenon, <1>1, <2>2, <2>7, QuietBusy
  <1>5. CASE DisconnectGet(p) /\ ~Finish(p)
    <2>1. PICK c \in CallId : job[p].on = c
      BY Zenon, <1>5 DEF DisconnectGet, At, Inv, JobInv
    <2>2. job[p].pc = "get" /\ Invited(c) /\ involves(c, job[p].who) /\ call[c] \in Phase
      BY Zenon, <1>5, <2>1 DEF DisconnectGet, At, BusyInv, NamesInv, Inv, TypeOK
    <2>3. CASE GotoWith(p, "finalize", call[c])
      <3>1. /\ job'[p].pc = "finalize" /\ job'[p].op = job[p].op
            /\ \A q \in Handler \ {p} : job'[q] = job[q]
        BY Zenon, <1>2, <2>2, <2>3, SeenJob, PcIn
      <3>2. job'[p].op # "invite"
        BY Zenon, <1>2, <3>1
      <3>3. MoveOK(p)
        BY Zenon, <3>1, <3>2, PlainMoves
      <3> QED BY Zenon, <1>1, <3>1, <3>3, QuietBusy
    <2>4. CASE ~Live(c) /\ Goto(p, "reap")
      <3>1. /\ job'[p].pc = "reap" /\ job'[p].on = c /\ job'[p].op = "disconnect"
            /\ job'[p].who = job[p].who /\ \A q \in Handler \ {p} : job'[q] = job[q]
        BY Zenon, <1>2, <2>1, <2>4, GotoJob, PcIn
      <3>2. NamesInv(p)'
        BY Zenon, <1>1, <2>2, <3>1 DEF NamesInv, Invited, involves
      <3>3. ReapInv(p)'
        BY Zenon, <1>1, <2>4, <3>1 DEF ReapInv, Vouched, Live
      <3>4. CheckInv(p)' /\ ~Checking(job'[p])
        BY Zenon, <3>1 DEF CheckInv, Checking
      <3>5. \A d \in CallId : Refers(job'[p], d) => Touched(d)
        BY Zenon, <1>2, <2>1, <2>2, <3>1 DEF Refers, Touched
      <3>6. MoveOK(p)
        BY Zenon, <3>1, <3>2, <3>3, <3>4, <3>5 DEF MoveOK
      <3> QED BY Zenon, <1>1, <3>1, <3>6, QuietBusy
    <2> QED BY Zenon, <1>5, <2>1, <2>2, <2>3, <2>4 DEF DisconnectGet
  <1> QED BY Zenon, <1>3, <1>4, <1>5 DEF DisconnectMarker

\* The disconnect hook clears a marker like an invite does.
LEMMA HookReapBusy ==
  ASSUME Inv, BusyInv, NEW p \in Handler, DisconnectReap(p)
  PROVE  BusyInv'
  <1>0. PICK u \in User, m \in CallId : job[p].who = u /\ job[p].on = m
    BY Zenon DEF DisconnectReap, At, Inv, JobInv
  <1>1. party' = party /\ call' = call /\ slip \subseteq slip' /\ ~Vouched(m)
    BY Zenon, <1>0, MarkSlips DEF DisconnectReap, At, BusyInv, ReapInv
  <1>2. job'[p] = Idle /\ \A q \in Handler \ {p} : job'[q] = job[q]
    BY Zenon, FinishJob DEF DisconnectReap, Inv, TypeOK
  <1>3. \A d \in CallId : Live(d)' = Live(d) /\ (Vouched(d)' => Vouched(d))
    BY Zenon, <1>1, AstrayStays DEF Live, Vouched
  <1>4. \A w \in User : \/ busy'[w] = busy[w]
                        \/ busy'[w] = None /\ \A d \in CallId : busy[w] = d => ~Vouched(d)'
    <2>1. CASE busy' = busy
      BY Zenon, <2>1
    <2>2. CASE busy' = [busy EXCEPT ![u] = None] /\ Mark("unmarked", Robbed({u}, m))
      <3>1. \A d \in CallId : busy[u] = d => ~Vouched(d)'
        <4> SUFFICES ASSUME NEW d \in CallId, busy[u] = d, Vouched(d)' PROVE FALSE
          BY Zenon
        <4>1. d # m /\ Live(d)
          BY Zenon, <1>1, <1>3 DEF Vouched
        <4>2. d \in Robbed({u}, m)
          BY Zenon, <4>1 DEF Robbed
        <4>3. Astray(d)'
          BY Zenon, <2>2, <4>2, MarkSlips DEF Astray
        <4> QED BY Zenon, <4>3 DEF Vouched
      <3> QED BY Zenon, <2>2, <3>1 DEF Inv, TypeOK
    <2> QED BY Zenon, <1>0, <2>1, <2>2 DEF DisconnectReap
  <1> QED BY Zenon, <1>1, <1>2, <1>3, <1>4, IdleMoves, Keeps

\* Delete clears the markers of both users: of its own call, which is gone, or
\* of a call that it robs.
LEMMA DeleteBusy ==
  ASSUME Inv, BusyInv, NEW p \in Handler, Delete(p)
  PROVE  BusyInv'
  <1>0. PICK c \in CallId : job[p].on = c
    BY Zenon DEF Delete, Inv, JobInv
  <1>1. party' = party /\ slip \subseteq slip'
    BY Zenon, <1>0, MarkSlips DEF Delete
  <1>2. job'[p] = Idle /\ \A q \in Handler \ {p} : job'[q] = job[q]
    BY Zenon, FarewellType DEF Delete, Inv
  <1>3. \A d \in CallId : (Live(d)' => Live(d)) /\ (Vouched(d)' => Vouched(d))
    <2>1. \A d \in CallId : Live(d)' => Live(d)
      BY Zenon, <1>0 DEF Delete, Live, Inv, TypeOK
    <2> QED BY Zenon, <1>1, <2>1, AstrayStays DEF Vouched
  <1>4. \A w \in User : \/ busy'[w] = busy[w]
                        \/ busy'[w] = None /\ \A d \in CallId : busy[w] = d => ~Vouched(d)'
    <2>1. CASE busy' = busy
      BY Zenon, <2>1
    <2>2. CASE /\ busy' = [busy EXCEPT ![party[c].caller] = None, ![party[c].callee] = None]
               /\ Mark("unmarked", Robbed(Parties(c), c)) /\ call' = [call EXCEPT ![c] = "none"]
      <3>1. ~Live(c)'
        BY Zenon, <2>2 DEF Live, Inv, TypeOK
      <3>2. ASSUME NEW w \in Parties(c), NEW d \in CallId, busy[w] = d, Vouched(d)' PROVE FALSE
        <4>1. d # c /\ Live(d)
          BY Zenon, <1>3, <3>1, <3>2 DEF Vouched
        <4>2. d \in Robbed(Parties(c), c)
          BY Zenon, <3>2, <4>1 DEF Robbed
        <4>3. Astray(d)'
          BY Zenon, <2>2, <4>2, MarkSlips DEF Astray
        <4> QED BY Zenon, <3>2, <4>3 DEF Vouched
      <3>3. \A w \in User : busy'[w] = busy[w] \/ (busy'[w] = None /\ w \in Parties(c))
        BY Zenon, <2>2 DEF Parties, Inv, TypeOK
      <3> QED BY Zenon, <3>2, <3>3
    <2> QED BY Zenon, <1>0, <2>1, <2>2 DEF Delete
  <1> QED BY Zenon, <1>1, <1>2, <1>3, <1>4, IdleMoves, Keeps

\* Expiry and crashes only take away; a marker outlives its call's key.
LEMMA EnvironmentBusy ==
  ASSUME Inv, BusyInv,
         \/ \E u \in User : Connect(u) \/ ExpireMarker(u) \/ ExpirePresence(u)
         \/ \E c \in CallId : ExpireCall(c)
         \/ \E ps \in SUBSET Working, ts \in SUBSET timer, us \in SUBSET User : Crash(ps, ts, us)
         \/ UNCHANGED vars
  PROVE  BusyInv'
  <1>1. ASSUME NEW u \in User, Connect(u) \/ ExpirePresence(u) PROVE BusyInv'
    <2>1. party' = party /\ call' = call /\ busy' = busy /\ slip \subseteq slip' /\ job' = job
      BY Zenon, <1>1 DEF Connect, ExpirePresence
    <2> QED BY Zenon, <2>1, QuietBusy
  <1>2. ASSUME NEW u \in User, ExpireMarker(u) PROVE BusyInv'
    <2>1. party' = party /\ call' = call /\ slip' = slip /\ slip \subseteq slip' /\ job' = job
      BY Zenon, <1>2 DEF ExpireMarker
    <2>2. \A d \in CallId : Live(d)' = Live(d)
      BY Zenon, <2>1 DEF Live
    <2>3. \A d \in CallId : busy[u] = d => ~Vouched(d)'
      BY Zenon, <1>2, <2>2 DEF ExpireMarker, Vouched
    <2>4. \A w \in User : busy'[w] = busy[w] \/ (busy'[w] = None /\ w = u)
      BY Zenon, <1>2 DEF ExpireMarker, Inv, TypeOK
    <2> QED BY Zenon, <2>1, <2>2, <2>3, <2>4, Keeps
  <1>3. ASSUME NEW c \in CallId, ExpireCall(c) PROVE BusyInv'
    <2>1. party' = party /\ busy' = busy /\ slip \subseteq slip' /\ job' = job
      BY Zenon, <1>3 DEF ExpireCall
    <2>2. \A d \in CallId : Live(d)' => Live(d)
      BY Zenon, <1>3 DEF ExpireCall, Live, Inv, TypeOK
    <2> QED BY Zenon, <2>1, <2>2, Keeps
  <1>4. ASSUME NEW ps \in SUBSET Working, NEW ts \in SUBSET timer, NEW us \in SUBSET User, Crash(ps, ts, us)
        PROVE  BusyInv'
    <2>1. party' = party /\ call' = call /\ busy' = busy /\ slip \subseteq slip'
      BY Zenon, <1>4, MarkSlips DEF Crash
    <2>2. \A q \in Handler : job'[q] = job[q] \/ job'[q] = Idle
      BY Zenon, <1>4 DEF Crash
    <2> QED BY Zenon, <2>1, <2>2, IdleMoves, QuietBusy
  <1>5. CASE UNCHANGED vars
    <2>1. party' = party /\ call' = call /\ busy' = busy /\ slip \subseteq slip' /\ job' = job
      BY Zenon, <1>5 DEF vars
    <2> QED BY Zenon, <2>1, QuietBusy
  <1> QED BY Zenon, <1>1, <1>2, <1>3, <1>4, <1>5

\* At the start there is no call, no marker and no goroutine.
LEMMA InitBusy == Init => BusyInv
  <1> SUFFICES ASSUME Init PROVE BusyInv
    BY Zenon
  <1>1. \A p \in Handler : job[p].op = "idle" /\ job[p].pc = "idle"
    BY DEF Init, Idle
  <1>2. \A p \in Handler : NamesInv(p) /\ ReapInv(p)
    BY Zenon, <1>1 DEF NamesInv, ReapInv
  <1>3. \A p \in Handler : CheckInv(p) /\ FreshInv(p)
    BY Zenon, <1>1 DEF CheckInv, FreshInv, Checking
  <1>4. (\A c \in CallId : ~Live(c)) /\ \A u \in User : busy[u] = None
    BY Zenon DEF Init, Live
  <1> QED BY Zenon, <1>2, <1>3, <1>4 DEF BusyInv, LiveInv, MarkerInv, VouchInv, Vouched

LEMMA NextBusy == Inv /\ BusyInv /\ [Next]_vars => BusyInv'
  <1> SUFFICES ASSUME Inv, BusyInv, [Next]_vars PROVE BusyInv'
    BY Zenon
  <1>1. ASSUME NEW p \in Handler, HandlerStep(p) PROVE BusyInv'
    BY Zenon, <1>1, ReadMarkerBusy, LiveCheckBusy, ReapBusy, ReachBusy, CreateBusy, AnswerBusy,
       MarkSetBusy, EndingBusy, HookBusy, HookReapBusy, DeleteBusy
    DEF HandlerStep
  <1> QED BY Zenon, <1>1, InviteBusy, StartBusy, EnvironmentBusy DEF Next

\* Two vouched calls with a common user would both have that user's marker.
LEMMA BusyOne == Inv /\ BusyInv => OneLiveCall
  <1> SUFFICES ASSUME Inv, BusyInv, NEW c \in CallId, NEW d \in CallId, Vouched(c), Vouched(d),
                      NEW u, u \in Parties(c), u \in Parties(d)
               PROVE  c = d
    BY Zenon DEF OneLiveCall, Vouched
  <1>1. involves(c, u) /\ involves(d, u)
    BY Zenon DEF Parties, involves
  <1> QED BY Zenon, <1>1, VouchedHolds

\* For any number of users, calls and goroutines, and whatever fails: two live
\* calls share a user only if the checks of onInvite were crossed by another
\* invite, could not read Redis, or a marker was lost to a goroutine that meant
\* another call.
THEOREM OneCallEach == Spec => []OneLiveCall
  <1>1. Init => Inv /\ BusyInv
    BY Zenon, InitInv, InitBusy
  <1>2. Inv /\ BusyInv /\ [Next]_vars => (Inv /\ BusyInv)'
    BY Zenon, NextInv, NextBusy
  <1> QED BY <1>1, <1>2, BusyOne, PTL DEF Spec

-----------------------------------------------------------------------------
(* Missed means unanswered *)

Missed == [status |-> "missed", ended |-> TRUE]

\* The goroutine j answers call c, which it read while it was ringing.
Answers(j, c) == j.op = "answer" /\ j.pc \in {"markget", "markset"} /\ j.on = c

\* The goroutine j is a ring timeout that is about to write call c off.
Dooms(j, c) == j.op = "timeout" /\ j.pc = "finalize" /\ j.on = c

Decided(c) == row[c] = Missed \/ \E p \in Handler : Dooms(job[p], c)

Pending(c) == \E p \in Handler : Answers(job[p], c)

\* The invite of call c is being checked.
Checked(c) == \E p \in Handler : Checking(job[p]) /\ job[p].on = c

\* A caller hears "answered" of a call that was placed and rings no more.
ToldInv ==
  \A c \in CallId : told[c].caller = "answered" => Invited(c) /\ call[c] # "ringing" /\ ~Checked(c)

\* Unless the answer was late, a call is written off or answered, not both.
LateInv ==
  \A c \in CallId : Decided(c) /\ ~Slipped("late", c) => ~Pending(c) /\ told[c].caller # "answered"

\* What a goroutine that moved must show for these two.
LateMove(q) ==
  \A c \in CallId :
    /\ Answers(job'[q], c) => Answers(job[q], c) \/ ~Decided(c)' \/ Slipped("late", c)'
    /\ Dooms(job'[q], c) =>
         \/ Dooms(job[q], c) \/ Slipped("late", c)'
         \/ ~Pending(c)' /\ told'[c].caller # "answered"
    /\ Checking(job'[q]) /\ job'[q].on = c => (Checking(job[q]) /\ job[q].on = c) \/ ~Invited(c)

\* Nobody has answered a call whose invite is still being checked.
LEMMA CheckedFresh ==
  ASSUME Inv, BusyInv, ToldInv, NEW c \in CallId, Checked(c)
  PROVE  ~Pending(c) /\ told[c].caller # "answered"
  <1>1. ~Touched(c)
    BY Zenon DEF BusyInv, FreshInv, Checked
  <1>2. ~Pending(c)
    BY Zenon, <1>1 DEF Touched, Refers, Pending, Answers
  <1> QED BY Zenon, <1>2 DEF ToldInv

\* The inductive step, once for all actions.
LEMMA LateKeeps ==
  ASSUME Inv, BusyInv, ToldInv, LateInv, slip \subseteq slip',
         \A c \in CallId : Invited(c) => Invited(c)',
         \A c \in CallId : row'[c] = Missed => row[c] = Missed \/ Decided(c) \/ Checked(c),
         \A c \in CallId : told'[c].caller = "answered" =>
           told[c].caller = "answered" \/ (Pending(c) /\ call'[c] # "ringing"),
         \A c \in CallId : call'[c] = "ringing" => call[c] = "ringing" \/ Checked(c),
         \A q \in Handler : LateMove(q)
  PROVE  ToldInv' /\ LateInv'
  <1>1. \A c \in CallId : Pending(c) => Invited(c)
    BY ZenonT(40) DEF Pending, Answers, Inv, JobInv, Frame
  <1>2. ToldInv'
    <2> SUFFICES ASSUME NEW c \in CallId, told'[c].caller = "answered"
                 PROVE  Invited(c)' /\ call'[c] # "ringing" /\ ~Checked(c)'
      BY Zenon DEF ToldInv
    <2>1. Invited(c)
      BY Zenon, <1>1 DEF ToldInv
    <2>2. ~Checked(c)
      BY Zenon, CheckedFresh
    <2>3. call'[c] # "ringing"
      BY Zenon, <2>2 DEF ToldInv
    <2>4. ~Checked(c)'
      BY Zenon, <2>1, <2>2 DEF Checked, LateMove, Checking
    <2> QED BY Zenon, <2>1, <2>3, <2>4
  <1>3. LateInv'
    <2> SUFFICES ASSUME NEW c \in CallId, Decided(c)', ~Slipped("late", c)'
                 PROVE  ~Pending(c)' /\ told'[c].caller # "answered"
      BY Zenon DEF LateInv
    <2>1. ~Slipped("late", c)
      BY Zenon DEF Slipped
    <2>2. Pending(c)' => Pending(c)
      BY Zenon DEF Pending, LateMove, Answers
    <2>3. CASE Decided(c)
      BY Zenon, <2>1, <2>2, <2>3 DEF LateInv
    <2>4. CASE Checked(c)
      BY Zenon, <2>2, <2>4, CheckedFresh
    <2>5. CASE row'[c] # Missed /\ ~Decided(c)
      <3>1. PICK q \in Handler : Dooms(job'[q], c)
        BY Zenon, <2>5 DEF Decided, Dooms
      <3>2. ~Dooms(job[q], c)
        BY Zenon, <2>5 DEF Decided
      <3> QED BY Zenon, <3>1, <3>2 DEF LateMove
    <2> QED BY Zenon, <2>3, <2>4, <2>5 DEF Decided
  <1> QED BY Zenon, <1>2, <1>3

\* A goroutine that is done, or stays, or is none of the three kinds.
LEMMA PlainLate ==
  ASSUME NEW q \in Handler,
         \/ job'[q] = job[q]
         \/ job'[q] = Idle
         \/ /\ job'[q].pc \notin {"markget", "markset"}
            /\ ~(job'[q].op = "timeout" /\ job'[q].pc = "finalize")
            /\ Checking(job'[q]) => Checking(job[q]) /\ job'[q].on = job[q].on
  PROVE  LateMove(q)
  <1>1. CASE job'[q] = job[q]
    BY Zenon, <1>1 DEF LateMove
  <1>2. CASE job'[q] = Idle
    <2>1. job'[q].op = "idle"
      BY <1>2 DEF Idle
    <2> QED BY Zenon, <2>1 DEF LateMove, Answers, Dooms, Checking
  <1>3. CASE /\ job'[q].pc \notin {"markget", "markset"}
             /\ ~(job'[q].op = "timeout" /\ job'[q].pc = "finalize")
             /\ Checking(job'[q]) => Checking(job[q]) /\ job'[q].on = job[q].on
    BY Zenon, <1>3 DEF LateMove, Answers, Dooms
  <1> QED BY Zenon, <1>1, <1>2, <1>3

\* An event other than Answered tells no caller "answered".
LEMMA TellOther ==
  ASSUME Inv, NEW c, NEW s, NEW n, n # "answered", Tell(c, s, n)
  PROVE  \A d \in CallId : told'[d].caller = "answered" => told[d].caller = "answered"
  <1> DEFINE r == Hear(told[c], s, n)
  <1>1. c \in CallId => (r.caller = "answered" => told[c].caller = "answered")
    <2>1. c \in CallId => told[c] \in [caller : News, callee : News]
      BY Zenon DEF Inv, TypeOK
    <2> QED BY <2>1 DEF Hear
  <1>2. told' = [told EXCEPT ![c] = r]
    BY Zenon DEF Tell
  <1> HIDE DEF r
  <1> QED BY Zenon, <1>1, <1>2 DEF Inv, TypeOK

\* Nor does the end of a call.
LEMMA FarewellOther ==
  ASSUME Inv, NEW p \in Handler, Farewell(p)
  PROVE  \A d \in CallId : told'[d].caller = "answered" => told[d].caller = "answered"
  <1> DEFINE c == job[p].on
  <1>1. \/ told' = [told EXCEPT ![c] = [caller |-> "over", callee |-> "over"]]
        \/ Tell(c, other(c, job[p].who), "over")
        \/ told' = [told EXCEPT ![c] = @]
    BY Zenon DEF Farewell, Tell
  <1> HIDE DEF c
  <1>2. CASE told' = [told EXCEPT ![c] = [caller |-> "over", callee |-> "over"]]
    BY <1>2 DEF Inv, TypeOK
  <1>3. CASE Tell(c, other(c, job[p].who), "over")
    BY Zenon, <1>3, TellOther
  <1>4. CASE told' = [told EXCEPT ![c] = @]
    BY Zenon, <1>4 DEF Inv, TypeOK
  <1> QED BY Zenon, <1>1, <1>2, <1>3, <1>4

\* A step that writes no row and tells no caller "answered".
LEMMA CalmLate ==
  ASSUME Inv, BusyInv, ToldInv, LateInv, party' = party, row' = row, slip \subseteq slip',
         \A c \in CallId : told'[c].caller = "answered" => told[c].caller = "answered",
         \A c \in CallId : call'[c] = "ringing" => call[c] = "ringing",
         \A q \in Handler : LateMove(q)
  PROVE  ToldInv' /\ LateInv'
  <1>1. \A c \in CallId : Invited(c) => Invited(c)'
    BY Zenon DEF Invited
  <1> QED BY Zenon, <1>1, LateKeeps

\* onInvite: the call was not placed before.
LEMMA InviteLate ==
  ASSUME Inv, BusyInv, ToldInv, LateInv, NEW p \in Handler, NEW u \in User, NEW v \in User, NEW c \in CallId,
         onInvite(p, u, v, c)
  PROVE  ToldInv' /\ LateInv'
  <1>1. row' = row /\ told' = told /\ call' = call /\ slip \subseteq slip' /\ ~Invited(c)
    BY Zenon DEF onInvite
  <1>2. /\ job'[p].op = "invite" /\ job'[p].pc = "marker" /\ job'[p].on = c
        /\ \A q \in Handler \ {p} : job'[q] = job[q]
    <2>1. /\ Start(p, "invite", "marker", u, c) /\ job \in [Handler -> Job]
          /\ u \in User \cup {None} /\ c \in CallId \cup {None}
      BY Zenon DEF onInvite, Inv, TypeOK
    <2>2. "invite" \in Op /\ "marker" \in Pc
      BY Zenon, OpIn, PcIn
    <2>3. \A q \in Handler \ {p} : job'[q] = job[q]
      BY Zenon, <2>1, <2>2, StartJob
    <2> QED BY <2>1, <2>3, StartOwn
  <1>3. \A d \in CallId : Invited(d) => Invited(d)'
    BY Zenon, <1>1 DEF onInvite, Invited, Inv, TypeOK
  <1>4. LateMove(p)
    BY Zenon, <1>1, <1>2 DEF LateMove, Answers, Dooms
  <1>5. \A q \in Handler : LateMove(q)
    BY Zenon, <1>2, <1>4, PlainLate
  <1> QED BY Zenon, <1>1, <1>3, <1>5, LateKeeps

\* A row that is closed at once is the one of a call nobody has answered.
LEMMA CheckLate ==
  ASSUME Inv, BusyInv, ToldInv, LateInv, NEW p \in Handler,
         ReadMarker(p) \/ LiveCheck(p) \/ Reap(p) \/ Reach(p)
  PROVE  ToldInv' /\ LateInv'
  <1>1. PICK c \in CallId : job[p].on = c
    BY Zenon, InviteParties DEF ReadMarker, LiveCheck, Reap, Reach, At
  <1>2. Checking(job[p]) /\ Checked(c) /\ job[p].op = "invite" /\ job[p].side \in Side
    BY Zenon, <1>1, InviteParties DEF ReadMarker, LiveCheck, Reap, Reach, At, Checking, Checked
  <1>3. party' = party /\ call' = call /\ slip \subseteq slip'
    BY Zenon, <1>1, MarkSlips DEF ReadMarker, LiveCheck, Reap, Reach
  <1>4. \A d \in CallId : row'[d] = Missed => row[d] = Missed \/ Checked(d)
    <2>1. row' = row \/ WriteRow(c, "missed", TRUE) \/ WriteRow(c, "missed", FALSE)
      BY Zenon, <1>1 DEF ReadMarker, LiveCheck, Reap, Reach, logInstant
    <2>2. \A d \in CallId \ {c} : row'[d] = row[d]
      BY Zenon, <2>1 DEF WriteRow, Inv, TypeOK
    <2> QED BY Zenon, <1>2, <2>2
  <1>5. \A d \in CallId : told'[d].caller = "answered" => told[d].caller = "answered"
    <2>1. told' = told \/ Tell(c, "caller", "over")
      BY Zenon, <1>1 DEF ReadMarker, LiveCheck, Reap, Reach
    <2> QED BY Zenon, <2>1, TellOther
  <1>6. \A d \in CallId : Invited(d) => Invited(d)'
    BY Zenon, <1>3 DEF Invited
  <1>7. LateMove(p) /\ \A q \in Handler \ {p} : job'[q] = job[q]
    <2>1. CASE Finish(p)
      BY Zenon, <2>1, FinishJob, PlainLate DEF Inv, TypeOK
    <2>2. ASSUME NEW x \in {"reap", "create"}, Goto(p, x)
          PROVE  LateMove(p) /\ \A q \in Handler \ {p} : job'[q] = job[q]
      <3>1. x \in Pc /\ x \notin {"markget", "markset", "finalize"}
        BY Zenon, PcIn
      <3> QED BY Zenon, <1>2, <2>2, <3>1, GotoJob, PlainLate DEF Inv, TypeOK
    <2>3. CASE NotBusy(p)
      <3>1. job'[p].on = job[p].on /\ job'[p].pc \in {"marker", "reach"}
        BY Zenon, <2>3, NotBusyOwn DEF Inv, TypeOK
      <3> QED BY Zenon, <1>2, <2>3, <3>1, NotBusyJob, PlainLate DEF Inv, TypeOK
    <2>4. ASSUME NEW m \in CallId, TakeMarker(p, m)
          PROVE  LateMove(p) /\ \A q \in Handler \ {p} : job'[q] = job[q]
      <3>1. job'[p].on = job[p].on /\ job'[p].pc = "livecheck"
        BY Zenon, <2>4, TakeMarkerOwn DEF Inv, TypeOK
      <3> QED BY Zenon, <1>2, <2>4, <3>1, TakeMarkerJob, PlainLate DEF Inv, TypeOK
    <2>5. \A w \in User : busy[w] # None => busy[w] \in CallId
      BY Zenon DEF Inv, TypeOK
    <2>6. PartyOf(c, job[p].side) \in User
      BY Zenon, <1>1, <1>2, InviteParties
    <2> QED BY Zenon, <1>1, <2>1, <2>2, <2>3, <2>4, <2>5, <2>6 DEF ReadMarker, LiveCheck, Reap, Reach
  <1>8. \A q \in Handler : LateMove(q)
    BY Zenon, <1>7, PlainLate
  <1> QED BY Zenon, <1>3, <1>4, <1>5, <1>6, <1>8, LateKeeps

\* The call rings from here on; its row is open, and its ring is no answer.
LEMMA PlaceLate ==
  ASSUME Inv, BusyInv, ToldInv, LateInv, NEW p \in Handler, Create(p) \/ Journal(p) \/ Announce(p)
  PROVE  ToldInv' /\ LateInv'
  <1>1. PICK c \in CallId : job[p].on = c
    BY Zenon, InviteParties DEF Create, Journal, Announce, At
  <1>2. party' = party /\ job[p].op = "invite" /\ slip \subseteq slip'
    BY Zenon, <1>1 DEF Create, Journal, Announce, At
  <1>3. \A d \in CallId : row'[d] = Missed => row[d] = Missed
    <2>1. row' = row \/ WriteRow(c, "missed", FALSE)
      BY Zenon, <1>1 DEF Create, Journal, Announce
    <2>2. [status |-> "missed", ended |-> FALSE] # Missed
      BY DEF Missed
    <2> QED BY Zenon, <2>1, <2>2 DEF WriteRow, Inv, TypeOK
  <1>4. \A d \in CallId : told'[d].caller = "answered" => told[d].caller = "answered"
    <2>1. told' = told \/ Tell(c, "callee", "incoming")
      BY Zenon, <1>1 DEF Create, Journal, Announce
    <2> QED BY Zenon, <2>1, TellOther
  <1>5. \A d \in CallId : call'[d] = "ringing" => call[d] = "ringing" \/ Checked(d)
    <2>1. call' = call \/ (Checked(c) /\ call' = [call EXCEPT ![c] = "ringing"])
      BY Zenon, <1>1 DEF Create, Journal, Announce, At, Checked, Checking
    <2> QED BY Zenon, <2>1 DEF Inv, TypeOK
  <1>6. \A d \in CallId : Invited(d) => Invited(d)'
    BY Zenon, <1>2 DEF Invited
  <1>7. LateMove(p) /\ \A q \in Handler \ {p} : job'[q] = job[q]
    <2>1. CASE Finish(p)
      BY Zenon, <2>1, FinishJob, PlainLate DEF Inv, TypeOK
    <2>2. ASSUME NEW x \in {"journal", "announce"}, Goto(p, x)
          PROVE  LateMove(p) /\ \A q \in Handler \ {p} : job'[q] = job[q]
      <3>1. x \in Pc /\ x \notin {"markget", "markset", "finalize", "marker", "livecheck", "reap", "reach", "create"}
        BY Zenon, PcIn
      <3>2. job'[p].pc = x /\ \A q \in Handler \ {p} : job'[q] = job[q]
        BY Zenon, <2>2, <3>1, GotoJob DEF Inv, TypeOK
      <3> QED BY Zenon, <3>1, <3>2, PlainLate DEF Checking
    <2> QED BY Zenon, <2>1, <2>2 DEF Create, Journal, Announce
  <1>8. \A q \in Handler : LateMove(q)
    BY Zenon, <1>7, PlainLate
  <1> QED BY Zenon, <1>2, <1>3, <1>4, <1>5, <1>6, <1>8, LateKeeps

\* Starting a goroutine for a frame, a ring timer or a lost connection.
LEMMA StartLate ==
  ASSUME Inv, BusyInv, ToldInv, LateInv, NEW p \in Handler,
         \/ \E u \in User, f \in Frame, c \in CallId : HandleSignal(p, u, f, c)
         \/ \E c \in CallId : RingTimer(p, c)
         \/ \E u \in User : Disconnect(p, u)
  PROVE  ToldInv' /\ LateInv'
  <1>1. PICK o \in Op, x \in Pc, u \in User \cup {None}, c \in CallId \cup {None} :
          Start(p, o, x, u, c) /\ o # "invite" /\ x \in {"get", "marker"}
    BY Zenon, OpIn, PcIn DEF HandleSignal, RingTimer, Disconnect, Frame
  <1>2. party' = party /\ call' = call /\ row' = row /\ told' = told /\ slip \subseteq slip'
    BY Zenon DEF HandleSignal, RingTimer, Disconnect
  <1>3. job'[p].op = o /\ job'[p].pc = x /\ \A q \in Handler \ {p} : job'[q] = job[q]
    BY ZenonT(40), <1>1, StartJob DEF Inv, TypeOK
  <1>4. ~Checking(job'[p]) /\ job'[p].pc \notin {"markget", "markset", "finalize"}
    BY Zenon, <1>1, <1>3 DEF Checking
  <1>5. \A q \in Handler : LateMove(q)
    BY Zenon, <1>3, <1>4, PlainLate
  <1> QED BY Zenon, <1>2, <1>5, CalmLate

\* An answer that starts after the call was written off is late.
LEMMA AnswerLate ==
  ASSUME Inv, BusyInv, ToldInv, LateInv, NEW p \in Handler, AnswerGet(p)
  PROVE  ToldInv' /\ LateInv'
  <1>1. PICK c \in CallId : job[p].on = c
    BY Zenon DEF AnswerGet, At, Inv, JobInv, Frame
  <1>2. party' = party /\ call' = call /\ row' = row /\ told' = told /\ slip \subseteq slip'
    BY Zenon, <1>1, MarkSlips DEF AnswerGet
  <1>3. \A q \in Handler \ {p} : job'[q] = job[q]
    BY Zenon, GotoJob, FinishJob, PcIn DEF AnswerGet, Inv, TypeOK
  <1>4. LateMove(p)
    <2>1. CASE Finish(p)
      BY Zenon, <2>1, FinishJob, PlainLate DEF Inv, TypeOK
    <2>2. CASE Goto(p, "markget") /\ IF WrittenOff(c) THEN Mark("late", {c}) ELSE slip' = slip
      <3>1. job'[p].pc = "markget" /\ job'[p].on = c /\ job'[p].op = "answer"
        BY Zenon, <1>1, <2>2, GotoJob, PcIn DEF AnswerGet, At, Inv, TypeOK
      <3>2. Decided(c)' => WrittenOff(c)
        <4>1. row[c] = Missed => row[c].ended
          BY DEF Missed
        <4>2. \A q \in Handler : Dooms(job'[q], c) => Running(c, "timeout", {"finalize", "delget", "del"})
          BY Zenon, <1>3, <3>1 DEF Dooms, Running
        <4> QED BY Zenon, <1>2, <4>1, <4>2 DEF Decided, WrittenOff, Dooms, Missed
      <3>3. Decided(c)' => Slipped("late", c)'
        BY Zenon, <2>2, <3>2, MarkSlips
      <3> QED BY Zenon, <3>1, <3>3 DEF LateMove, Answers, Dooms, Checking
    <2> QED BY Zenon, <1>1, <2>1, <2>2 DEF AnswerGet
  <1>5. \A q \in Handler : LateMove(q)
    BY Zenon, <1>3, <1>4, PlainLate
  <1> QED BY Zenon, <1>2, <1>5, CalmLate

\* The caller is told "answered" by an answer under way, of a call that no
\* longer rings.
LEMMA MarkLate ==
  ASSUME Inv, BusyInv, ToldInv, LateInv, NEW p \in Handler, MarkGet(p) \/ MarkSet(p)
  PROVE  ToldInv' /\ LateInv'
  <1>1. PICK c \in CallId : job[p].on = c
    BY Zenon DEF MarkGet, MarkSet, At, Inv, JobInv, Frame
  <1>2. party' = party /\ row' = row /\ slip \subseteq slip' /\ Answers(job[p], c) /\ Pending(c)
    BY Zenon, <1>1, MarkSlips DEF MarkGet, MarkSet, At, Answers, Pending
  <1>3. \A d \in CallId : call'[d] = "ringing" => call[d] = "ringing"
    BY Zenon, <1>1 DEF MarkGet, MarkSet, Inv, TypeOK
  <1>4. \A d \in CallId : told'[d].caller = "answered" =>
          told[d].caller = "answered" \/ (Pending(d) /\ call'[d] # "ringing")
    <2>1. \/ told' = told
          \/ Tell(c, "caller", "answered") /\ (call' = [call EXCEPT ![c] = "connected"] \/ (call' = call /\ ~Live(c)))
      BY Zenon, <1>1 DEF MarkGet, MarkSet
    <2>2. Tell(c, "caller", "answered") => \A d \in CallId \ {c} : told'[d] = told[d]
      BY Zenon DEF Tell, Inv, TypeOK
    <2>3. call' = [call EXCEPT ![c] = "connected"] \/ (call' = call /\ ~Live(c)) => call'[c] # "ringing"
      BY Zenon DEF Live, Inv, TypeOK
    <2> QED BY Zenon, <1>2, <2>1, <2>2, <2>3
  <1>5. LateMove(p) /\ \A q \in Handler \ {p} : job'[q] = job[q]
    <2>1. CASE Finish(p)
      BY Zenon, <2>1, FinishJob, PlainLate DEF Inv, TypeOK
    <2>2. CASE Goto(p, "markset")
      <3>1. /\ job'[p].pc = "markset" /\ job'[p].on = job[p].on /\ job'[p].op = job[p].op
            /\ \A q \in Handler \ {p} : job'[q] = job[q]
        BY Zenon, <2>2, GotoJob, PcIn DEF Inv, TypeOK
      <3> QED BY Zenon, <1>2, <3>1 DEF LateMove, Answers, Dooms, Checking
    <2> QED BY Zenon, <2>1, <2>2 DEF MarkGet, MarkSet
  <1>6. \A d \in CallId : Invited(d) => Invited(d)'
    BY Zenon, <1>2 DEF Invited
  <1>7. \A q \in Handler : LateMove(q)
    BY Zenon, <1>5, PlainLate
  <1> QED BY Zenon, <1>2, <1>3, <1>4, <1>6, <1>7, LateKeeps

\* A ring timeout writes off a ringing call: nobody was told "answered", and
\* an answer under way is late.
LEMMA TimeoutLate ==
  ASSUME Inv, BusyInv, ToldInv, LateInv, NEW p \in Handler, onRingTimeout(p)
  PROVE  ToldInv' /\ LateInv'
  <1>1. PICK c \in CallId : job[p].on = c
    BY Zenon DEF onRingTimeout, At, Inv, JobInv
  <1>2. party' = party /\ call' = call /\ row' = row /\ told' = told /\ slip \subseteq slip'
    BY Zenon, <1>1, MarkSlips DEF onRingTimeout
  <1>3. call[c] \in Phase /\ job \in [Handler -> Job]
    BY Zenon DEF Inv, TypeOK
  <1>4. LateMove(p) /\ \A q \in Handler \ {p} : job'[q] = job[q]
    <2>1. CASE Finish(p)
      BY Zenon, <1>3, <2>1, FinishJob, PlainLate
    <2>2. CASE /\ call[c] = "ringing" /\ GotoWith(p, "finalize", call[c])
               /\ IF Running(c, "answer", {"markget", "markset"}) THEN Mark("late", {c}) ELSE slip' = slip
      <3>1. /\ job'[p].pc = "finalize" /\ job'[p].on = c /\ job'[p].op = "timeout"
            /\ \A q \in Handler \ {p} : job'[q] = job[q]
        BY Zenon, <1>1, <1>3, <2>2, SeenJob, PcIn DEF onRingTimeout, At
      <3>2. Pending(c)' => Running(c, "answer", {"markget", "markset"})
        BY Zenon, <3>1 DEF Pending, Answers, Running
      <3>3. Slipped("late", c)' \/ ~Pending(c)'
        BY Zenon, <2>2, <3>2, MarkSlips
      <3>4. told'[c].caller # "answered"
        BY Zenon, <1>2, <2>2 DEF ToldInv
      <3> QED BY Zenon, <3>1, <3>3, <3>4 DEF LateMove, Answers, Dooms, Checking
    <2> QED BY Zenon, <1>1, <2>1, <2>2 DEF onRingTimeout
  <1>5. \A q \in Handler : LateMove(q)
    BY Zenon, <1>4, PlainLate
  <1> QED BY Zenon, <1>2, <1>5, CalmLate

\* Only a ring timeout closes a row as missed.
LEMMA FinalizeLate ==
  ASSUME Inv, BusyInv, ToldInv, LateInv, NEW p \in Handler, finalize(p)
  PROVE  ToldInv' /\ LateInv'
  <1>1. PICK c \in CallId : job[p].on = c
    BY Zenon DEF finalize, Inv, JobInv
  <1>2. party' = party /\ call' = call /\ told' = told /\ slip \subseteq slip'
    BY Zenon DEF finalize
  <1>3. job'[p].pc = "delget" /\ \A q \in Handler \ {p} : job'[q] = job[q]
    BY Zenon, GotoJob, PcIn DEF finalize, Inv, TypeOK
  <1>4. \A d \in CallId : row'[d] = Missed => row[d] = Missed \/ Decided(d)
    <2>1. CASE row' = row
      BY Zenon, <2>1
    <2>2. CASE WriteRow(c, FinalStatus(job[p]), TRUE)
      <3>1. \A d \in CallId \ {c} : row'[d] = row[d]
        BY Zenon, <2>2 DEF WriteRow, Inv, TypeOK
      <3>2. row'[c] = Missed => FinalStatus(job[p]) = "missed"
        <4>1. row'[c] = [status |-> FinalStatus(job[p]), ended |-> TRUE]
          BY Zenon, <2>2 DEF WriteRow, Inv, TypeOK
        <4>2. row'[c].status = FinalStatus(job[p]) /\ Missed.status = "missed"
          BY <4>1 DEF Missed
        <4> QED BY Zenon, <4>2
      <3>3. FinalStatus(job[p]) = "missed" => job[p].op = "timeout"
        BY DEF FinalStatus
      <3>4. job[p].op = "timeout" => Decided(c)
        BY Zenon, <1>1 DEF finalize, Decided, Dooms
      <3> QED BY Zenon, <3>1, <3>2, <3>3, <3>4
    <2> QED BY Zenon, <1>1, <2>1, <2>2 DEF finalize
  <1>5. ~Checking(job'[p]) /\ job'[p].pc \notin {"markget", "markset", "finalize"}
    BY Zenon, <1>3 DEF Checking
  <1>6. \A q \in Handler : LateMove(q)
    BY Zenon, <1>3, <1>5, PlainLate
  <1>7. \A d \in CallId : Invited(d) => Invited(d)'
    BY Zenon, <1>2 DEF Invited
  <1> QED BY Zenon, <1>2, <1>4, <1>6, <1>7, LateKeeps

\* The other ways a call ends publish no answer.
LEMMA EndLate ==
  ASSUME Inv, BusyInv, ToldInv, LateInv, NEW p \in Handler, TerminateGet(p) \/ DeleteGet(p) \/ Delete(p)
  PROVE  ToldInv' /\ LateInv'
  <1>1. PICK c \in CallId : job[p].on = c
    BY Zenon DEF TerminateGet, DeleteGet, Delete, Inv, JobInv, Frame
  <1>2. party' = party /\ row' = row /\ slip \subseteq slip'
    BY Zenon, <1>1, MarkSlips DEF TerminateGet, DeleteGet, Delete, EndedEarly
  <1>3. \A d \in CallId : call'[d] = "ringing" => call[d] = "ringing"
    BY Zenon, <1>1 DEF TerminateGet, DeleteGet, Delete, Inv, TypeOK
  <1>4. \A d \in CallId : told'[d].caller = "answered" => told[d].caller = "answered"
    <2>1. told' = told \/ Farewell(p) \/ Tell(c, other(c, job[p].who), "over")
      BY Zenon, <1>1 DEF TerminateGet, DeleteGet, Delete
    <2> QED BY Zenon, <2>1, TellOther, FarewellOther
  <1>5. job[p].op # "timeout" \/ DeleteGet(p) \/ Delete(p)
    BY Zenon DEF TerminateGet
  <1>6. call[c] \in Phase /\ job \in [Handler -> Job]
    BY Zenon DEF Inv, TypeOK
  <1>7. LateMove(p) /\ \A q \in Handler \ {p} : job'[q] = job[q]
    <2>1. CASE Finish(p)
      BY Zenon, <1>6, <2>1, FinishJob, PlainLate
    <2>2. CASE TerminateGet(p) /\ GotoWith(p, "finalize", call[c])
      <3>1. job'[p].pc = "finalize" /\ job'[p].op = job[p].op /\ \A q \in Handler \ {p} : job'[q] = job[q]
        BY Zenon, <1>6, <2>2, SeenJob, PcIn
      <3>2. job'[p].op # "timeout" /\ ~Checking(job'[p])
        BY Zenon, <2>2, <3>1 DEF TerminateGet, Checking
      <3> QED BY Zenon, <3>1, <3>2, PlainLate
    <2>3. CASE GotoWith(p, "del", call[c])
      <3>1. job'[p].pc = "del" /\ \A q \in Handler \ {p} : job'[q] = job[q]
        BY Zenon, <1>6, <2>3, SeenJob, PcIn
      <3>2. ~Checking(job'[p])
        BY Zenon, <3>1 DEF Checking
      <3> QED BY Zenon, <3>1, <3>2, PlainLate
    <2> QED BY Zenon, <1>1, <2>1, <2>2, <2>3 DEF TerminateGet, DeleteGet, Delete, Farewell
  <1>8. \A q \in Handler : LateMove(q)
    BY Zenon, <1>7, PlainLate
  <1> QED BY Zenon, <1>2, <1>3, <1>4, <1>8, CalmLate

\* The disconnect hook reads, and may go on to end a call.
LEMMA HookLate ==
  ASSUME Inv, BusyInv, ToldInv, LateInv, NEW p \in Handler,
         DisconnectMarker(p) \/ DisconnectGet(p) \/ DisconnectReap(p)
  PROVE  ToldInv' /\ LateInv'
  <1>1. party' = party /\ call' = call /\ row' = row /\ told' = told /\ slip \subseteq slip'
    BY Zenon, MarkSlips DEF DisconnectMarker, DisconnectGet, DisconnectReap, EndedEarly
  <1>2. job[p].op = "disconnect" /\ job[p].who \in User /\ job \in [Handler -> Job]
    BY Zenon DEF DisconnectMarker, DisconnectGet, DisconnectReap, At, Inv, JobInv, TypeOK
  <1>3. \/ Finish(p)
        \/ \E m \in CallId : TakeCall(p, m)
        \/ Goto(p, "reap")
        \/ \E ph \in Phase : GotoWith(p, "finalize", ph)
    <2>1. busy[job[p].who] # None => busy[job[p].who] \in CallId
      BY Zenon, <1>2 DEF Inv, TypeOK
    <2>2. DisconnectGet(p) => call[job[p].on] \in Phase
      BY Zenon DEF DisconnectGet, At, Inv, JobInv, TypeOK
    <2> QED BY Zenon, <2>1, <2>2 DEF DisconnectMarker, DisconnectGet, DisconnectReap
  <1>4. /\ job'[p] = Idle \/ (job'[p].op = "disconnect" /\ job'[p].pc \in {"get", "reap", "finalize"})
        /\ \A q \in Handler \ {p} : job'[q] = job[q]
    BY ZenonT(40), <1>2, <1>3, FinishJob, TakeCallJob, GotoJob, SeenJob, PcIn
  <1>5. \A q \in Handler : LateMove(q)
    BY Zenon, <1>4, PlainLate DEF Checking
  <1> QED BY Zenon, <1>1, <1>5, CalmLate

\* Expiry and crashes write no row and publish nothing.
LEMMA EnvironmentLate ==
  ASSUME Inv, BusyInv, ToldInv, LateInv,
         \/ \E u \in User : Connect(u) \/ ExpireMarker(u) \/ ExpirePresence(u)
         \/ \E c \in CallId : ExpireCall(c)
         \/ \E ps \in SUBSET Working, ts \in SUBSET timer, us \in SUBSET User : Crash(ps, ts, us)
         \/ UNCHANGED vars
  PROVE  ToldInv' /\ LateInv'
  <1>1. party' = party /\ row' = row /\ told' = told /\ slip \subseteq slip'
    BY Zenon, MarkSlips DEF Connect, ExpireMarker, ExpirePresence, ExpireCall, Crash, vars
  <1>2. \A d \in CallId : call'[d] = "ringing" => call[d] = "ringing"
    BY Zenon DEF Connect, ExpireMarker, ExpirePresence, ExpireCall, Crash, vars, Inv, TypeOK
  <1>3. \A q \in Handler : job'[q] = job[q] \/ job'[q] = Idle
    BY Zenon DEF Connect, ExpireMarker, ExpirePresence, ExpireCall, Crash, vars
  <1>4. \A q \in Handler : LateMove(q)
    BY Zenon, <1>3, PlainLate
  <1> QED BY Zenon, <1>1, <1>2, <1>4, CalmLate

\* At the start nobody has been told anything.
LEMMA InitLate == Init => ToldInv /\ LateInv
  <1> SUFFICES ASSUME Init PROVE ToldInv /\ LateInv
    BY Zenon
  <1>1. \A c \in CallId : told[c].caller = "none"
    BY DEF Init, Silent
  <1>2. \A p \in Handler : job[p].op = "idle"
    BY DEF Init, Idle
  <1>3. ToldInv /\ \A c \in CallId : told[c].caller # "answered"
    BY Zenon, <1>1 DEF ToldInv
  <1> QED BY Zenon, <1>2, <1>3 DEF LateInv, Pending, Answers

LEMMA NextLate == Inv /\ BusyInv /\ ToldInv /\ LateInv /\ [Next]_vars => ToldInv' /\ LateInv'
  <1> SUFFICES ASSUME Inv, BusyInv, ToldInv, LateInv, [Next]_vars PROVE ToldInv' /\ LateInv'
    BY Zenon
  <1>1. ASSUME NEW p \in Handler, HandlerStep(p) PROVE ToldInv' /\ LateInv'
    BY Zenon, <1>1, CheckLate, PlaceLate, AnswerLate, MarkLate, TimeoutLate, FinalizeLate, EndLate, HookLate
    DEF HandlerStep
  <1> QED BY Zenon, <1>1, InviteLate, StartLate, EnvironmentLate DEF Next

\* A call closed as missed is one whose caller was never left with "answered",
\* for any number of goroutines and whatever crashes or fails, unless the answer
\* read the call while the ring timeout was writing it off.
THEOREM MissedMeansUnanswered == Spec => []MissedWasNotAnswered
  <1>1. Init => Inv /\ BusyInv /\ ToldInv /\ LateInv
    BY Zenon, InitInv, InitBusy, InitLate
  <1>2. Inv /\ BusyInv /\ ToldInv /\ LateInv /\ [Next]_vars => (Inv /\ BusyInv /\ ToldInv /\ LateInv)'
    BY Zenon, NextInv, NextBusy, NextLate
  <1>3. LateInv => MissedWasNotAnswered
    BY Zenon DEF LateInv, MissedWasNotAnswered, Decided, Missed
  <1> QED BY <1>1, <1>2, <1>3, PTL DEF Spec
=============================================================================
