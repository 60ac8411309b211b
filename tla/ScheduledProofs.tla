-------------------------- MODULE ScheduledProofs ---------------------------
(***************************************************************************)
(* Scheduled, for any number of rows, replicas and concurrent requests: a  *)
(* row gives rise to one message at most, which is delivered once at most  *)
(* and after its commit; an upload ends up in one message; the service     *)
(* implements Outbox; and the cap on pending rows is passed by less than   *)
(* the number of concurrent requests.  The argument for all but the last   *)
(* is the claim: a claimed row stays pending, with the content the worker  *)
(* read, until the transaction that claimed it ends, and nobody else links *)
(* an upload that it has linked until then.                                *)
(***************************************************************************)
EXTENDS Scheduled, TLAPS

\* The rows w's open transaction has in hand.
InTx(w, r) ==
  r \in work[w].todo \/ r = work[w].cur \/ r \in work[w].canceled \/ work[w].sent[r] # None

\* A claimed row is pending and as the worker read it.
Claimed(w, r) ==
  lockedBy[r] = w => /\ rows[r].status = "pending"
                     /\ work[w].due[r] = rows[r]
                     /\ work[w].pc \in {"check", "send"}

\* A transaction works on rows it claimed.
Owned(w, r) == InTx(w, r) => lockedBy[r] = w

\* Each row is handled once, and sent with the content that was read.
Once(w, r) ==
  /\ work[w].sent[r] # None => /\ work[w].sent[r].body = work[w].due[r].body
                               /\ r \notin work[w].canceled
                               /\ r \notin work[w].todo
                               /\ r # work[w].cur
  /\ r \in work[w].canceled => r \notin work[w].todo /\ r # work[w].cur
  /\ r = work[w].cur => r \notin work[w].todo

TxInv(w) == /\ IF work[w].pc = "send" THEN work[w].cur \in Row ELSE work[w].cur = None
            /\ \A r \in Row : Claimed(w, r) /\ Owned(w, r) /\ Once(w, r)

Inv == TypeOK /\ SentOnce /\ \A w \in Worker : TxInv(w)

\* Requests past Schedule's count.
Creating == {q \in Request : req[q].pc = "create"}

\* The count and the inserts that will follow it stay under the bound.
CapInv == Cardinality(Pending) + Cardinality(Creating) < MaxPending + Cardinality(Request)
-----------------------------------------------------------------------------
(* Frames *)

\* A transaction is as it was when its own state and the rows it claimed are.
LEMMA TxFrame ==
  ASSUME NEW w \in Worker, TxInv(w), work'[w] = work[w],
         \A r \in Row : (lockedBy'[r] = w) <=> (lockedBy[r] = w),
         \A r \in Row : lockedBy[r] = w => rows'[r] = rows[r]
  PROVE  TxInv(w)'
  BY DEF TxInv, Claimed, Owned, Once, InTx

\* A step of the sender writes no claimed row and sends nothing.
LEMMA UserFrame ==
  ASSUME Inv, TypeOK', work' = work, lockedBy' = lockedBy, posted' = posted,
         \A r \in Row : lockedBy[r] # None => rows'[r] = rows[r],
         \A r \in Row : rows'[r].status = "sent" <=> rows[r].status = "sent"
  PROVE  Inv'
  <1>1. SentOnce'
    BY Zenon DEF Inv, SentOnce
  <1>2. \A w \in Worker : TxInv(w)'
    BY Zenon, TxFrame, ScheduledAssumption DEF Inv
  <1> QED BY Zenon, <1>1, <1>2 DEF Inv

\* A step of a worker before its commit writes its own state and its claims.
LEMMA WorkerFrame ==
  ASSUME Inv, TypeOK', NEW w \in Worker, TxInv(w)', rows' = rows, posted' = posted,
         \A v \in Worker \ {w} : work'[v] = work[v],
         \A r \in Row : lockedBy'[r] = lockedBy[r]
                        \/ (lockedBy[r] \in {None, w} /\ lockedBy'[r] \in {None, w})
  PROVE  Inv'
  <1>1. SentOnce'
    BY Zenon DEF Inv, SentOnce
  <1>2. ASSUME NEW v \in Worker, v # w PROVE TxInv(v)'
    BY Zenon, <1>2, TxFrame, ScheduledAssumption DEF Inv
  <1> QED BY Zenon, <1>1, <1>2 DEF Inv

-----------------------------------------------------------------------------
(* The initial state *)

\* The empty records are of their types.
LEMMA Blank == NoRow \in RowType /\ Resting \in WorkType /\ NoReq \in ReqType
  <1>1. NoRow \in RowType
    BY Zenon DEF NoRow, RowType, Status, Content
  <1>2. NoReq \in ReqType
    BY Zenon DEF NoReq, ReqType, Content
  <1> QED BY Zenon, <1>1, <1>2 DEF Resting, WorkType

\* No row, no message, no transaction.
LEMMA InitInv == Init => Inv
  <1> SUFFICES ASSUME Init PROVE Inv
    BY Zenon
  <1>1. TypeOK
    BY Blank DEF Init, TypeOK, Gate
  <1>2. SentOnce
    BY Zenon DEF Init, SentOnce, NoRow
  <1>3. \A w \in Worker : TxInv(w)
    BY Zenon, ScheduledAssumption DEF Init, TxInv, Claimed, Owned, Once, InTx, Resting
  <1> QED BY Zenon, <1>1, <1>2, <1>3 DEF Inv

-----------------------------------------------------------------------------
(* The sender's requests *)

\* Schedule's checks only start the request.
LEMMA ScheduleCheckStep ==
  ASSUME Inv, NEW q \in Request, NEW c \in Chat, NEW b \in Content, NEW A \in SUBSET Att,
         NEW t \in Nat, ScheduleCheck(q, c, b, A, t)
  PROVE  Inv'
  <1>1. req' \in [Request -> ReqType]
    BY Zenon DEF ScheduleCheck, Inv, TypeOK, ReqType
  <1>2. TypeOK'
    BY Zenon, <1>1 DEF ScheduleCheck, Inv, TypeOK, world
  <1> QED BY Zenon, <1>2, UserFrame DEF ScheduleCheck

\* Its insert fills a row nobody can have claimed.
LEMMA ScheduleCreateStep ==
  ASSUME Inv, NEW q \in Request, NEW r \in Row, ScheduleCreate(q, r)
  PROVE  Inv'
  <1>1. rows' \in [Row -> RowType] /\ rows'[r].status = "pending"
        /\ \A o \in Row \ {r} : rows'[o] = rows[o]
    BY Zenon DEF ScheduleCreate, Inv, TypeOK, RowType, ReqType, Status
  <1>2. req' \in [Request -> ReqType]
    BY Zenon, Blank DEF ScheduleCreate, Inv, TypeOK
  <1>3. TypeOK'
    BY Zenon, <1>1, <1>2 DEF ScheduleCreate, Inv, TypeOK, world
  <1>4. lockedBy[r] = None
    BY DEF ScheduleCreate, Inv, TxInv, Claimed, TypeOK
  <1> QED BY Zenon, <1>1, <1>3, <1>4, UserFrame DEF ScheduleCreate

\* Update's read only starts the request.
LEMMA UpdateGetStep ==
  ASSUME Inv, NEW q \in Request, NEW r \in Row, NEW b \in Content \cup {"keep"}, NEW t \in Nat,
         UpdateGet(q, r, b, t)
  PROVE  Inv'
  <1>1. Edited(rows[r].body, b) \in Content
    BY Zenon DEF Edited, Inv, TypeOK, RowType
  <1>2. (IF t = 0 THEN rows[r].sendAt ELSE t) \in Nat
    BY Zenon DEF Inv, TypeOK, RowType
  <1>3. req' \in [Request -> ReqType]
    BY Zenon, <1>1, <1>2 DEF UpdateGet, Inv, TypeOK, ReqType
  <1>4. TypeOK'
    BY Zenon, <1>3 DEF UpdateGet, Inv, TypeOK, world
  <1> QED BY Zenon, <1>4, UserFrame DEF UpdateGet

\* Its write waits for the claim on the row and finds it pending or nothing.
LEMMA UpdateWriteStep ==
  ASSUME Inv, NEW q \in Request, UpdateWrite(q)
  PROVE  Inv'
  <1> DEFINE r == req[q].row
  <1>1. req[q] \in ReqType
    BY Zenon DEF Inv, TypeOK
  <1>2. \A o \in Row : /\ rows'[o] \in RowType
                       /\ lockedBy[o] # None => rows'[o] = rows[o]
                       /\ rows'[o].status = rows[o].status
    <2>1. CASE r \in Pending
      <3>1. r \in Row /\ rows \in [Row -> RowType] /\ lockedBy[r] = None
        BY Zenon, <2>1 DEF UpdateWrite, Inv, TypeOK, Pending, Unlocked
      <3>2. rows' = [rows EXCEPT ![r].body = req[q].body, ![r].sendAt = req[q].sendAt]
        BY Zenon, <2>1 DEF UpdateWrite
      <3>3. \A o \in Row \ {r} : rows'[o] = rows[o]
        BY Zenon, <3>1, <3>2
      <3>4. rows'[r] \in RowType /\ rows'[r].status = rows[r].status
        <4> DEFINE new == [rows[r] EXCEPT !.body = req[q].body, !.sendAt = req[q].sendAt]
        <4>1. rows'[r] = new
          BY Zenon, <3>1, <3>2
        <4>2. req[q].body \in Content /\ req[q].sendAt \in Nat /\ rows[r] \in RowType
          BY Zenon, <1>1, <3>1 DEF ReqType
        <4>3. new \in RowType /\ new.status = rows[r].status
          BY Zenon, <4>2 DEF RowType
        <4> QED BY Zenon, <4>1, <4>3
      <3> QED BY Zenon, <3>1, <3>3, <3>4
    <2>2. CASE r \notin Pending
      BY Zenon, <2>2 DEF UpdateWrite, Inv, TypeOK
    <2> QED BY Zenon, <2>1, <2>2
  <1>3. rows' \in [Row -> RowType]
    <2>1. rows' = [o \in Row |-> rows'[o]]
      BY Zenon DEF UpdateWrite, Inv, TypeOK
    <2> QED BY Zenon, <1>2, <2>1
  <1>4. req' \in [Request -> ReqType]
    BY Zenon, Blank DEF UpdateWrite, Inv, TypeOK
  <1>5. TypeOK'
    BY Zenon, <1>3, <1>4 DEF UpdateWrite, Inv, TypeOK, world
  <1> QED BY Zenon, <1>2, <1>5, UserFrame DEF UpdateWrite

\* Cancel drops an unclaimed pending row.
LEMMA CancelStep ==
  ASSUME Inv, NEW q \in Request, NEW r \in Row, Cancel(q, r)
  PROVE  Inv'
  <1>1. rows' \in [Row -> RowType] /\ rows'[r].status = "dropped"
        /\ \A o \in Row \ {r} : rows'[o] = rows[o]
    BY Zenon, Blank DEF Cancel, Inv, TypeOK, RowType, Status, NoRow
  <1>2. TypeOK'
    BY Zenon, <1>1 DEF Cancel, Inv, TypeOK, world
  <1> QED BY Zenon, <1>1, <1>2, UserFrame DEF Cancel, Pending, Unlocked
-----------------------------------------------------------------------------
(* The worker *)

\* The state of a worker is of its type when each of its fields is.
LEMMA WorkTyped ==
  ASSUME NEW w \in Worker, work \in [Worker -> WorkType], NEW k \in WorkType,
         work' = [work EXCEPT ![w] = k]
  PROVE  /\ work' \in [Worker -> WorkType]
         /\ work'[w] = k
         /\ \A v \in Worker \ {w} : work'[v] = work[v]
  BY Zenon

\* ClaimDue by a worker that holds nothing.
LEMMA ClaimDueStep ==
  ASSUME Inv, NEW w \in Worker, NEW S \in SUBSET Row, ClaimDue(w, S)
  PROVE  Inv'
  <1> DEFINE d == [r \in Row |-> IF r \in S THEN rows[r] ELSE NoRow]
             k == [work[w] EXCEPT !.pc = "check", !.todo = S, !.due = d]
  <1>1. d \in [Row -> RowType] /\ work[w] \in WorkType
    BY Zenon, Blank DEF Inv, TypeOK
  <1>2. /\ k \in WorkType /\ k.pc = "check" /\ k.todo = S /\ k.due = d /\ k.cur = work[w].cur
        /\ k.canceled = work[w].canceled /\ k.sent = work[w].sent
    BY Zenon, <1>1 DEF WorkType
  <1>3. work' = [work EXCEPT ![w] = k]
    BY Zenon DEF ClaimDue, Inv, TypeOK
  <1> HIDE DEF k
  <1>4. /\ work' \in [Worker -> WorkType] /\ work'[w] = k
        /\ \A v \in Worker \ {w} : work'[v] = work[v]
    BY Zenon, <1>2, <1>3, WorkTyped DEF Inv, TypeOK
  <1>5. work[w].cur = None /\ \A r \in Row : ~InTx(w, r) /\ lockedBy[r] # w
    BY Zenon DEF ClaimDue, Inv, TxInv, Claimed, Owned
  <1>6. \A r \in S : rows[r].status = "pending" /\ lockedBy[r] = None
    BY Zenon DEF ClaimDue, Claims, Claimable, Pending, Unlocked
  <1>7. TypeOK'
    BY Zenon, <1>4 DEF ClaimDue, Inv, TypeOK, world
  <1>8. TxInv(w)'
    BY <1>2, <1>4, <1>5, <1>6, ScheduledAssumption
       DEF ClaimDue, TxInv, Claimed, Owned, Once, InTx
  <1> QED BY Zenon, <1>4, <1>6, <1>7, <1>8, WorkerFrame DEF ClaimDue

\* CancelRow moves a row in hand to the canceled ones.
LEMMA CancelRowTx ==
  ASSUME Inv, NEW w \in Worker, NEW r \in Row, CancelRow(w, r),
         r \in work[w].todo \/ r = work[w].cur, work[w].cur \in {r, None},
         rows' = rows, lockedBy' = lockedBy
  PROVE  /\ work' \in [Worker -> WorkType]
         /\ \A v \in Worker \ {w} : work'[v] = work[v]
         /\ TxInv(w)'
  <1> DEFINE k == [work[w] EXCEPT !.pc = "check", !.todo = @ \ {r}, !.cur = None, !.atts = {},
                                  !.canceled = @ \cup {r}]
  <1>1. work[w] \in WorkType
    BY Zenon DEF Inv, TypeOK
  <1>2. /\ k \in WorkType /\ k.pc = "check" /\ k.todo = work[w].todo \ {r} /\ k.cur = None
        /\ k.canceled = work[w].canceled \cup {r} /\ k.sent = work[w].sent /\ k.due = work[w].due
    BY Zenon, <1>1 DEF WorkType
  <1>3. work' = [work EXCEPT ![w] = k]
    BY Zenon DEF CancelRow, Inv, TypeOK
  <1> HIDE DEF k
  <1>4. /\ work' \in [Worker -> WorkType] /\ work'[w] = k
        /\ \A v \in Worker \ {w} : work'[v] = work[v]
    BY Zenon, <1>2, <1>3, WorkTyped DEF Inv, TypeOK
  <1>5. TxInv(w)'
    BY <1>2, <1>4, ScheduledAssumption DEF Inv, TxInv, Claimed, Owned, Once, InTx
  <1> QED BY Zenon, <1>4, <1>5

\* The tests on the next row.
LEMMA CheckRowStep ==
  ASSUME Inv, NEW w \in Worker, NEW r \in Row, CheckRow(w, r)
  PROVE  Inv'
  <1> DEFINE A == OwnedUnlinked(work[w].due[r].atts)
             k == [work[w] EXCEPT !.pc = "send", !.todo = @ \ {r}, !.cur = r, !.atts = A]
  <1>1. r \in work[w].todo /\ work[w].cur = None /\ work[w] \in WorkType
    BY Zenon DEF CheckRow, First, Inv, TxInv, TypeOK
  <1>2. /\ work' \in [Worker -> WorkType]
        /\ \A v \in Worker \ {w} : work'[v] = work[v]
        /\ TxInv(w)'
    <2>1. CASE CancelRow(w, r)
      BY Zenon, <1>1, <2>1, CancelRowTx DEF CheckRow
    <2>2. CASE work' = [work EXCEPT ![w].pc = "send", ![w].todo = @ \ {r}, ![w].cur = r, ![w].atts = A]
      <3>1. A \in SUBSET Att
        BY Zenon, <1>1 DEF OwnedUnlinked, WorkType, RowType
      <3> HIDE DEF A
      <3>2. /\ k \in WorkType /\ k.pc = "send" /\ k.todo = work[w].todo \ {r} /\ k.cur = r
            /\ k.canceled = work[w].canceled /\ k.sent = work[w].sent /\ k.due = work[w].due
        BY Zenon, <1>1, <3>1 DEF WorkType
      <3>3. work' = [work EXCEPT ![w] = k]
        BY Zenon, <2>2 DEF Inv, TypeOK
      <3> HIDE DEF k
      <3>4. /\ work' \in [Worker -> WorkType] /\ work'[w] = k
            /\ \A v \in Worker \ {w} : work'[v] = work[v]
        BY Zenon, <3>2, <3>3, WorkTyped DEF Inv, TypeOK
      <3>5. lockedBy' = lockedBy /\ rows' = rows
        BY Zenon DEF CheckRow
      <3>6. work[w].pc = "check"
        BY SMTT(30) DEF CheckRow
      <3>7. TxInv(w)'
        BY <1>1, <3>2, <3>4, <3>5, <3>6, ScheduledAssumption DEF Inv, TxInv, Claimed, Owned, Once, InTx
      <3> QED BY Zenon, <3>4, <3>7
    <2> QED BY Zenon, <2>1, <2>2 DEF CheckRow
  <1>3. TypeOK'
    BY Zenon, <1>2 DEF CheckRow, Inv, TypeOK, world
  <1> QED BY Zenon, <1>2, <1>3, WorkerFrame DEF CheckRow

\* The row whose authorization could not be read is canceled.
LEMMA AuthorizeFailsStep ==
  ASSUME Inv, NEW w \in Worker, NEW r \in Row, AuthorizeFails(w, r)
  PROVE  Inv'
  <1>1. r \in work[w].todo /\ work[w].cur = None
    BY Zenon DEF AuthorizeFails, First, Inv, TxInv
  <1>2. /\ work' \in [Worker -> WorkType]
        /\ \A v \in Worker \ {w} : work'[v] = work[v]
        /\ TxInv(w)'
    BY Zenon, <1>1, CancelRowTx DEF AuthorizeFails
  <1>3. faults' \in Nat
    BY DEF AuthorizeFails, Inv, TypeOK
  <1>4. TypeOK'
    BY Zenon, <1>2, <1>3 DEF AuthorizeFails, Inv, TypeOK
  <1> QED BY Zenon, <1>2, <1>4, WorkerFrame DEF AuthorizeFails

\* The message is inserted with the content that was read.
LEMMA SendRowStep ==
  ASSUME Inv, NEW w \in Worker, SendRow(w)
  PROVE  Inv'
  <1> DEFINE r == work[w].cur
             m == [body |-> work[w].due[r].body, atts |-> Link(w, work[w].atts)]
             k == [work[w] EXCEPT !.pc = "check", !.cur = None, !.atts = {},
                                  !.sent = [@ EXCEPT ![r] = m]]
  <1>1. r \in Row /\ work[w] \in WorkType /\ work[w].pc = "send"
    BY Zenon DEF SendRow, Inv, TxInv, TypeOK
  <1>2. m \in Message /\ m.body = work[w].due[r].body
    BY Zenon, <1>1 DEF Message, Link, OwnedUnlinked, WorkType, RowType
  <1>3. work' = [work EXCEPT ![w] = k]
    BY Zenon DEF SendRow, Inv, TypeOK
  <1> HIDE DEF m, r
  <1>4. /\ k.pc = "check" /\ k.todo = work[w].todo /\ k.cur = None /\ k.atts = {}
        /\ k.canceled = work[w].canceled /\ k.due = work[w].due /\ k.out = work[w].out
        /\ k.sent = [work[w].sent EXCEPT ![r] = m]
    BY Zenon, <1>1 DEF WorkType
  <1>5. k.sent \in [Row -> Message \cup {None}] /\ k.sent[r] = m
        /\ \A o \in Row \ {r} : k.sent[o] = work[w].sent[o]
    BY Zenon, <1>1, <1>2, <1>4 DEF WorkType
  <1>6. k \in WorkType
    BY Zenon, <1>1, <1>4, <1>5 DEF WorkType
  <1> HIDE DEF k
  <1>7. /\ work' \in [Worker -> WorkType] /\ work'[w] = k
        /\ \A v \in Worker \ {w} : work'[v] = work[v]
    BY Zenon, <1>6, <1>3, WorkTyped DEF Inv, TypeOK
  <1>8. lockedBy' = lockedBy /\ rows' = rows /\ r = work[w].cur
    BY SMTT(30) DEF SendRow, r
  <1>9. TxInv(w)'
    BY SMTT(30), <1>1, <1>2, <1>4, <1>5, <1>7, <1>8, ScheduledAssumption DEF Inv, TxInv, Claimed, Owned, Once, InTx
  <1>10. TypeOK'
    BY Zenon, <1>7 DEF SendRow, Inv, TypeOK, world
  <1> QED BY Zenon, <1>7, <1>9, <1>10, WorkerFrame DEF SendRow

\* A refusal of SendTx cancels the row.
LEMMA SendRefusedStep ==
  ASSUME Inv, NEW w \in Worker, SendRefused(w)
  PROVE  Inv'
  <1>1. work[w].cur \in Row
    BY Zenon DEF SendRefused, Inv, TxInv
  <1>2. /\ work' \in [Worker -> WorkType]
        /\ \A v \in Worker \ {w} : work'[v] = work[v]
        /\ TxInv(w)'
    BY Zenon, <1>1, CancelRowTx DEF SendRefused
  <1>3. TypeOK'
    BY Zenon, <1>2 DEF SendRefused, Inv, TypeOK, world
  <1> QED BY Zenon, <1>2, <1>3, WorkerFrame DEF SendRefused

\* A transaction that is rolled back leaves nothing behind.
LEMMA RollbackStep ==
  ASSUME Inv, NEW w \in Worker, Rollback(w), rows' = rows, posted' = posted, att' = att,
         gate' = gate, active' = active, delivered' = delivered, req' = req, clock' = clock,
         faults' \in Nat
  PROVE  Inv'
  <1>1. /\ work' \in [Worker -> WorkType] /\ work'[w] = Resting
        /\ \A v \in Worker \ {w} : work'[v] = work[v]
    BY Zenon, Blank, WorkTyped DEF Rollback, Inv, TypeOK
  <1>2. /\ lockedBy' \in [Row -> Worker \cup {None}]
        /\ \A r \in Row : lockedBy'[r] = IF lockedBy[r] = w THEN None ELSE lockedBy[r]
    BY Zenon DEF Rollback, Inv, TypeOK
  <1>3. TypeOK'
    BY SMTT(30), <1>1, <1>2 DEF Inv, TypeOK
  <1>4. TxInv(w)'
    BY <1>1, <1>2, ScheduledAssumption DEF TxInv, Claimed, Owned, Once, InTx, Resting
  <1> QED BY Zenon, <1>1, <1>2, <1>3, <1>4, WorkerFrame

\* Delivering, and going back to rest, touch no row.
LEMMA DeliverStep ==
  ASSUME Inv, NEW w \in Worker, (\E r \in Row : Deliver(w, r)) \/ Return(w)
  PROVE  Inv'
  <1>1. PICK k : /\ work' = [work EXCEPT ![w] = k] /\ k \in WorkType
                 /\ k.pc \in {"idle", "deliver"} /\ k.todo = work[w].todo /\ k.cur = work[w].cur
                 /\ k.canceled = work[w].canceled /\ k.sent = work[w].sent /\ k.due = work[w].due
    <2> DEFINE Like(k) == /\ k \in WorkType /\ k.pc \in {"idle", "deliver"}
                          /\ k.todo = work[w].todo /\ k.cur = work[w].cur
                          /\ k.canceled = work[w].canceled /\ k.sent = work[w].sent
                          /\ k.due = work[w].due
               d(r) == [work[w] EXCEPT !.out = @ \ {r}]
               i == [work[w] EXCEPT !.pc = "idle"]
    <2>1. work[w] \in WorkType /\ work[w].pc = "deliver" /\ work \in [Worker -> WorkType]
      BY Zenon DEF Deliver, Return, Inv, TypeOK
    <2>2. Like(i)
      BY Zenon, <2>1 DEF WorkType
    <2>3. ASSUME NEW r \in Row PROVE Like(d(r))
      BY Zenon, <2>1 DEF WorkType
    <2> HIDE DEF Like
    <2>4. ASSUME NEW r \in Row, Deliver(w, r) PROVE work' = [work EXCEPT ![w] = d(r)]
      BY Zenon, <2>1, <2>4 DEF Deliver
    <2>5. ASSUME Return(w) PROVE work' = [work EXCEPT ![w] = i]
      BY Zenon, <2>1, <2>5 DEF Return
    <2> HIDE DEF d, i
    <2>6. \E k : work' = [work EXCEPT ![w] = k] /\ Like(k)
      BY Zenon, <2>2, <2>3, <2>4, <2>5
    <2> QED BY Zenon, <2>6 DEF Like
  <1>2. /\ work' \in [Worker -> WorkType] /\ work'[w] = k
        /\ \A v \in Worker \ {w} : work'[v] = work[v]
    BY Zenon, <1>1, WorkTyped DEF Inv, TypeOK
  <1>3. /\ rows' = rows /\ posted' = posted /\ lockedBy' = lockedBy /\ req' = req /\ world' = world
        /\ delivered' \in [Row -> Nat] /\ work[w].pc = "deliver"
    <2>1. ASSUME NEW r \in Row, Deliver(w, r) PROVE delivered' \in [Row -> Nat]
      BY <2>1 DEF Deliver, Inv, TypeOK
    <2>2. ASSUME Return(w) PROVE delivered' \in [Row -> Nat]
      BY Zenon, <2>2 DEF Return, Inv, TypeOK
    <2> QED BY Zenon, <2>1, <2>2 DEF Deliver, Return
  <1>4. TypeOK'
    BY SMTT(30), <1>2, <1>3 DEF Inv, TypeOK, world
  <1>5. TxInv(w)'
    BY <1>1, <1>2, <1>3 DEF Inv, TxInv, Claimed, Owned, Once, InTx
  <1> QED BY Zenon, <1>2, <1>3, <1>4, <1>5, WorkerFrame

\* The commit writes claimed rows only: they were pending, so none had a message.
LEMMA CommitStep ==
  ASSUME Inv, NEW w \in Worker, Commit(w)
  PROVE  Inv'
  <1>1. \A r \in Row : InTx(w, r) => lockedBy[r] = w /\ rows[r].status = "pending" /\ Len(posted[r]) = 0
    BY Zenon DEF Inv, TxInv, Owned, Claimed, SentOnce
  <1>2. \A r \in Row : /\ rows'[r] \in RowType
                       /\ lockedBy[r] # w => rows'[r] = rows[r]
                       /\ rows'[r].status = "sent" <=> (work[w].sent[r] # None \/ rows[r].status = "sent")
    <2> TAKE r \in Row
    <2> DEFINE s == [rows[r] EXCEPT !.status = "sent", !.body = None, !.atts = {}]
               c == [rows[r] EXCEPT !.status = "canceled", !.body = None, !.atts = {}]
    <2>1. rows[r] \in RowType
      BY Zenon DEF Inv, TypeOK
    <2>2. s \in RowType /\ s.status = "sent" /\ c \in RowType /\ c.status = "canceled"
      BY Zenon, <2>1 DEF RowType, Status, Content
    <2>3. rows'[r] = IF work[w].sent[r] # None THEN s ELSE IF r \in work[w].canceled THEN c ELSE rows[r]
      BY Zenon DEF Commit, Settled
    <2> HIDE DEF s, c
    <2>4. CASE work[w].sent[r] # None
      BY Zenon, <1>1, <2>2, <2>3, <2>4 DEF InTx
    <2>5. CASE work[w].sent[r] = None /\ r \in work[w].canceled
      BY Zenon, <1>1, <2>2, <2>3, <2>5 DEF InTx
    <2>6. CASE work[w].sent[r] = None /\ r \notin work[w].canceled
      BY Zenon, <2>1, <2>3, <2>6
    <2> QED BY Zenon, <2>4, <2>5, <2>6
  <1>3. rows' \in [Row -> RowType]
    <2>1. rows' = [r \in Row |-> rows'[r]]
      BY Zenon DEF Commit, Settled
    <2> QED BY Zenon, <1>2, <2>1
  <1>4. \A r \in Row : /\ posted'[r] \in Seq(Message)
                       /\ Len(posted'[r]) = IF work[w].sent[r] # None THEN Len(posted[r]) + 1 ELSE Len(posted[r])
    BY DEF Commit, Inv, TypeOK, WorkType
  <1>5. posted' \in [Row -> Seq(Message)]
    <2>1. posted' = [r \in Row |-> posted'[r]]
      BY Zenon DEF Commit
    <2> QED BY Zenon, <1>4, <2>1
  <1>6. SentOnce'
    <2> SUFFICES ASSUME NEW r \in Row
                 PROVE  Len(posted'[r]) = IF rows'[r].status = "sent" THEN 1 ELSE 0
      BY Zenon DEF SentOnce
    <2>1. CASE work[w].sent[r] # None
      BY <1>1, <1>2, <1>4, <2>1 DEF InTx
    <2>2. CASE work[w].sent[r] = None
      BY Zenon, <1>2, <1>4, <2>2 DEF Inv, SentOnce
    <2> QED BY Zenon, <2>1, <2>2
  <1> DEFINE k == [Resting EXCEPT !.pc = "deliver", !.out = {r \in Row : work[w].sent[r] # None}]
  <1>7. /\ k \in WorkType /\ k.pc = "deliver" /\ k.todo = {} /\ k.cur = None /\ k.canceled = {}
        /\ k.sent = [r \in Row |-> None]
    <2>1. {r \in Row : work[w].sent[r] # None} \in SUBSET Row /\ Resting \in WorkType
      BY Zenon, Blank
    <2>2. k \in WorkType
      BY Zenon, <2>1 DEF WorkType
    <2> QED BY Zenon, <2>2 DEF Resting
  <1>8. work' = [work EXCEPT ![w] = k]
    BY Zenon DEF Commit
  <1> HIDE DEF k
  <1>9. /\ work' \in [Worker -> WorkType] /\ work'[w] = k
        /\ \A v \in Worker \ {w} : work'[v] = work[v]
    BY Zenon, <1>7, <1>8, WorkTyped DEF Inv, TypeOK
  <1>10. /\ lockedBy' \in [Row -> Worker \cup {None}]
         /\ \A r \in Row : lockedBy'[r] = IF lockedBy[r] = w THEN None ELSE lockedBy[r]
    BY Zenon DEF Commit, Inv, TypeOK
  <1>11. att' \in [Att -> {"free", "linked", "reaped"}]
    BY Zenon DEF Commit, Inv, TypeOK
  <1>12. TypeOK'
    BY SMTT(30), <1>3, <1>5, <1>9, <1>10, <1>11 DEF Commit, Inv, TypeOK
  <1>13. TxInv(w)'
    BY <1>7, <1>9, <1>10, ScheduledAssumption DEF TxInv, Claimed, Owned, Once, InTx
  <1>14. ASSUME NEW v \in Worker, v # w PROVE TxInv(v)'
    BY Zenon, <1>2, <1>9, <1>10, <1>14, TxFrame, ScheduledAssumption DEF Inv
  <1> QED BY Zenon, <1>6, <1>12, <1>13, <1>14 DEF Inv

-----------------------------------------------------------------------------
(* The theorems *)

\* What the rest of the system does touches no row, message or transaction.
LEMMA WorldStep ==
  ASSUME Inv,
         \/ \E a \in Att : UseUpload(a) \/ ReapUnlinked(a)
         \/ \E c \in Chat, g \in Gates : ChangeGate(c, g)
         \/ Deactivate \/ Tick
  PROVE  Inv'
  <1>1. /\ rows' = rows /\ posted' = posted /\ work' = work /\ lockedBy' = lockedBy
        /\ delivered' = delivered /\ req' = req /\ faults' = faults
    BY Zenon DEF UseUpload, ReapUnlinked, ChangeGate, Deactivate, Tick
  <1>2. att' \in [Att -> {"free", "linked", "reaped"}]
    BY ZenonT(40) DEF UseUpload, ReapUnlinked, ChangeGate, Deactivate, Tick, Inv, TypeOK
  <1>3. gate' \in [Chat -> Gate]
    BY Zenon, ScheduledAssumption DEF UseUpload, ReapUnlinked, ChangeGate, Deactivate, Tick, Inv, TypeOK
  <1>4. active' \in BOOLEAN /\ clock' \in Nat
    <2>1. active' \in BOOLEAN
      BY Zenon DEF UseUpload, ReapUnlinked, ChangeGate, Deactivate, Tick, Inv, TypeOK
    <2>2. clock' = clock \/ clock' = clock + 1
      BY Zenon DEF UseUpload, ReapUnlinked, ChangeGate, Deactivate, Tick
    <2>3. clock' \in Nat
      BY <2>2 DEF Inv, TypeOK
    <2> QED BY Zenon, <2>1, <2>3
  <1>5. TypeOK'
    BY Zenon, <1>1, <1>2, <1>3, <1>4 DEF Inv, TypeOK
  <1> QED BY Zenon, <1>1, <1>5, UserFrame

\* Every step keeps the invariant.
LEMMA StepInv == Inv /\ [Next]_vars => Inv'
  <1> SUFFICES ASSUME Inv, [Next]_vars PROVE Inv'
    BY Zenon
  <1>0. \A t \in 0 .. MaxTime : t \in Nat
    BY ScheduledAssumption
  <1>1. ASSUME NEW q \in Request, UserStep(q) PROVE Inv'
    BY Zenon, <1>0, <1>1, ScheduleCheckStep, ScheduleCreateStep, CancelStep, UpdateGetStep, UpdateWriteStep
       DEF UserStep
  <1>2. ASSUME NEW w \in Worker, SendFails(w) \/ DbError(w) \/ Crash(w) PROVE Inv'
    <2>1. Rollback(w) /\ rows' = rows /\ posted' = posted /\ att' = att /\ gate' = gate
          /\ active' = active /\ delivered' = delivered /\ req' = req /\ clock' = clock
      BY Zenon, <1>2 DEF SendFails, DbError, Crash, world
    <2>2. faults' \in Nat
      BY <1>2 DEF SendFails, DbError, Crash, world, Inv, TypeOK
    <2> QED BY Zenon, <2>1, <2>2, RollbackStep
  <1>3. ASSUME NEW w \in Worker, Pass(w) PROVE Inv'
    BY Zenon, <1>2, <1>3, ClaimDueStep, CheckRowStep, SendRowStep, SendRefusedStep, CommitStep, DeliverStep
       DEF Pass
  <1>4. CASE UNCHANGED vars
    <2>1. TypeOK'
      BY Zenon, <1>4 DEF vars, Inv, TypeOK
    <2> QED BY Zenon, <1>4, <2>1, UserFrame DEF vars
  <1> QED BY Zenon, <1>1, <1>2, <1>3, <1>4, AuthorizeFailsStep, WorldStep DEF Next, Fails

\* ProcessDue sends a row once, for any number of replicas, rows and batches:
\* a row that was sent has one message and every other row has none.
THEOREM SendsOnce == Spec => [](TypeOK /\ SentOnce)
  <1>1. Inv => TypeOK /\ SentOnce
    BY Zenon DEF Inv
  <1> QED BY <1>1, InitInv, StepInv, PTL DEF Spec

-----------------------------------------------------------------------------
(* Scheduled implements Outbox *)

\* The mapping sends the initial state to an initial state.
LEMMA MapsInit == Init => Outbox!Init
  <1> SUFFICES ASSUME Init PROVE Outbox!Init
    BY Zenon
  <1>1. Items \in [Row -> [state : {"none"}, content : Content]]
    BY Zenon DEF Init, Items, NoRow, Content
  <1>2. PostedBodies = [r \in Row |-> <<>>]
    BY DEF Init, PostedBodies
  <1> QED BY Zenon, <1>1, <1>2 DEF Outbox!Init

\* A step that writes neither rows nor messages is a stutter.
LEMMA Stutters ==
  ASSUME rows' = rows, posted' = posted
  PROVE  UNCHANGED Outbox!vars
  BY Zenon DEF Outbox!vars, Items, PostedBodies

\* The steps of a sender.
LEMMA MapsUser ==
  ASSUME Inv, NEW q \in Request, UserStep(q)
  PROVE  Outbox!Next \/ UNCHANGED Outbox!vars
  <1>1. PostedBodies' = PostedBodies
    BY Zenon DEF UserStep, ScheduleCheck, ScheduleCreate, Cancel, UpdateGet, UpdateWrite, PostedBodies
  <1>2. ASSUME NEW r \in Row, ScheduleCreate(q, r) PROVE Outbox!Create(r, req[q].body)
    BY Zenon, <1>1, <1>2 DEF ScheduleCreate, Outbox!Create, Items, Inv, TypeOK, RowType, ReqType
  <1>3. ASSUME NEW r \in Row, Cancel(q, r) PROVE Outbox!Drop(r, None)
    BY Zenon, <1>1, <1>3 DEF Cancel, Outbox!Drop, Items, Inv, TypeOK, RowType, Pending, NoRow
  <1>4. ASSUME UpdateWrite(q), req[q].row \in Pending PROVE Outbox!Edit(req[q].row, req[q].body)
    BY ZenonT(30), <1>1, <1>4 DEF UpdateWrite, Outbox!Edit, Items, Inv, TypeOK, RowType, ReqType, Pending
  <1>5. ASSUME UpdateWrite(q), req[q].row \notin Pending PROVE UNCHANGED Outbox!vars
    BY Zenon, <1>5, Stutters DEF UpdateWrite
  <1>6. req[q].body \in Content /\ None \in Content
    BY Zenon DEF Inv, TypeOK, ReqType, Content
  <1>7. ASSUME NEW c \in Chat, NEW b, NEW A, NEW t, ScheduleCheck(q, c, b, A, t)
        PROVE  UNCHANGED Outbox!vars
    BY Zenon, <1>7, Stutters DEF ScheduleCheck
  <1>8. ASSUME NEW r \in Row, NEW b, NEW t, UpdateGet(q, r, b, t)
        PROVE  UNCHANGED Outbox!vars
    BY Zenon, <1>8, Stutters DEF UpdateGet
  <1>9. Pending \subseteq Row
    BY Zenon DEF Pending
  <1> QED BY Zenon, <1>2, <1>3, <1>4, <1>5, <1>6, <1>7, <1>8, <1>9 DEF UserStep, Outbox!Next

\* A commit settles its batch in one step, with the contents of the rows.
LEMMA MapsCommit ==
  ASSUME Inv, NEW w \in Worker, Commit(w)
  PROVE  Outbox!Next
  <1> DEFINE S == {r \in Row : work[w].sent[r] # None}
             C == work[w].canceled
  <1>1. C \subseteq Row /\ S \subseteq Row /\ S \cap C = {}
    BY Zenon DEF Inv, TypeOK, WorkType, TxInv, Once
  <1>2. \A r \in S \cup C : /\ rows[r].status = "pending" /\ work[w].due[r] = rows[r]
                            /\ Len(posted[r]) = 0
    BY <1>1 DEF Inv, TxInv, Owned, Claimed, InTx, SentOnce
  <1>3. \A r \in S : /\ posted[r] = <<>> /\ posted'[r] = <<work[w].sent[r]>>
                     /\ work[w].sent[r].body = rows[r].body
    <2> TAKE r \in S
    <2>1. posted[r] = <<>>
      BY <1>2 DEF Inv, TypeOK
    <2>2. posted'[r] = Append(posted[r], work[w].sent[r])
      BY Zenon DEF Commit
    <2>3. work[w].sent[r].body = rows[r].body
      BY <1>2 DEF Inv, TxInv, Once
    <2> QED BY <2>1, <2>2, <2>3
  <1>4. \A r \in Row \ S : posted'[r] = posted[r]
    BY Zenon DEF Commit
  <1>5. PostedBodies' = [r \in Row |-> IF r \in S THEN Append(PostedBodies[r], Items[r].content)
                                       ELSE PostedBodies[r]]
    <2>1. \A r \in S : PostedBodies'[r] = Append(PostedBodies[r], Items[r].content)
      <3> TAKE r \in S
      <3>1. PostedBodies[r] = <<>>
        BY <1>3 DEF PostedBodies
      <3>2. PostedBodies'[r] = [i \in 1 .. Len(posted'[r]) |-> posted'[r][i].body]
        BY Zenon DEF PostedBodies
      <3>3. PostedBodies'[r] = <<work[w].sent[r].body>>
        BY SMTT(30), <1>3, <3>2
      <3>4. Items[r].content = rows[r].body
        BY Zenon DEF Items
      <3> QED BY <1>3, <3>1, <3>3, <3>4
    <2>2. \A r \in Row \ S : PostedBodies'[r] = PostedBodies[r]
      BY Zenon, <1>4 DEF PostedBodies
    <2>3. PostedBodies' = [r \in Row |-> PostedBodies'[r]]
      BY Zenon DEF PostedBodies
    <2> QED BY Zenon, <2>1, <2>2, <2>3
  <1>6. Items' = [r \in Row |-> IF r \in S THEN [state |-> "sent", content |-> None]
                                ELSE IF r \in C THEN [state |-> "canceled", content |-> None]
                                ELSE Items[r]]
    <2>1. \A r \in Row : Items'[r] = [state |-> rows'[r].status, content |-> rows'[r].body]
      BY Zenon DEF Items
    <2>2. \A r \in S : rows'[r].status = "sent" /\ rows'[r].body = None
      BY ZenonT(40) DEF Commit, Settled, Inv, TypeOK, RowType
    <2>3. \A r \in C : r \notin S => rows'[r].status = "canceled" /\ rows'[r].body = None
      <3> TAKE r \in C
      <3> HAVE r \notin S
      <3>1. rows'[r] = [rows[r] EXCEPT !.status = "canceled", !.body = None, !.atts = {}]
        BY Zenon, <1>1 DEF Commit, Settled
      <3>2. rows[r] \in RowType
        BY Zenon, <1>1 DEF Inv, TypeOK
      <3> QED BY Zenon, <3>1, <3>2 DEF RowType
    <2>4. \A r \in Row : r \notin S /\ r \notin C => rows'[r] = rows[r]
      BY Zenon DEF Commit, Settled
    <2>5. Items' = [r \in Row |-> Items'[r]] /\ \A r \in Row : Items[r] = [state |-> rows[r].status, content |-> rows[r].body]
      BY Zenon DEF Items
    <2>6. \A r \in Row : Items'[r] = IF r \in S THEN [state |-> "sent", content |-> None]
                                     ELSE IF r \in C THEN [state |-> "canceled", content |-> None]
                                     ELSE Items[r]
      <3> TAKE r \in Row
      <3>1. CASE r \in S
        BY Zenon, <2>1, <2>2, <3>1
      <3>2. CASE r \notin S /\ r \in C
        BY Zenon, <2>1, <2>3, <3>2
      <3>3. CASE r \notin S /\ r \notin C
        <4>1. rows'[r] = rows[r]
          BY Zenon, <2>4, <3>3
        <4>2. Items'[r] = Items[r]
          BY Zenon, <4>1, <2>1, <2>5
        <4> QED BY Zenon, <3>3, <4>2
      <3> QED BY Zenon, <3>1, <3>2, <3>3
    <2> HIDE DEF S, C
    <2> QED BY Zenon, <2>5, <2>6
  <1>7. \A r \in S \cup C : Items[r].state = "pending"
    BY SMTT(20), <1>1, <1>2 DEF Items
  <1>8. Outbox!Settle(S, C, None)
    BY Zenon, <1>1, <1>5, <1>6, <1>7 DEF Outbox!Settle
  <1> QED BY SMTT(30), <1>1, <1>8 DEF Outbox!Next, Content

\* Every other step of the system is a stutter.
LEMMA MapsStep == Inv /\ [Next]_vars => [Outbox!Next]_(Outbox!vars)
  <1> SUFFICES ASSUME Inv, [Next]_vars PROVE Outbox!Next \/ UNCHANGED Outbox!vars
    BY Zenon
  <1>1. CASE \E q \in Request : UserStep(q)
    BY Zenon, <1>1, MapsUser
  <1>2. CASE \E w \in Worker : Commit(w)
    BY Zenon, <1>2, MapsCommit
  <1>3. CASE UNCHANGED vars
    BY Zenon, <1>3, Stutters DEF vars
  <1>4. ASSUME NEW w \in Worker, Pass(w) \/ Fails(w), ~Commit(w)
        PROVE  UNCHANGED Outbox!vars
    <2>1. rows' = rows /\ posted' = posted
      BY Zenon, <1>4 DEF Pass, ClaimDue, CheckRow, Deliver, SendRow, SendRefused, SendFails, Return, Fails, AuthorizeFails, DbError, Crash
    <2> QED BY Zenon, <2>1, Stutters
  <1>5. ASSUME \/ \E a \in Att : UseUpload(a) \/ ReapUnlinked(a)
               \/ \E c \in Chat, g \in Gates : ChangeGate(c, g)
               \/ Deactivate \/ Tick
        PROVE  UNCHANGED Outbox!vars
    <2>1. rows' = rows /\ posted' = posted
      BY Zenon, <1>5 DEF UseUpload, ReapUnlinked, ChangeGate, Deactivate, Tick
    <2> QED BY Zenon, <2>1, Stutters
  <1> QED BY Zenon, <1>1, <1>2, <1>3, <1>4, <1>5 DEF Next

\* The service implements Outbox: sent once with the content last saved, and
\* settled or dropped for good.
THEOREM Implements == Spec => ImplementsOutbox
  <1> QED BY InitInv, StepInv, MapsInit, MapsStep, PTL DEF Spec, ImplementsOutbox, Outbox!Spec

-----------------------------------------------------------------------------
(* What is delivered, and what an upload is linked to *)

\* A worker delivers only rows whose message is committed, nobody else delivers
\* the same row, and it was not delivered before.
DeliveryInv ==
  \A r \in Row :
    /\ delivered[r] <= Len(posted[r])
    /\ \A w \in Worker : r \in work[w].out => /\ rows[r].status = "sent" /\ delivered[r] = 0
                                              /\ \A v \in Worker \ {w} : r \notin work[v].out

\* The message w's open transaction inserted for r has the upload a.
Binds(w, r, a) == work[w].sent[r] # None /\ a \in work[w].sent[r].atts

\* An open transaction links uploads that are free, each to one message; what
\* is committed is linked, each upload to one message.
UploadInv ==
  /\ \A w \in Worker, r \in Row, a \in Att :
       Binds(w, r, a) => /\ att[a] = "free"
                         /\ \A v \in Worker, o \in Row : Binds(v, o, a) => v = w /\ o = r
  /\ \A r \in Row, a \in Att : \A i \in DOMAIN posted[r] :
       a \in posted[r][i].atts =>
         /\ att[a] = "linked"
         /\ \A o \in Row : \A j \in DOMAIN posted[o] : a \in posted[o][j].atts => o = r /\ j = i

\* Only SendRow adds a message to an open transaction, and only a commit gives
\* a worker something to deliver.
LEMMA WorkKept ==
  ASSUME Inv, [Next]_vars, NEW v \in Worker, ~SendRow(v), ~Commit(v)
  PROVE  /\ \A r \in Row : work'[v].sent[r] \in {work[v].sent[r], None}
         /\ work'[v].out \subseteq work[v].out
  <1>0. work \in [Worker -> WorkType] /\ work[v] \in WorkType
    BY Zenon DEF Inv, TypeOK
  <1> DEFINE Goal == /\ \A r \in Row : work'[v].sent[r] \in {work[v].sent[r], None}
                     /\ work'[v].out \subseteq work[v].out
  <1> SUFFICES Goal
    BY Zenon
  <1>1. ASSUME work'[v] = work[v] PROVE Goal
    BY Zenon, <1>1
  <1>2. ASSUME work'[v].sent = work[v].sent, work'[v].out \subseteq work[v].out PROVE Goal
    BY Zenon, <1>2
  <1>3. ASSUME NEW w \in Worker, Rollback(w) PROVE Goal
    BY Zenon, <1>0, <1>3 DEF Rollback, Resting
  <1> HIDE DEF Goal
  <1>4. ASSUME NEW w \in Worker, NEW r \in Row, CancelRow(w, r) PROVE Goal
    <2>1. work'[v].sent = work[v].sent /\ work'[v].out = work[v].out
      BY Zenon, <1>0, <1>4 DEF CancelRow, WorkType
    <2> QED BY Zenon, <1>2, <2>1
  <1>5. ASSUME NEW w \in Worker, NEW S \in SUBSET Row, ClaimDue(w, S) PROVE Goal
    <2>1. work'[v].sent = work[v].sent /\ work'[v].out = work[v].out
      BY Zenon, <1>0, <1>5 DEF ClaimDue, WorkType
    <2> QED BY Zenon, <1>2, <2>1
  <1>6. ASSUME NEW w \in Worker, NEW r \in Row, CheckRow(w, r) PROVE Goal
    <2>1. CASE CancelRow(w, r)
      BY Zenon, <1>4, <2>1
    <2>2. CASE ~CancelRow(w, r)
      <3> DEFINE A == OwnedUnlinked(work[w].due[r].atts)
      <3>1. work' = [work EXCEPT ![w].pc = "send", ![w].todo = @ \ {r}, ![w].cur = r, ![w].atts = A]
        BY Zenon, <1>6, <2>2 DEF CheckRow
      <3> HIDE DEF A
      <3>2. work'[v].sent = work[v].sent /\ work'[v].out = work[v].out
        BY Zenon, <1>0, <3>1 DEF WorkType
      <3> QED BY Zenon, <1>2, <3>2
    <2> QED BY Zenon, <2>1, <2>2
  <1>7. ASSUME NEW w \in Worker, SendRefused(w) PROVE Goal
    <2>1. work[w].cur \in Row
      BY Zenon, <1>7 DEF SendRefused, Inv, TxInv
    <2> QED BY SMTT(30), <1>4, <1>7, <2>1 DEF SendRefused
  <1>8. ASSUME NEW w \in Worker, NEW r \in Row, Deliver(w, r) PROVE Goal
    <2>1. work'[v].sent = work[v].sent /\ (work'[v].out = work[v].out \/ work'[v].out = work[v].out \ {r})
      BY Zenon, <1>0, <1>8 DEF Deliver, WorkType
    <2> QED BY Zenon, <1>2, <2>1
  <1>9. ASSUME NEW w \in Worker, Return(w) PROVE Goal
    <2>1. work'[v].sent = work[v].sent /\ work'[v].out = work[v].out
      BY Zenon, <1>0, <1>9 DEF Return, WorkType
    <2> QED BY Zenon, <1>2, <2>1
  <1>10. ASSUME NEW w \in Worker, SendRow(w) \/ Commit(w) PROVE Goal
    <2>1. w # v
      BY SMTT(30), <1>10
    <2>2. work'[v] = work[v]
      BY Zenon, <1>0, <1>10, <2>1 DEF SendRow, Commit
    <2> QED BY Zenon, <1>1, <2>2
  <1>11. ASSUME NEW w \in Worker, Pass(w) \/ Fails(w) PROVE Goal
    BY Zenon, <1>3, <1>4, <1>5, <1>6, <1>7, <1>8, <1>9, <1>10, <1>11 DEF Pass, SendFails, Fails, AuthorizeFails, DbError, Crash
  <1>12. ASSUME NEW q \in Request, UserStep(q) PROVE work' = work
    BY Zenon, <1>12 DEF UserStep, ScheduleCheck, ScheduleCreate, Cancel, UpdateGet, UpdateWrite
  <1>13. ASSUME \/ \E a \in Att : UseUpload(a) \/ ReapUnlinked(a)
                \/ \E c \in Chat, g \in Gates : ChangeGate(c, g)
                \/ Deactivate \/ Tick \/ UNCHANGED vars
         PROVE  work' = work
    BY Zenon, <1>13 DEF UseUpload, ReapUnlinked, ChangeGate, Deactivate, Tick, vars
  <1> QED BY Zenon, <1>1, <1>11, <1>12, <1>13 DEF Next

\* Only a commit posts messages, and no step before it marks a row sent.
LEMMA PostedKept ==
  ASSUME Inv, [Next]_vars, \A w \in Worker : ~Commit(w)
  PROVE  /\ posted' = posted
         /\ \A r \in Row : rows[r].status = "sent" => rows'[r].status = "sent"
  <1>1. ASSUME NEW q \in Request, UserStep(q)
        PROVE  /\ posted' = posted
               /\ \A r \in Row : rows[r].status = "sent" => rows'[r].status = "sent"
    <2>1. posted' = posted
      BY Zenon, <1>1 DEF UserStep, ScheduleCheck, ScheduleCreate, Cancel, UpdateGet, UpdateWrite
    <2>2. Inv'
      BY Zenon, StepInv
    <2> QED BY <2>1, <2>2 DEF Inv, SentOnce
  <1>2. ASSUME NEW w \in Worker, Pass(w) \/ Fails(w)
        PROVE  rows' = rows /\ posted' = posted
    BY Zenon, <1>2 DEF Pass, ClaimDue, CheckRow, Deliver, SendRow, SendRefused, SendFails, Return, Fails, AuthorizeFails, DbError, Crash
  <1>3. ASSUME \/ \E a \in Att : UseUpload(a) \/ ReapUnlinked(a)
               \/ \E c \in Chat, g \in Gates : ChangeGate(c, g)
               \/ Deactivate \/ Tick \/ UNCHANGED vars
        PROVE  rows' = rows /\ posted' = posted
    BY Zenon, <1>3 DEF UseUpload, ReapUnlinked, ChangeGate, Deactivate, Tick, vars
  <1> QED BY Zenon, <1>1, <1>2, <1>3 DEF Next

\* Nothing is delivered that is not committed, and nothing twice.
LEMMA DeliveryStep == Inv /\ DeliveryInv /\ [Next]_vars => DeliveryInv'
  <1> SUFFICES ASSUME Inv, DeliveryInv, [Next]_vars PROVE DeliveryInv'
    BY Zenon
  <1>0. /\ \A r \in Row : Len(posted[r]) \in Nat /\ delivered[r] \in Nat
        /\ \A r \in Row : Len(posted[r]) = IF rows[r].status = "sent" THEN 1 ELSE 0
    BY DEF Inv, TypeOK, SentOnce
  <1>1. ASSUME NEW w \in Worker, NEW r \in Row, Deliver(w, r) PROVE DeliveryInv'
    <2>1. /\ rows' = rows /\ posted' = posted /\ r \in work[w].out
          /\ delivered'[r] = delivered[r] + 1
          /\ \A o \in Row \ {r} : delivered'[o] = delivered[o]
      BY Zenon, <1>1 DEF Deliver, Inv, TypeOK
    <2>2. /\ work'[w].out = work[w].out \ {r}
          /\ \A v \in Worker \ {w} : work'[v] = work[v]
      BY Zenon, <1>1 DEF Deliver, Inv, TypeOK, WorkType
    <2>3. delivered[r] = 0 /\ Len(posted[r]) = 1 /\ \A v \in Worker : r \notin work'[v].out
      BY Zenon, <1>0, <2>1, <2>2 DEF DeliveryInv
    <2>4. \A v \in Worker : work'[v].out \subseteq work[v].out
      BY Zenon, <2>2
    <2>5. delivered'[r] <= Len(posted'[r])
      BY <2>1, <2>3
    <2>6. \A o \in Row : delivered'[o] <= Len(posted'[o])
      BY Zenon, <2>1, <2>5 DEF DeliveryInv
    <2>7. \A o \in Row, x \in Worker : o \in work'[x].out =>
            o # r /\ \A v \in Worker : v # x => o \notin work'[v].out
      BY <2>3, <2>4 DEF DeliveryInv
    <2> QED BY Zenon, <2>1, <2>4, <2>6, <2>7 DEF DeliveryInv
  <1>2. ASSUME NEW w \in Worker, Commit(w) PROVE DeliveryInv'
    <2>1. \A r \in Row : InTx(w, r) => rows[r].status = "pending" /\ Len(posted[r]) = 0
      BY Zenon DEF Inv, TxInv, Owned, Claimed, SentOnce
    <2>2. /\ delivered' = delivered
          /\ work'[w].out = {r \in Row : work[w].sent[r] # None}
          /\ \A v \in Worker \ {w} : work'[v] = work[v]
      <3>1. delivered' = delivered /\ \A v \in Worker \ {w} : work'[v] = work[v]
        BY Zenon, <1>2 DEF Commit, Inv, TypeOK
      <3>2. work'[w] = [Resting EXCEPT !.pc = "deliver", !.out = {r \in Row : work[w].sent[r] # None}]
        BY Zenon, <1>2 DEF Commit, Inv, TypeOK
      <3> QED BY Zenon, <3>1, <3>2 DEF Resting
    <2>3. Inv'
      BY Zenon, StepInv
    <2>4. \A r \in Row : Len(posted'[r]) = IF work[w].sent[r] # None THEN Len(posted[r]) + 1 ELSE Len(posted[r])
      BY <1>2 DEF Commit, Inv, TypeOK, WorkType
    <2>5. \A r \in Row : Len(posted'[r]) = IF rows'[r].status = "sent" THEN 1 ELSE 0
      BY Zenon, <2>3 DEF Inv, SentOnce
    <2>6. ASSUME NEW r \in Row, work[w].sent[r] # None
          PROVE  rows'[r].status = "sent" /\ delivered[r] = 0 /\ \A v \in Worker : r \notin work[v].out
      BY <1>0, <2>1, <2>4, <2>5, <2>6 DEF DeliveryInv, InTx
    <2>7. ASSUME NEW r \in Row, NEW v \in Worker \ {w}, r \in work[v].out
          PROVE  rows'[r].status = "sent" /\ work[w].sent[r] = None
      BY <1>0, <2>4, <2>5, <2>6, <2>7 DEF DeliveryInv
    <2> SUFFICES ASSUME NEW r \in Row
                 PROVE  /\ delivered'[r] <= Len(posted'[r])
                        /\ \A x \in Worker : r \in work'[x].out =>
                             /\ rows'[r].status = "sent" /\ delivered'[r] = 0
                             /\ \A v \in Worker \ {x} : r \notin work'[v].out
      BY Zenon DEF DeliveryInv
    <2>8. delivered'[r] <= Len(posted'[r])
      BY SMTT(30), <1>0, <2>2, <2>4 DEF DeliveryInv
    <2>9. CASE work[w].sent[r] # None
      BY Zenon, <2>2, <2>6, <2>8, <2>9
    <2>10. CASE work[w].sent[r] = None
      BY <2>2, <2>7, <2>8, <2>10 DEF DeliveryInv
    <2> QED BY Zenon, <2>9, <2>10
  <1>3. ASSUME \A w \in Worker : ~Commit(w) /\ \A r \in Row : ~Deliver(w, r) PROVE DeliveryInv'
    <2>1. posted' = posted /\ \A r \in Row : rows[r].status = "sent" => rows'[r].status = "sent"
      BY Zenon, <1>3, PostedKept
    <2>2. \A v \in Worker : work'[v].out \subseteq work[v].out
      <3> SUFFICES ASSUME NEW v \in Worker PROVE work'[v].out \subseteq work[v].out
        BY Zenon
      <3>1. CASE SendRow(v)
        <4> DEFINE m == [body |-> work[v].due[work[v].cur].body, atts |-> Link(v, work[v].atts)]
                   k == [work[v] EXCEPT !.pc = "check", !.cur = None, !.atts = {},
                                        !.sent = [@ EXCEPT ![work[v].cur] = m]]
        <4>1. work'[v] = k /\ work[v] \in WorkType
          BY Zenon, <3>1 DEF SendRow, Inv, TypeOK
        <4> HIDE DEF m
        <4>2. work'[v].out = work[v].out
          BY Zenon, <4>1 DEF WorkType
        <4> QED BY Zenon, <4>2
      <3>2. CASE ~SendRow(v)
        BY Zenon, <1>3, <3>2, WorkKept
      <3> QED BY Zenon, <3>1, <3>2
    <2>3. delivered' = delivered
      <3>1. ASSUME NEW q \in Request, UserStep(q) PROVE delivered' = delivered
        BY Zenon, <3>1 DEF UserStep, ScheduleCheck, ScheduleCreate, Cancel, UpdateGet, UpdateWrite
      <3>2. ASSUME NEW w \in Worker, Pass(w) \/ Fails(w) PROVE delivered' = delivered
        BY Zenon, <1>3, <3>2 DEF Pass, ClaimDue, CheckRow, SendRow, SendRefused, SendFails, Return, Fails, AuthorizeFails, DbError, Crash
      <3>3. ASSUME \/ \E a \in Att : UseUpload(a) \/ ReapUnlinked(a)
                   \/ \E c \in Chat, g \in Gates : ChangeGate(c, g)
                   \/ Deactivate \/ Tick \/ UNCHANGED vars
            PROVE  delivered' = delivered
        BY Zenon, <3>3 DEF UseUpload, ReapUnlinked, ChangeGate, Deactivate, Tick, vars
      <3> QED BY Zenon, <3>1, <3>2, <3>3 DEF Next
    <2> QED BY Zenon, <2>1, <2>2, <2>3 DEF DeliveryInv
  <1> QED BY Zenon, <1>1, <1>2, <1>3

\* deliver publishes and pushes committed messages only, each once at most,
\* for any number of replicas and whatever crashes.
THEOREM DeliversOnce == Spec => []DeliveredOnce
  <1>1. Init => DeliveryInv
    BY DEF Init, DeliveryInv, Resting
  <1>2. DeliveryInv => DeliveredOnce
    BY Zenon DEF DeliveryInv, DeliveredOnce
  <1> QED BY <1>1, <1>2, InitInv, StepInv, DeliveryStep, PTL DEF Spec

\* The uploads of an open transaction, one by one.
LEMMA LinkedBinds ==
  ASSUME NEW w \in Worker, NEW a
  PROVE  a \in Linked(w) <=> \E r \in Row : Binds(w, r, a)
  BY SMTT(30) DEF Linked, Binds

\* A step that adds no message to a transaction, posts nothing and touches free
\* uploads only where no transaction has linked them.
LEMMA UploadFrame ==
  ASSUME UploadInv, posted' = posted,
         \A v \in Worker, r \in Row : work'[v].sent[r] \in {work[v].sent[r], None},
         \A a \in Att : att'[a] = att[a] \/ (att[a] = "free" /\ UploadUnlocked(a))
  PROVE  UploadInv'
  <1>1. \A w \in Worker, r \in Row, a \in Att : Binds(w, r, a)' => Binds(w, r, a)
    BY Zenon DEF Binds
  <1>2. \A w \in Worker, r \in Row, a \in Att : Binds(w, r, a) => ~UploadUnlocked(a)
    BY Zenon, LinkedBinds DEF UploadUnlocked
  <1>3. \A w \in Worker, r \in Row, a \in Att : Binds(w, r, a)' => att'[a] = "free"
    BY ZenonT(40), <1>1, <1>2 DEF UploadInv
  <1>4. \A r \in Row, a \in Att : \A i \in DOMAIN posted[r] : a \in posted[r][i].atts => att'[a] = "linked"
    BY SMTT(30) DEF UploadInv
  <1>5. \A w, v \in Worker, r, o \in Row, a \in Att : Binds(w, r, a)' /\ Binds(v, o, a)' => v = w /\ o = r
    BY SMTT(30), <1>1 DEF UploadInv
  <1>6. \A r, o \in Row, a \in Att : \A i \in DOMAIN posted[r], j \in DOMAIN posted[o] :
          a \in posted[r][i].atts /\ a \in posted[o][j].atts => o = r /\ j = i
    BY SMTT(30) DEF UploadInv
  <1> HIDE DEF Binds
  <1>7. ASSUME NEW w \in Worker, NEW r \in Row, NEW a \in Att, Binds(w, r, a)'
        PROVE  att'[a] = "free" /\ \A v \in Worker, o \in Row : Binds(v, o, a)' => v = w /\ o = r
    BY ZenonT(40), <1>3, <1>5, <1>7
  <1>8. ASSUME NEW r \in Row, NEW a \in Att, NEW i \in DOMAIN posted'[r], a \in posted'[r][i].atts
        PROVE  /\ att'[a] = "linked"
               /\ \A o \in Row : \A j \in DOMAIN posted'[o] : a \in posted'[o][j].atts => o = r /\ j = i
    <2>1. i \in DOMAIN posted[r] /\ a \in posted[r][i].atts
      BY Zenon, <1>8
    <2>2. att'[a] = "linked"
      BY Zenon, <1>4, <2>1
    <2>3. ASSUME NEW o \in Row, NEW j \in DOMAIN posted'[o], a \in posted'[o][j].atts
          PROVE  o = r /\ j = i
      <3>1. j \in DOMAIN posted[o] /\ a \in posted[o][j].atts
        BY Zenon, <2>3
      <3> QED BY SMTT(30), <1>6, <2>1, <3>1
    <2> QED BY Zenon, <2>2, <2>3
  <1> QED BY Zenon, <1>7, <1>8 DEF UploadInv

\* Link takes what is free and not yet linked by this transaction; what another
\* one has linked, the send waits for.
LEMMA UploadSend ==
  ASSUME Inv, UploadInv, NEW w \in Worker, SendRow(w)
  PROVE  UploadInv'
  <1> DEFINE r == work[w].cur
             m == [body |-> work[w].due[r].body, atts |-> Link(w, work[w].atts)]
             k == [work[w] EXCEPT !.pc = "check", !.cur = None, !.atts = {},
                                  !.sent = [@ EXCEPT ![r] = m]]
  <1>1. r \in Row /\ work[w] \in WorkType /\ m.atts = Link(w, work[w].atts)
    BY Zenon DEF SendRow, Inv, TxInv, TypeOK
  <1>2. posted' = posted /\ att' = att
    BY Zenon DEF SendRow, world
  <1>3. work'[w] = k /\ \A v \in Worker \ {w} : work'[v] = work[v]
    BY Zenon DEF SendRow, Inv, TypeOK
  <1> HIDE DEF m, r
  <1>4. k.sent = [work[w].sent EXCEPT ![r] = m] /\ work[w].sent \in [Row -> Message \cup {None}]
    BY Zenon, <1>1 DEF WorkType
  <1> HIDE DEF k
  <1>5. work'[w].sent[r] = m /\ \A o \in Row \ {r} : work'[w].sent[o] = work[w].sent[o]
    BY Zenon, <1>1, <1>3, <1>4
  <1>6. ASSUME NEW a \in m.atts
        PROVE  att[a] = "free" /\ \A v \in Worker, o \in Row : ~Binds(v, o, a)
    <2>1. att[a] = "free" /\ a \in work[w].atts /\ a \notin Linked(w)
      BY Zenon, <1>1 DEF Link, OwnedUnlinked
    <2>2. \A v \in Worker : a \notin Linked(v)
      BY Zenon, <2>1 DEF SendRow
    <2> QED BY Zenon, <2>1, <2>2, LinkedBinds
  <1>7. ASSUME NEW v \in Worker, NEW o \in Row, NEW a \in Att, Binds(v, o, a)'
        PROVE  (v = w /\ o = r /\ a \in m.atts) \/ Binds(v, o, a)
    BY Zenon, <1>3, <1>5, <1>7 DEF Binds
  <1>8. ASSUME NEW v \in Worker, NEW o \in Row, NEW a \in Att, Binds(v, o, a)'
        PROVE  att[a] = "free" /\ \A x \in Worker, p \in Row : Binds(x, p, a)' => x = v /\ p = o
    <2>1. CASE a \in m.atts
      BY SMTT(30), <1>6, <1>7, <1>8, <2>1
    <2>2. CASE a \notin m.atts
      BY SMTT(30), <1>7, <1>8, <2>2 DEF UploadInv
    <2> QED BY Zenon, <2>1, <2>2
  <1> QED BY <1>2, <1>8 DEF UploadInv

\* The commit links what the transaction holds to the messages it posts.
LEMMA UploadCommit ==
  ASSUME Inv, UploadInv, NEW w \in Worker, Commit(w)
  PROVE  UploadInv'
  <1>1. \A r \in Row : InTx(w, r) => posted[r] = <<>>
    BY SMTT(30) DEF Inv, TypeOK, TxInv, Owned, Claimed, SentOnce
  <1>2. \A r \in Row : work[w].sent[r] # None =>
          posted'[r] = <<work[w].sent[r]>> /\ DOMAIN posted'[r] = {1} /\ posted'[r][1] = work[w].sent[r]
    <2> SUFFICES ASSUME NEW r \in Row, work[w].sent[r] # None
                 PROVE  posted'[r] = <<work[w].sent[r]>> /\ DOMAIN posted'[r] = {1}
                        /\ posted'[r][1] = work[w].sent[r]
      BY Zenon
    <2>1. posted'[r] = Append(<<>>, work[w].sent[r])
      BY Zenon, <1>1 DEF Commit, InTx
    <2> QED BY <2>1
  <1>3. \A r \in Row : work[w].sent[r] = None => posted'[r] = posted[r]
    BY Zenon DEF Commit
  <1>4. \A a \in Att : att'[a] = IF a \in Linked(w) THEN "linked" ELSE att[a]
    BY Zenon DEF Commit
  <1>5. \A v \in Worker, r \in Row, a \in Att : Binds(v, r, a)' => v # w /\ Binds(v, r, a)
    <2>1. \A r \in Row : work'[w].sent[r] = None
      <3>1. work'[w] = [Resting EXCEPT !.pc = "deliver", !.out = {r \in Row : work[w].sent[r] # None}]
        BY Zenon DEF Commit, Inv, TypeOK
      <3>2. work'[w].sent = [r \in Row |-> None]
        BY Zenon, <3>1 DEF Resting
      <3> QED BY Zenon, <3>2
    <2>2. \A v \in Worker \ {w} : work'[v] = work[v]
      BY SMTT(30) DEF Commit, Inv, TypeOK
    <2> QED BY Zenon, <2>1, <2>2 DEF Binds
  <1>6. ASSUME NEW v \in Worker, NEW r \in Row, NEW a \in Att, Binds(v, r, a)'
        PROVE  att'[a] = "free" /\ \A x \in Worker, o \in Row : Binds(x, o, a)' => x = v /\ o = r
    BY <1>4, <1>5, <1>6, LinkedBinds DEF UploadInv
  <1>7. ASSUME NEW r \in Row, NEW a \in Att, NEW i \in DOMAIN posted'[r], a \in posted'[r][i].atts
        PROVE  \/ Binds(w, r, a) /\ i = 1
               \/ work[w].sent[r] = None /\ i \in DOMAIN posted[r] /\ a \in posted[r][i].atts /\ att[a] = "linked"
    <2>1. CASE work[w].sent[r] # None
      BY SMTT(30), <1>2, <1>7, <2>1 DEF Binds
    <2>2. CASE work[w].sent[r] = None
      BY SMTT(30), <1>3, <1>7, <2>2 DEF UploadInv
    <2> QED BY Zenon, <2>1, <2>2
  <1>8. ASSUME NEW r \in Row, NEW a \in Att, NEW i \in DOMAIN posted'[r], a \in posted'[r][i].atts
        PROVE  att'[a] = "linked"
    BY Zenon, <1>4, <1>7, <1>8, LinkedBinds
  <1>9. ASSUME NEW r \in Row, NEW a \in Att, NEW i \in DOMAIN posted'[r], a \in posted'[r][i].atts,
               NEW o \in Row, NEW j \in DOMAIN posted'[o], a \in posted'[o][j].atts
        PROVE  o = r /\ j = i
    <2>1. \/ Binds(w, r, a) /\ i = 1 /\ att[a] = "free"
          \/ i \in DOMAIN posted[r] /\ a \in posted[r][i].atts /\ att[a] = "linked"
      BY SMTT(30), <1>7, <1>9 DEF UploadInv
    <2>2. \/ Binds(w, o, a) /\ j = 1 /\ att[a] = "free"
          \/ j \in DOMAIN posted[o] /\ a \in posted[o][j].atts /\ att[a] = "linked"
      BY SMTT(30), <1>7, <1>9 DEF UploadInv
    <2>3. CASE att[a] = "free"
      <3>1. Binds(w, r, a) /\ i = 1 /\ Binds(w, o, a) /\ j = 1
        BY Zenon, <2>1, <2>2, <2>3
      <3> QED BY <3>1 DEF UploadInv
    <2>4. CASE att[a] = "linked"
      <3>1. /\ i \in DOMAIN posted[r] /\ a \in posted[r][i].atts
            /\ j \in DOMAIN posted[o] /\ a \in posted[o][j].atts
        BY Zenon, <2>1, <2>2, <2>4
      <3> QED BY SMTT(30), <3>1 DEF UploadInv
    <2> QED BY SMTT(30), <2>1, <2>3, <2>4
  <1> QED BY SMTT(30), <1>6, <1>8, <1>9 DEF UploadInv

\* Every step keeps it.
LEMMA UploadStep == Inv /\ UploadInv /\ [Next]_vars => UploadInv'
  <1> SUFFICES ASSUME Inv, UploadInv, [Next]_vars PROVE UploadInv'
    BY Zenon
  <1>1. ASSUME \A w \in Worker : ~SendRow(w) /\ ~Commit(w) PROVE UploadInv'
    <2>1. posted' = posted /\ \A v \in Worker, r \in Row : work'[v].sent[r] \in {work[v].sent[r], None}
      BY Zenon, <1>1, PostedKept, WorkKept
    <2>2. \A a \in Att : att'[a] = att[a] \/ (att[a] = "free" /\ UploadUnlocked(a))
      <3>1. ASSUME NEW b \in Att, UseUpload(b) \/ ReapUnlinked(b), NEW a \in Att
            PROVE  att'[a] = att[a] \/ (att[a] = "free" /\ UploadUnlocked(a))
        BY Zenon, <3>1 DEF UseUpload, ReapUnlinked, Inv, TypeOK
      <3>2. ASSUME NEW q \in Request, UserStep(q) PROVE att' = att
        BY Zenon, <3>2 DEF UserStep, ScheduleCheck, ScheduleCreate, Cancel, UpdateGet, UpdateWrite, world
      <3>3. ASSUME NEW w \in Worker, Pass(w) \/ Fails(w) PROVE att' = att
        BY Zenon, <1>1, <3>3 DEF Pass, ClaimDue, CheckRow, Deliver, SendRefused, SendFails, Return, Fails, AuthorizeFails, DbError, Crash, world
      <3>4. ASSUME \/ \E c \in Chat, g \in Gates : ChangeGate(c, g)
                   \/ Deactivate \/ Tick \/ UNCHANGED vars
            PROVE  att' = att
        BY Zenon, <3>4 DEF ChangeGate, Deactivate, Tick, vars
      <3> QED BY ZenonT(40), <3>1, <3>2, <3>3, <3>4 DEF Next
    <2> QED BY ZenonT(40), <2>1, <2>2, UploadFrame
  <1> QED BY ZenonT(40), <1>1, UploadSend, UploadCommit

\* attachments.Link binds an upload to one message at most, however many
\* replicas send rows with the same upload at the same time.
THEOREM UploadsOnce == Spec => []UploadInOneMessage
  <1>1. ASSUME Init PROVE UploadInv
    <2>1. \A w \in Worker, r \in Row, a \in Att : ~Binds(w, r, a)
      <3>1. \A w \in Worker, r \in Row : work[w].sent[r] = None
        BY Zenon, <1>1 DEF Init, Resting
      <3> QED BY ZenonT(40), <3>1 DEF Binds
    <2>2. \A r \in Row : DOMAIN posted[r] = {}
      BY <1>1 DEF Init
    <2> QED BY ZenonT(40), <2>1, <2>2 DEF UploadInv
  <1>2. TypeOK /\ UploadInv => UploadInOneMessage
    <2> SUFFICES ASSUME TypeOK, UploadInv, NEW r \in Row, NEW o \in Row,
                        NEW i \in DOMAIN posted[r], NEW j \in DOMAIN posted[o]
                 PROVE  /\ \A a \in posted[r][i].atts : att[a] = "linked"
                        /\ <<r, i>> # <<o, j>> => posted[r][i].atts \cap posted[o][j].atts = {}
      BY Zenon DEF UploadInOneMessage
    <2>1. posted[r][i].atts \subseteq Att
      <3>1. posted[r] \in Seq(Message) /\ posted[r][i] \in Message
        BY DEF TypeOK
      <3> QED BY Zenon, <3>1 DEF Message
    <2>2. \A a \in posted[r][i].atts : att[a] = "linked"
      BY ZenonT(40), <2>1 DEF UploadInv
    <2>3. ASSUME NEW a \in posted[r][i].atts, a \in posted[o][j].atts PROVE <<r, i>> = <<o, j>>
      BY <2>1, <2>3 DEF UploadInv
    <2> QED BY Zenon, <2>2, <2>3
  <1>3. Inv => TypeOK
    BY Zenon DEF Inv
  <1> QED BY <1>1, <1>2, <1>3, InitInv, StepInv, UploadStep, PTL DEF Spec

-----------------------------------------------------------------------------
(* The cap on pending rows *)

INSTANCE FiniteSetTheorems

\* The sets that are counted are finite.
LEMMA CapFinite ==
  /\ IsFiniteSet(Pending) /\ IsFiniteSet(Creating)
  /\ Cardinality(Pending) \in Nat /\ Cardinality(Creating) \in Nat
  /\ Cardinality(Request) \in Nat /\ Cardinality(Request) > 0
  <1>1. Pending \subseteq Row /\ Creating \subseteq Request
    BY Zenon DEF Pending, Creating
  <1>2. IsFiniteSet(Pending) /\ IsFiniteSet(Creating)
    BY Zenon, <1>1, FS_Subset, ScheduledAssumption
  <1>3. Cardinality(Request) # 0
    BY Zenon, FS_EmptySet, ScheduledAssumption
  <1> QED BY SMTT(30), <1>2, <1>3, FS_CardinalityType, ScheduledAssumption

\* Neither set grows.
LEMMA CapFrame ==
  ASSUME CapInv, Pending' \subseteq Pending, Creating' \subseteq Creating
  PROVE  CapInv'
  <1>1. /\ Cardinality(Pending') \in Nat /\ Cardinality(Pending') <= Cardinality(Pending)
        /\ Cardinality(Creating') \in Nat /\ Cardinality(Creating') <= Cardinality(Creating)
    BY Zenon, CapFinite, FS_Subset, FS_CardinalityType
  <1> QED BY SMTT(30), <1>1, CapFinite, ScheduledAssumption DEF CapInv

\* At most every request has counted, each below the cap.
LEMMA CapCheck ==
  ASSUME NEW q \in Request, NEW c, NEW b, NEW A, NEW t, ScheduleCheck(q, c, b, A, t)
  PROVE  CapInv'
  <1>1. Pending' = Pending /\ Cardinality(Pending) < MaxPending
    BY Zenon DEF ScheduleCheck, Pending
  <1>2. Creating' \subseteq Request
    BY Zenon DEF Creating
  <1>3. Cardinality(Creating') \in Nat /\ Cardinality(Creating') <= Cardinality(Request)
    BY SMTT(30), <1>2, FS_Subset, FS_CardinalityType, ScheduledAssumption
  <1> QED BY SMTT(30), <1>1, <1>3, CapFinite, ScheduledAssumption DEF CapInv

\* An insert is paid for by the request that makes it.
LEMMA CapCreate ==
  ASSUME TypeOK, CapInv, NEW q \in Request, NEW r \in Row, ScheduleCreate(q, r)
  PROVE  CapInv'
  <1>1. Pending' = Pending \cup {r}
    BY SMTT(30) DEF ScheduleCreate, Pending, TypeOK
  <1>2. q \in Creating /\ Creating' = Creating \ {q}
    BY Zenon DEF ScheduleCreate, Creating, TypeOK, NoReq
  <1>3. /\ Cardinality(Pending') \in Nat /\ Cardinality(Pending') <= Cardinality(Pending) + 1
    <2>1. /\ IsFiniteSet(Pending \cup {r})
          /\ \/ Cardinality(Pending \cup {r}) = Cardinality(Pending)
             \/ Cardinality(Pending \cup {r}) = Cardinality(Pending) + 1
      BY Zenon, CapFinite, FS_AddElement
    <2> QED BY <1>1, <2>1, CapFinite
  <1>4. Cardinality(Creating') = Cardinality(Creating) - 1
    BY Zenon, <1>2, CapFinite, FS_RemoveElement
  <1> QED BY SMTT(30), <1>3, <1>4, CapFinite, ScheduledAssumption DEF CapInv

\* Every step keeps the bound.
LEMMA CapStep == Inv /\ CapInv /\ [Next]_vars => CapInv'
  <1> SUFFICES ASSUME Inv, CapInv, [Next]_vars PROVE CapInv'
    BY Zenon
  <1>1. ASSUME NEW q \in Request, UserStep(q) PROVE CapInv'
    <2>1. ASSUME NEW r \in Row, Cancel(q, r) PROVE CapInv'
      <3>1. Pending' \subseteq Pending /\ Creating' \subseteq Creating
        BY SMTT(30), <2>1 DEF Cancel, Pending, Creating, Inv, TypeOK, NoRow
      <3> QED BY Zenon, <3>1, CapFrame
    <2>2. ASSUME NEW r \in Row, NEW b, NEW t, UpdateGet(q, r, b, t) PROVE CapInv'
      <3>1. Pending' \subseteq Pending /\ Creating' \subseteq Creating
        BY Zenon, <2>2 DEF UpdateGet, Pending, Creating, Inv, TypeOK
      <3> QED BY Zenon, <3>1, CapFrame
    <2>3. ASSUME UpdateWrite(q) PROVE CapInv'
      <3>1. Creating' \subseteq Creating
        BY Zenon, <2>3 DEF UpdateWrite, Creating, Inv, TypeOK, NoReq
      <3>2. Pending' \subseteq Pending
        BY SMTT(30), <2>3 DEF UpdateWrite, Pending, Inv, TypeOK, RowType
      <3> QED BY Zenon, <3>1, <3>2, CapFrame
    <2>4. TypeOK
      BY SMTT(30) DEF Inv
    <2> QED BY Zenon, <1>1, <2>1, <2>2, <2>3, <2>4, CapCheck, CapCreate DEF UserStep
  <1>2. ASSUME rows' = rows, req' = req PROVE CapInv'
    BY Zenon, <1>2, CapFrame DEF Pending, Creating
  <1>3. ASSUME NEW w \in Worker, Commit(w) PROVE CapInv'
    <2>1. Creating' = Creating
      BY Zenon, <1>3 DEF Commit, Creating
    <2>2. Pending' \subseteq Pending
      <3> SUFFICES ASSUME NEW r \in Row, rows'[r].status = "pending" PROVE rows[r].status = "pending"
        BY Zenon DEF Pending
      <3>1. rows[r] \in RowType
        BY Zenon DEF Inv, TypeOK
      <3>2. /\ [rows[r] EXCEPT !.status = "sent", !.body = None, !.atts = {}].status # "pending"
            /\ [rows[r] EXCEPT !.status = "canceled", !.body = None, !.atts = {}].status # "pending"
        BY Zenon, <3>1 DEF RowType
      <3> QED BY Zenon, <1>3, <3>2 DEF Commit, Settled
    <2> QED BY Zenon, <2>1, <2>2, CapFrame
  <1>4. ASSUME NEW w \in Worker, Pass(w) \/ Fails(w), ~Commit(w)
        PROVE  rows' = rows /\ req' = req
    BY Zenon, <1>4 DEF Pass, ClaimDue, CheckRow, Deliver, SendRow, SendRefused, SendFails, Return, Fails, AuthorizeFails, DbError, Crash
  <1>5. ASSUME \/ \E a \in Att : UseUpload(a) \/ ReapUnlinked(a)
               \/ \E c \in Chat, g \in Gates : ChangeGate(c, g)
               \/ Deactivate \/ Tick \/ UNCHANGED vars
        PROVE  rows' = rows /\ req' = req
    BY Zenon, <1>5 DEF UseUpload, ReapUnlinked, ChangeGate, Deactivate, Tick, vars
  <1> QED BY Zenon, <1>1, <1>2, <1>3, <1>4, <1>5 DEF Next

\* Every variable of the scheduled-message service keeps its type.
THEOREM TypeCorrect == Spec => []TypeOK
  <1>1. Inv => TypeOK
    BY Zenon DEF Inv
  <1> QED BY InitInv, StepInv, <1>1, PTL DEF Spec

\* Schedule's cap holds up to the number of concurrent requests.
THEOREM CapKept == Spec => []PendingCap
  <1>1. Init => CapInv
    <2> SUFFICES ASSUME Init PROVE CapInv
      BY Zenon
    <2>1. Pending = {} /\ Creating = {}
      BY Zenon DEF Init, Pending, Creating, NoRow, NoReq
    <2> QED BY SMTT(30), <2>1, FS_EmptySet, CapFinite, ScheduledAssumption DEF CapInv
  <1>2. CapInv => PendingCap
    BY CapFinite, ScheduledAssumption DEF CapInv, PendingCap
  <1> QED BY <1>1, <1>2, InitInv, StepInv, CapStep, PTL DEF Spec
=============================================================================
