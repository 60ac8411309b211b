----------------------------- MODULE Scheduled ------------------------------
(***************************************************************************)
(* Scheduled messages: backend/internal/scheduled, with the part of the    *)
(* send path it goes through (messages.Service.SendTx, attachments.Link)   *)
(* and the reaper of unlinked uploads.  Rows of one sender; several        *)
(* backend replicas run the worker.  Postgres runs READ COMMITTED: what a  *)
(* worker writes in its transaction becomes visible when it commits, and   *)
(* the rows it claimed FOR UPDATE stay locked until then.                  *)
(***************************************************************************)
EXTENDS Naturals, FiniteSets, Sequences

CONSTANTS
  Row,         \* ids of scheduled_messages rows
  Chat,
  Att,         \* ids of the sender's uploads
  Body,        \* non-empty texts or ciphertexts
  Worker,      \* replicas that run StartWorker
  Request,     \* requests of the sender that may run at the same time
  Gates,       \* what a chat may become for the sender (see gate)
  Batch,       \* rows claimed at once (50 in the code)
  MaxPending,  \* pending rows allowed per sender (100 in the code)
  MinDelay,    \* clock units a message is put off for at least
  MaxTime,     \* bound on the clock
  MaxFaults,   \* bound on crashes and database errors
  None

Gate == {"open", "left", "refused", "blocked"}

ASSUME ScheduledAssumption ==
  /\ IsFiniteSet(Row) /\ IsFiniteSet(Request) /\ Request # {}
  /\ None \notin Worker /\ None \notin Row /\ None \notin Body /\ "keep" \notin Body /\ None # "keep"
  /\ Gates \subseteq Gate
  /\ Batch \in Nat \ {0} /\ MaxPending \in Nat \ {0}
  /\ MinDelay \in Nat /\ MaxTime \in Nat /\ MaxFaults \in Nat

VARIABLES
  rows,       \* [Row -> scheduled_messages row], status "none" for no row yet
  posted,     \* [Row -> Seq], the messages rows whose scheduled_message_id is the row
  att,        \* [Att -> {"free", "linked", "reaped"}], attachments.message_id
  gate,       \* [Chat -> Gate]: left, the chat is closed to the sender; refused,
              \* they may read and not post; blocked, one side blocked the other
  active,     \* users.is_active of the sender
  lockedBy,   \* [Row -> the worker that claimed it FOR UPDATE]
  delivered,  \* [Row -> how often its message was published and pushed]
  work,       \* [Worker -> local state of ProcessDue and its transaction]
  req,        \* [Request -> local state of Schedule or Update]
  clock,
  faults

vars == <<rows, posted, att, gate, active, lockedBy, delivered, work, req, clock, faults>>
world == <<att, gate, active, clock, faults>>

Status  == {"none", "pending", "sent", "canceled", "dropped"}
Content == Body \cup {None}
Message == [body : Content, atts : SUBSET Att]

RowType  == [status : Status, chat : Chat \cup {None}, body : Content, atts : SUBSET Att, sendAt : Nat]
\* due is what ClaimDue read, sent the messages inserted in the open transaction.
WorkType == [pc : {"idle", "check", "send", "deliver"}, due : [Row -> RowType], todo : SUBSET Row,
             cur : Row \cup {None}, atts : SUBSET Att, sent : [Row -> Message \cup {None}],
             canceled : SUBSET Row, out : SUBSET Row]
ReqType  == [pc : {"idle", "create", "write"}, row : Row \cup {None}, chat : Chat \cup {None},
             body : Content, atts : SUBSET Att, sendAt : Nat]

NoRow   == [status |-> "none", chat |-> None, body |-> None, atts |-> {}, sendAt |-> 0]
Resting == [pc |-> "idle", due |-> [r \in Row |-> NoRow], todo |-> {}, cur |-> None, atts |-> {},
            sent |-> [r \in Row |-> None], canceled |-> {}, out |-> {}]
NoReq   == [pc |-> "idle", row |-> None, chat |-> None, body |-> None,
            atts |-> {}, sendAt |-> 0]

TypeOK ==
  /\ rows \in [Row -> RowType]
  /\ posted \in [Row -> Seq(Message)]
  /\ att \in [Att -> {"free", "linked", "reaped"}]
  /\ gate \in [Chat -> Gate]
  /\ active \in BOOLEAN
  /\ lockedBy \in [Row -> Worker \cup {None}]
  /\ delivered \in [Row -> Nat]
  /\ work \in [Worker -> WorkType]
  /\ req \in [Request -> ReqType]
  /\ clock \in Nat /\ faults \in Nat

Init ==
  /\ rows = [r \in Row |-> NoRow]
  /\ posted = [r \in Row |-> <<>>]
  /\ att = [a \in Att |-> "free"]
  /\ gate = [c \in Chat |-> "open"]
  /\ active = TRUE
  /\ lockedBy = [r \in Row |-> None]
  /\ delivered = [r \in Row |-> 0]
  /\ work = [w \in Worker |-> Resting]
  /\ req = [q \in Request |-> NoReq]
  /\ clock = 0 /\ faults = 0

Pending == {r \in Row : rows[r].status = "pending"}

\* OwnedUnlinked: the filter reads through the pool, so it sees committed links only.
OwnedUnlinked(A) == {a \in A : att[a] = "free"}

\* validateContent: the rules on the form of a body were met when it was
\* saved; what can change is whether anything is left to send.
Sendable(body, A) == body # None \/ A # {}

-----------------------------------------------------------------------------
(* The sender's requests *)

ValidSendAt(t) == clock + MinDelay <= t /\ t <= MaxTime

\* Schedule up to its count of the pending rows.
ScheduleCheck(q, c, b, A, t) ==
  /\ req[q].pc = "idle"
  /\ Sendable(b, A) /\ ValidSendAt(t)
  /\ active /\ gate[c] # "left"
  /\ OwnedUnlinked(A) = A
  /\ Cardinality(Pending) < MaxPending
  /\ req' = [req EXCEPT ![q] = [pc |-> "create", row |-> None, chat |-> c, body |-> b,
                                atts |-> A, sendAt |-> t]]
  /\ UNCHANGED <<rows, posted, lockedBy, delivered, work, world>>

\* Its INSERT.
ScheduleCreate(q, r) ==
  /\ req[q].pc = "create"
  /\ rows[r].status = "none"
  /\ rows' = [rows EXCEPT ![r] = [status |-> "pending", chat |-> req[q].chat, body |-> req[q].body,
                                  atts |-> req[q].atts, sendAt |-> req[q].sendAt]]
  /\ req' = [req EXCEPT ![q] = NoReq]
  /\ UNCHANGED <<posted, lockedBy, delivered, work, world>>

\* The body an edit will write over the one it read: "keep" for an absent field.
Edited(old, b) == IF b = "keep" THEN old ELSE b

\* Update reads the pending row and applies the edit to its copy; t = 0 for
\* an absent send time.
UpdateGet(q, r, b, t) ==
  /\ req[q].pc = "idle" /\ active
  /\ r \in Pending
  /\ b # "keep" => Sendable(b, rows[r].atts)
  /\ t # 0 => ValidSendAt(t)
  /\ req' = [req EXCEPT ![q] = [pc |-> "write", row |-> r, chat |-> None,
                                body |-> Edited(rows[r].body, b), atts |-> {},
                                sendAt |-> IF t = 0 THEN rows[r].sendAt ELSE t]]
  /\ UNCHANGED <<rows, posted, lockedBy, delivered, work, world>>

\* A statement on a claimed row waits for the worker's transaction.
Unlocked(r) == lockedBy[r] = None

\* Its UPDATE, which finds nothing once the row is no longer pending.
UpdateWrite(q) ==
  LET r == req[q].row IN
  /\ req[q].pc = "write"
  /\ Unlocked(r)
  /\ rows' = IF r \in Pending
             THEN [rows EXCEPT ![r].body = req[q].body, ![r].sendAt = req[q].sendAt]
             ELSE rows
  /\ req' = [req EXCEPT ![q] = NoReq]
  /\ UNCHANGED <<posted, lockedBy, delivered, work, world>>

\* Cancel, by a request that is not in the middle of another call.
Cancel(q, r) ==
  /\ req[q].pc = "idle" /\ active
  /\ r \in Pending /\ Unlocked(r)
  /\ rows' = [rows EXCEPT ![r] = [NoRow EXCEPT !.status = "dropped"]]
  /\ UNCHANGED <<posted, lockedBy, delivered, work, req, world>>

-----------------------------------------------------------------------------
(* The worker *)

\* Mutant: a worker claims rows another one holds.
ClaimableHeld == {r \in Pending : rows[r].sendAt <= clock}

\* The rows ClaimDue may take: due, and skipping the locked ones.
Claimable == {r \in Pending : rows[r].sendAt <= clock /\ Unlocked(r)}

\* ORDER BY send_at LIMIT batch.
Claims(S) ==
  /\ S \subseteq Claimable
  /\ Cardinality(S) = IF Cardinality(Claimable) < Batch THEN Cardinality(Claimable) ELSE Batch
  /\ \A r \in S, o \in Claimable \ S : rows[r].sendAt <= rows[o].sendAt

ClaimDue(w, S) ==
  /\ work[w].pc = "idle"
  /\ S # {} /\ Claims(S)
  /\ lockedBy' = [r \in Row |-> IF r \in S THEN w ELSE lockedBy[r]]
  /\ work' = [work EXCEPT ![w].pc = "check", ![w].todo = S,
                          ![w].due = [r \in Row |-> IF r \in S THEN rows[r] ELSE NoRow]]
  /\ UNCHANGED <<rows, posted, delivered, req, world>>

\* The rows come ordered by send_at, and the loop takes them in that order.
First(w, r) ==
  /\ r \in work[w].todo
  /\ \A o \in work[w].todo : work[w].due[r].sendAt <= work[w].due[o].sendAt

\* MarkCanceled in the open transaction, then on to the next row.
CancelRow(w, r) ==
  work' = [work EXCEPT ![w].pc = "check", ![w].todo = @ \ {r}, ![w].cur = None, ![w].atts = {},
                       ![w].canceled = @ \cup {r}]

\* The tests of ProcessDue: the sender's state, their access to the chat and
\* the uploads that are still there.
CheckRow(w, r) ==
  LET row == work[w].due[r]
      A   == OwnedUnlinked(row.atts) IN
  /\ work[w].pc = "check" /\ First(w, r)
  /\ IF active /\ gate[row.chat] # "left" /\ Sendable(row.body, A)
     THEN work' = [work EXCEPT ![w].pc = "send", ![w].todo = @ \ {r}, ![w].cur = r, ![w].atts = A]
     ELSE CancelRow(w, r)
  /\ UNCHANGED <<rows, posted, lockedBy, delivered, req, world>>

\* authorize reads through the pool, and any error of it cancels the row: one
\* of the database as well as a refusal.
AuthorizeFails(w, r) ==
  /\ work[w].pc = "check" /\ First(w, r)
  /\ active /\ faults < MaxFaults
  /\ faults' = faults + 1
  /\ CancelRow(w, r)
  /\ UNCHANGED <<rows, posted, att, gate, active, lockedBy, delivered, req, clock>>

\* The chat of the row being sent.
ChatGate(w) == gate[work[w].due[work[w].cur].chat]

\* The uploads linked in w's open transaction.
Linked(w) == UNION {work[w].sent[r].atts : r \in {o \in Row : work[w].sent[o] # None}}

\* Mutant: uploads linked before are linked again.
LinkAgain(w, A) == A

\* attachments.Link binds what is still unlinked, its own transaction's
\* links included, and does not report what it left out.
Link(w, A) == OwnedUnlinked(A) \ Linked(w)

\* Mutant: deliver runs before the commit.
SendRowDelivers(w) ==
  LET r == work[w].cur IN
  /\ work[w].pc = "send" /\ ChatGate(w) = "open"
  /\ \A v \in Worker \ {w} : Linked(v) \cap work[w].atts = {}
  /\ work' = [work EXCEPT ![w].pc = "check", ![w].cur = None, ![w].atts = {},
                          ![w].sent = [@ EXCEPT ![r] = [body |-> work[w].due[r].body,
                                                        atts |-> Link(w, work[w].atts)]]]
  /\ delivered' = [delivered EXCEPT ![r] = @ + 1]
  /\ UNCHANGED <<rows, posted, lockedBy, req, world>>

\* SendTx and MarkSent: the message is inserted in the worker's transaction.
\* An upload another transaction has linked makes Link wait for its end.
SendRow(w) ==
  LET r == work[w].cur IN
  /\ work[w].pc = "send" /\ ChatGate(w) = "open"
  /\ \A v \in Worker \ {w} : Linked(v) \cap work[w].atts = {}
  /\ work' = [work EXCEPT ![w].pc = "check", ![w].cur = None, ![w].atts = {},
                          ![w].sent = [@ EXCEPT ![r] = [body |-> work[w].due[r].body,
                                                        atts |-> Link(w, work[w].atts)]]]
  /\ UNCHANGED <<rows, posted, lockedBy, delivered, req, world>>

\* Mutant: ErrForbidden is missing from the switch.
RefusalShort == {"left"}

\* The refusals of SendTx that ProcessDue cancels on.
Refusal == {"left", "refused"}

SendRefused(w) ==
  /\ work[w].pc = "send" /\ ChatGate(w) \in Refusal
  /\ CancelRow(w, work[w].cur)
  /\ UNCHANGED <<rows, posted, lockedBy, delivered, req, world>>

\* The transaction is rolled back and its claims are released.
Rollback(w) ==
  /\ lockedBy' = [r \in Row |-> IF lockedBy[r] = w THEN None ELSE lockedBy[r]]
  /\ work' = [work EXCEPT ![w] = Resting]

\* Every other error of SendTx, ErrBlocked among them, ends the batch.
SendFails(w) ==
  /\ work[w].pc = "send" /\ ChatGate(w) \in Gate \ (Refusal \cup {"open"})
  /\ Rollback(w)
  /\ UNCHANGED <<rows, posted, delivered, req, world>>

\* Any other database error of the batch, a deadlock Postgres breaks included.
DbError(w) ==
  /\ work[w].pc \in {"check", "send"} /\ faults < MaxFaults
  /\ faults' = faults + 1
  /\ Rollback(w)
  /\ UNCHANGED <<rows, posted, att, gate, active, delivered, req, clock>>

\* The process dies: an open transaction is rolled back, what was not yet
\* delivered is not delivered any more.
Crash(w) ==
  /\ work[w].pc # "idle" /\ faults < MaxFaults
  /\ faults' = faults + 1
  /\ Rollback(w)
  /\ UNCHANGED <<rows, posted, att, gate, active, delivered, req, clock>>

\* The rows as MarkSent and MarkCanceled leave them: the content is dropped.
Settled(w) ==
  [r \in Row |-> IF work[w].sent[r] # None THEN [rows[r] EXCEPT !.status = "sent", !.body = None, !.atts = {}]
                 ELSE IF r \in work[w].canceled
                 THEN [rows[r] EXCEPT !.status = "canceled", !.body = None, !.atts = {}]
                 ELSE rows[r]]

Commit(w) ==
  /\ work[w].pc = "check" /\ work[w].todo = {}
  /\ rows' = Settled(w)
  /\ posted' = [r \in Row |-> IF work[w].sent[r] # None THEN Append(posted[r], work[w].sent[r])
                              ELSE posted[r]]
  /\ att' = [a \in Att |-> IF a \in Linked(w) THEN "linked" ELSE att[a]]
  /\ lockedBy' = [r \in Row |-> IF lockedBy[r] = w THEN None ELSE lockedBy[r]]
  /\ work' = [work EXCEPT ![w] = [Resting EXCEPT !.pc = "deliver",
                                  !.out = {r \in Row : work[w].sent[r] # None}]]
  /\ UNCHANGED <<delivered, req, gate, active, clock, faults>>

\* deliver: publish, push and index, one message after the other.
Deliver(w, r) ==
  /\ work[w].pc = "deliver" /\ r \in work[w].out
  /\ delivered' = [delivered EXCEPT ![r] = @ + 1]
  /\ work' = [work EXCEPT ![w].out = @ \ {r}]
  /\ UNCHANGED <<rows, posted, lockedBy, req, world>>

Return(w) ==
  /\ work[w].pc = "deliver" /\ work[w].out = {}
  /\ work' = [work EXCEPT ![w].pc = "idle"]
  /\ UNCHANGED <<rows, posted, lockedBy, delivered, req, world>>

-----------------------------------------------------------------------------
(* The rest of the system *)

\* A statement on an upload waits for a transaction that has linked it.
UploadUnlocked(a) == \A w \in Worker : a \notin Linked(w)

\* The sender attaches the upload to a message they send at once.
UseUpload(a) ==
  /\ att[a] = "free" /\ UploadUnlocked(a)
  /\ att' = [att EXCEPT ![a] = "linked"]
  /\ UNCHANGED <<rows, posted, gate, active, lockedBy, delivered, work, req, clock, faults>>

\* ReapUnlinked, of an upload old enough.
ReapUnlinked(a) ==
  /\ att[a] = "free" /\ UploadUnlocked(a)
  /\ \A r \in Pending : a \notin rows[r].atts
  /\ att' = [att EXCEPT ![a] = "reaped"]
  /\ UNCHANGED <<rows, posted, gate, active, lockedBy, delivered, work, req, clock, faults>>

\* A member leaves or comes back, the post policy changes, one side blocks the other.
ChangeGate(c, g) ==
  /\ gate' = [gate EXCEPT ![c] = g]
  /\ UNCHANGED <<rows, posted, att, active, lockedBy, delivered, work, req, clock, faults>>

\* The account is deactivated.
Deactivate ==
  /\ active /\ active' = FALSE
  /\ UNCHANGED <<rows, posted, att, gate, lockedBy, delivered, work, req, clock, faults>>

Tick ==
  /\ clock < MaxTime
  /\ clock' = clock + 1
  /\ UNCHANGED <<rows, posted, att, gate, active, lockedBy, delivered, work, req, faults>>

UserStep(q) ==
  \/ \E c \in Chat, b \in Content, A \in SUBSET Att, t \in 0 .. MaxTime : ScheduleCheck(q, c, b, A, t)
  \/ \E r \in Row : ScheduleCreate(q, r) \/ Cancel(q, r)
  \/ \E r \in Row, b \in Content \cup {"keep"}, t \in 0 .. MaxTime : UpdateGet(q, r, b, t)
  \/ UpdateWrite(q)

\* One pass of the worker, without its failures.
Pass(w) ==
  \/ \E S \in SUBSET Row : ClaimDue(w, S)
  \/ \E r \in Row : CheckRow(w, r) \/ Deliver(w, r)
  \/ SendRow(w) \/ SendRefused(w) \/ SendFails(w) \/ Commit(w) \/ Return(w)

Fails(w) == (\E r \in Row : AuthorizeFails(w, r)) \/ DbError(w) \/ Crash(w)

Next ==
  \/ \E q \in Request : UserStep(q)
  \/ \E w \in Worker : Pass(w) \/ Fails(w)
  \/ \E a \in Att : UseUpload(a) \/ ReapUnlinked(a)
  \/ \E c \in Chat, g \in Gates : ChangeGate(c, g)
  \/ Deactivate \/ Tick

Spec == Init /\ [][Next]_vars

\* StartWorker ticks for as long as the process lives and drains what is due;
\* a process that dies is started again.
FairSpec == Spec /\ WF_vars(Tick) /\ \A w \in Worker : WF_vars(Pass(w))

-----------------------------------------------------------------------------
(* Properties *)

\* ProcessDue's promise: a row gives rise to one message when it is marked
\* sent and to none before, whatever workers, crashes and cancels do.
SentOnce == \A r \in Row : Len(posted[r]) = IF rows[r].status = "sent" THEN 1 ELSE 0

\* The messages born from rows carry the content last saved, and a settled or
\* dropped row never changes again: the service implements Outbox.
PostedBodies == [r \in Row |-> [i \in 1 .. Len(posted[r]) |-> posted[r][i].body]]
Items == [r \in Row |-> [state |-> rows[r].status, content |-> rows[r].body]]
Outbox == INSTANCE Outbox WITH item <- Items, posted <- PostedBodies
ImplementsOutbox == Outbox!Spec

\* Schedule's cap: requests that counted before another one's insert may each
\* go over it by one, and by no more.
PendingCap == Cardinality(Pending) < MaxPending + Cardinality(Request)

\* attachments.Link: an upload ends up in one message at most.
UploadInOneMessage ==
  \A r, o \in Row : \A i \in DOMAIN posted[r], j \in DOMAIN posted[o] :
    /\ \A a \in posted[r][i].atts : att[a] = "linked"
    /\ <<r, i>> # <<o, j>> => posted[r][i].atts \cap posted[o][j].atts = {}

\* deliver runs after the commit: what is published, pushed and indexed is a
\* message that exists, once.
DeliveredOnce == \A r \in Row : delivered[r] <= Len(posted[r])

\* Drained: a message that falls due is sent or canceled, unless its sender
\* takes it back or puts it off again, or somebody is blocked: ErrBlocked is
\* retried for ever, with the whole batch.
DueHandled ==
  \A r \in Row : (r \in Pending /\ rows[r].sendAt <= clock)
    ~> (~(r \in Pending /\ rows[r].sendAt <= clock) \/ \E c \in Chat : gate[c] = "blocked")
=============================================================================
