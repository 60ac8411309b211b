----------------------------- MODULE Moderation -----------------------------
(***************************************************************************)
(* Sanctions on one group: backend/internal/moderation, with the two other *)
(* writers of the group row, the founder's or CEO's hard delete            *)
(* (groups.Service.Delete) and the hand-over of a deleted account's groups *)
(* (users/deletion.go).  Postgres runs READ COMMITTED: a transaction that  *)
(* took the group row FOR UPDATE holds lock until it commits, and what it  *)
(* writes becomes visible in its commit step.                              *)
(***************************************************************************)
EXTENDS Naturals, FiniteSets

CONSTANTS
  Sanction,       \* ids of group_sanctions rows
  Handler,        \* requests that may run at the same time
  WarnLimit,      \* live warnings that delete the group
  RestoreWindow,  \* clock units a deleted group can still be restored
  MuteDurations,  \* clock units, 0 for an indefinite mute
  SlowTx,         \* requests during which the clock may pass a boundary
  MaxTime,        \* bound on the clock
  None

ASSUME ModerationAssumption ==
  /\ IsFiniteSet(Sanction)
  /\ None \notin Handler
  /\ WarnLimit \in Nat /\ WarnLimit > 0
  /\ RestoreWindow \in Nat /\ MaxTime \in Nat
  /\ MuteDurations \subseteq Nat

VARIABLES
  sanctions,  \* [Sanction -> group_sanctions row], kind "none" for no row
  status,     \* the groups row: alive, deleted (deleted_at set) or gone
  deletedAt,  \* groups.deleted_at, 0 when it is NULL
  deletedBy,  \* who set deleted_at: the CEO, or nobody left ("orphan")
  msgs,       \* the messages written before the first deletion still exist
  lock,       \* the request that holds the row FOR UPDATE
  due,        \* the purge worker's list holds the group
  crossed,    \* the worker has listed the group while a restore of it was under
              \* way; no code keeps it
  clock,
  job         \* [Handler -> local state of a request]

vars == <<sanctions, status, deletedAt, deletedBy, msgs, lock, due, crossed, clock, job>>

Kind == {"warn", "mute", "delete"}
Op   == Kind \cup {"restore", "founder", "ceo", "idle"}
Pc   == {"idle", "lock", "count", "commit", "check", "delete"}

\* expires = 0 stands for a NULL expires_at.
Row   == [kind : Kind \cup {"none"}, issued : Nat, expires : Nat, revoked : BOOLEAN]
Job   == [op : Op, pc : Pc, expires : Nat, began : Nat, warns : Nat]
NoRow == [kind |-> "none", issued |-> 0, expires |-> 0, revoked |-> FALSE]
Idle  == [op |-> "idle", pc |-> "idle", expires |-> 0, began |-> 0, warns |-> 0]

TypeOK ==
  /\ sanctions \in [Sanction -> Row]
  /\ status \in {"alive", "deleted", "gone"}
  /\ deletedAt \in Nat
  /\ deletedBy \in {"ceo", "orphan"}
  /\ msgs \in BOOLEAN
  /\ lock \in Handler \cup {None}
  /\ due \in BOOLEAN /\ crossed \in BOOLEAN
  /\ clock \in Nat
  /\ job \in [Handler -> Job]

Init ==
  /\ sanctions = [s \in Sanction |-> NoRow]
  /\ status = "alive" /\ deletedAt = 0 /\ deletedBy = "ceo" /\ msgs = TRUE
  /\ lock = None /\ due = FALSE /\ crossed = FALSE
  /\ clock = 1
  /\ job = [p \in Handler |-> Idle]

-----------------------------------------------------------------------------
(* Reading the sanctions *)

\* The unrevoked sanctions of a kind; for warnings this is activeWarns.
Unrevoked(k) == {s \in Sanction : sanctions[s].kind = k /\ ~sanctions[s].revoked}

LiveAt(s, t) == ~sanctions[s].revoked /\ (sanctions[s].expires = 0 \/ sanctions[s].expires > t)

\* The mutes that are live at time t.
Muted(t) == {s \in Unrevoked("mute") : LiveAt(s, t)}

Free(s) == sanctions[s].kind = "none"

Goto(p, pc) == job' = [job EXCEPT ![p].pc = pc]
Finish(p)   == job' = [job EXCEPT ![p] = Idle]
Start(p, op, pc, expires) ==
  job' = [job EXCEPT ![p] = [op |-> op, pc |-> pc, expires |-> expires, began |-> clock, warns |-> 0]]
Counted(p, n) == job' = [job EXCEPT ![p] = [@ EXCEPT !.pc = "commit", !.warns = n]]

-----------------------------------------------------------------------------
(* Issue *)

\* Bound: every request in flight finds two unused ids.
RowsLeft ==
  2 * Cardinality({p \in Handler : job[p].op \in Kind}) + 2
    <= Cardinality({s \in Sanction : Free(s)})

\* A valid request: the mute's end is computed before the transaction begins.
IssueBegin(p, k, d) ==
  /\ job[p] = Idle
  /\ RowsLeft
  /\ k # "mute" => d = 0
  /\ Start(p, k, "lock", IF d = 0 THEN 0 ELSE clock + d)
  /\ UNCHANGED <<sanctions, status, deletedAt, deletedBy, msgs, lock, due, crossed, clock>>

\* SELECT ... FOR UPDATE: waits for the row.
lockGroup(p) == lock = None /\ lock' = p

\* A group that is deleted or gone takes no sanction.
IssueLock(p) ==
  /\ job[p].op \in Kind /\ job[p].pc = "lock"
  /\ \/ status = "alive" /\ lockGroup(p) /\ Goto(p, "count")
     \/ status # "alive" /\ lock = None /\ Finish(p) /\ UNCHANGED lock
  /\ UNCHANGED <<sanctions, status, deletedAt, deletedBy, msgs, due, crossed, clock>>

\* insert and activeWarns: the transaction sees its own row and what others
\* committed.
IssueCount(p) ==
  /\ job[p].op \in Kind /\ job[p].pc = "count"
  /\ Counted(p, Cardinality(Unrevoked("warn")) + (IF job[p].op = "warn" THEN 1 ELSE 0))
  /\ UNCHANGED <<sanctions, status, deletedAt, deletedBy, msgs, lock, due, crossed, clock>>

\* The row Issue inserts; issued_at defaults to the start of the transaction.
NewRow(j) == [kind |-> j.op, issued |-> j.began, expires |-> j.expires, revoked |-> FALSE]

AutoRow(j) == [kind |-> "delete", issued |-> j.began, expires |-> 0, revoked |-> FALSE]

\* liveMute takes the latest of the mutes live when the transaction began.
Replaced(j) ==
  IF j.op # "mute" THEN {}
  ELSE {s \in Muted(j.began) :
          \A r \in Muted(j.began) : sanctions[r].issued <= sanctions[s].issued}

ReachesLimit(j) == j.op = "warn" /\ j.warns >= WarnLimit

\* Mutant of Inserted: a mute is issued beside the live one.
InsertedBeside(j, s, a, old) ==
  [x \in Sanction |-> IF x = s THEN NewRow(j)
                      ELSE IF x = a /\ ReachesLimit(j) THEN AutoRow(j)
                      ELSE sanctions[x]]

\* The rows after the transaction: s is the sanction, a the automatic deletion
\* when the warning reached the limit, old the mute it replaces.
Inserted(j, s, a, old) ==
  [x \in Sanction |-> IF x = s THEN NewRow(j)
                      ELSE IF x = a /\ ReachesLimit(j) THEN AutoRow(j)
                      ELSE IF x \in old THEN [sanctions[x] EXCEPT !.revoked = TRUE]
                      ELSE sanctions[x]]

\* Commit: the rows, and the deletion of the group where it is due.
IssueCommit(p, s, a) ==
  LET j == job[p] IN
  /\ j.op \in Kind /\ j.pc = "commit"
  /\ Free(s) /\ Free(a) /\ s # a
  /\ \E old \in SUBSET Replaced(j) :
       /\ Cardinality(old) = IF Replaced(j) = {} THEN 0 ELSE 1
       /\ sanctions' = Inserted(j, s, a, old)
  /\ IF j.op = "delete" \/ ReachesLimit(j)
     THEN status' = "deleted" /\ deletedAt' = clock /\ deletedBy' = "ceo"
     ELSE UNCHANGED <<status, deletedAt, deletedBy>>
  /\ lock' = None
  /\ Finish(p)
  /\ UNCHANGED <<msgs, due, crossed, clock>>

-----------------------------------------------------------------------------
(* Revoke and Restore *)

\* Revoke reads the sanction before it locks the group, but its update is
\* conditional on revoked_at and kind and expiry never change, so the whole
\* transaction is one step taken while the row is free.
Revoke(p, s) ==
  /\ job[p] = Idle
  /\ lock = None /\ status # "gone"
  /\ sanctions[s].kind \in {"warn", "mute"} /\ LiveAt(s, clock)
  /\ sanctions' = [sanctions EXCEPT ![s].revoked = TRUE]
  /\ UNCHANGED <<status, deletedAt, deletedBy, msgs, lock, due, crossed, clock, job>>

\* Mutant of RestoreLock: the window is not looked at.
RestoreLockAnyTime(p) ==
  /\ job[p] = Idle
  /\ status = "deleted"
  /\ lockGroup(p)
  /\ Start(p, "restore", "commit", 0)
  /\ UNCHANGED <<sanctions, status, deletedAt, deletedBy, msgs, due, crossed, clock>>

\* Restore takes the row and checks the window against the clock.
RestoreLock(p) ==
  /\ job[p] = Idle
  /\ status = "deleted" /\ clock <= deletedAt + RestoreWindow
  /\ lockGroup(p)
  /\ Start(p, "restore", "commit", 0)
  /\ UNCHANGED <<sanctions, status, deletedAt, deletedBy, msgs, due, crossed, clock>>

\* Mutant of Capped: the oldest live warnings beyond WarnLimit.
CappedAtLimit(old) ==
  LET warns == Unrevoked("warn") IN
  /\ old \subseteq warns
  /\ Cardinality(old) = IF Cardinality(warns) < WarnLimit THEN 0
                        ELSE Cardinality(warns) - WarnLimit
  /\ \A s \in old, r \in warns \ old : sanctions[s].issued <= sanctions[r].issued

\* The oldest live warnings beyond WarnLimit - 1.
Capped(old) ==
  LET warns == Unrevoked("warn") IN
  /\ old \subseteq warns
  /\ Cardinality(old) = IF Cardinality(warns) < WarnLimit THEN 0
                        ELSE Cardinality(warns) + 1 - WarnLimit
  /\ \A s \in old, r \in warns \ old : sanctions[s].issued <= sanctions[r].issued

\* Mutant of Restored: the deletion stays on record.
RestoredStillDeleted(old) ==
  [s \in Sanction |-> [sanctions[s] EXCEPT !.revoked = @ \/ s \in old]]

\* revokeLiveDeletions and the cut of the warnings.
Restored(old) ==
  [s \in Sanction |-> [sanctions[s] EXCEPT !.revoked = @ \/ s \in old \cup Unrevoked("delete")]]

RestoreCommit(p) ==
  /\ job[p].op = "restore"
  /\ \E old \in SUBSET Sanction : Capped(old) /\ sanctions' = Restored(old)
  /\ status' = "alive" /\ deletedAt' = 0
  /\ lock' = None
  /\ Finish(p)
  /\ UNCHANGED <<deletedBy, msgs, due, crossed, clock>>

-----------------------------------------------------------------------------
(* Purge, hard delete, account deletion *)

\* Mutant of Expired: the window is forgotten.
ExpiredAtOnce == status = "deleted"

Expired == status = "deleted" /\ deletedAt + RestoreWindow < clock

\* Purge lists the groups whose window closed.
PurgeList ==
  /\ ~due /\ Expired
  /\ due' = TRUE
  /\ crossed' = (crossed \/ \E p \in Handler : job[p].op = "restore")
  /\ UNCHANGED <<sanctions, status, deletedAt, deletedBy, msgs, lock, clock, job>>

\* The group row is removed and its sanctions cascade.
Remove == status' = "gone" /\ sanctions' = [s \in Sanction |-> NoRow]

\* purge: the messages go, then the group if it is deleted now; the transaction
\* commits in both cases.  Deleting the row waits for whoever holds it.
PurgeGroup ==
  /\ due
  /\ lock = None
  /\ msgs' = FALSE
  /\ IF status = "deleted" THEN Remove ELSE UNCHANGED <<status, sanctions>>
  /\ due' = FALSE
  /\ UNCHANGED <<deletedAt, deletedBy, lock, crossed, clock, job>>

\* groups.Service.Delete reads the group without a lock; the CEO skips the
\* check for live sanctions.
DeleteGet(p, who) ==
  /\ job[p] = Idle
  /\ status = "alive"
  /\ Start(p, who, IF who = "ceo" THEN "delete" ELSE "check", 0)
  /\ UNCHANGED <<sanctions, status, deletedAt, deletedBy, msgs, lock, due, crossed, clock>>

HasLiveSanctions(t) == Unrevoked("warn") # {} \/ Muted(t) # {}

DeleteCheck(p) ==
  /\ job[p].op = "founder" /\ job[p].pc = "check"
  /\ IF HasLiveSanctions(job[p].began) THEN Finish(p) ELSE Goto(p, "delete")
  /\ UNCHANGED <<sanctions, status, deletedAt, deletedBy, msgs, lock, due, crossed, clock>>

\* The rows go; a group that is gone by then rolls the transaction back.
DeleteRows(p) ==
  /\ job[p].op \in {"founder", "ceo"} /\ job[p].pc = "delete"
  /\ lock = None
  /\ IF status = "gone" THEN UNCHANGED <<status, sanctions, msgs>>
     ELSE Remove /\ msgs' = FALSE
  /\ Finish(p)
  /\ UNCHANGED <<deletedAt, deletedBy, lock, due, crossed, clock>>

\* handOverGroups: an account is deleted and nobody is left to run the group.
OrphanDelete(p) ==
  /\ job[p] = Idle
  /\ lock = None
  /\ status = "alive"
  /\ status' = "deleted" /\ deletedAt' = clock /\ deletedBy' = "orphan"
  /\ UNCHANGED <<sanctions, msgs, lock, due, crossed, clock, job>>

Tick ==
  /\ clock < MaxTime
  /\ \A p \in Handler : job[p].op \in SlowTx \cup {"idle"}
  /\ clock' = clock + 1
  /\ UNCHANGED <<sanctions, status, deletedAt, deletedBy, msgs, lock, due, crossed, job>>

-----------------------------------------------------------------------------
RequestStep(p) ==
  \/ IssueLock(p) \/ IssueCount(p)
  \/ \E s, a \in Sanction : IssueCommit(p, s, a)
  \/ RestoreCommit(p) \/ DeleteCheck(p) \/ DeleteRows(p)

Next ==
  \/ \E p \in Handler :
       \/ \E k \in Kind, d \in MuteDurations \cup {0} : IssueBegin(p, k, d)
       \/ RestoreLock(p) \/ OrphanDelete(p)
       \/ \E s \in Sanction : Revoke(p, s)
       \/ \E who \in {"founder", "ceo"} : DeleteGet(p, who)
       \/ RequestStep(p)
  \/ PurgeList \/ PurgeGroup \/ Tick

Spec == Init /\ [][Next]_vars

-----------------------------------------------------------------------------
(* Properties *)

\* A group in use has fewer than WarnLimit live warnings: the warning that
\* reaches the limit deletes it, also when two are issued at once (lockGroup),
\* and a restore leaves it one short of the limit.
WarnedOut == status = "alive" => Cardinality(Unrevoked("warn")) < WarnLimit

\* "Muted until" has a single answer: Issue replaces the live mute.
OneLiveMute == Cardinality(Muted(clock)) <= 1

\* Exactly one unrevoked deletion sanction stands behind a group the CEO
\* deleted, automatic deletions included, and none behind a group in use.
DeletionOnRecord ==
  Cardinality(Unrevoked("delete")) = IF status = "deleted" /\ deletedBy = "ceo" THEN 1 ELSE 0

\* A group in use has the messages it had: restoring brings everything back,
\* whatever purge, hard deletes and new deletions do meanwhile.  One collision
\* is excepted: a restore that holds the row when its window closes, and a
\* worker that lists the group before it commits.  purge then takes the messages
\* of a group in use, for it looks at deleted_at only for the group row.
RestoredWhole == status = "alive" /\ ~msgs => crossed

\* p is about to remove a group it found in use before it was deleted.
StaleDelete(p) ==
  job[p].op \in {"founder", "ceo"} /\ job[p].pc = "delete" /\ job[p].began <= deletedAt

\* A deleted group is removed for good only after its restore window; a list the
\* worker made earlier never takes a later deletion of the group.  Two
\* removals come too early: by a hard delete that looked at the group before it
\* was deleted (Delete looks without a lock), and after the collision above.
DeletionStaysRestorable ==
  [][status = "deleted" /\ status' = "gone" /\ clock <= deletedAt + RestoreWindow =>
       (crossed /\ PurgeGroup) \/ \E p \in Handler : StaleDelete(p) /\ DeleteRows(p)]_vars
=============================================================================
