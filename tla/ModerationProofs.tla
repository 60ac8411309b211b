-------------------------- MODULE ModerationProofs --------------------------
(***************************************************************************)
(* Moderation: the warning limit, the deletion record and the window for   *)
(* restoring hold for any limit, window, sanctions and number of           *)
(* concurrent requests.  The argument is the row lock: only the request    *)
(* that holds it writes, and what it counted is still true when it         *)
(* commits.  For the window it is that a group on the purge's list can no  *)
(* longer be restored, unless the worker listed it under a restore that    *)
(* had found the window open (crossed).                                    *)
(***************************************************************************)
EXTENDS Moderation, FiniteSetTheorems, TLAPS

Warns == Unrevoked("warn")

Deletions == Unrevoked("delete")

\* A request past lockGroup holds the row of a group in use.
IssueHolds(p) ==
  job[p].op \in Kind /\ job[p].pc \in {"count", "commit"} => lock = p /\ status = "alive"

\* A restore holds the row of a group it found deleted.
RestoreHolds(p) == job[p].op = "restore" => lock = p

\* What activeWarns returned is still the number of warnings at the commit.
CountHolds(p) ==
  job[p].op \in Kind /\ job[p].pc = "commit" =>
    job[p].warns = Cardinality(Warns) + (IF job[p].op = "warn" THEN 1 ELSE 0)

HoldsInv == \A p \in Handler : IssueHolds(p) /\ RestoreHolds(p) /\ CountHolds(p)

\* DeletionOnRecord without counting.
RecordInv ==
  IF status = "deleted" /\ deletedBy = "ceo" THEN \E s \in Sanction : Deletions = {s}
  ELSE Deletions = {}

Inv == TypeOK /\ HoldsInv /\ WarnedOut /\ RecordInv

-----------------------------------------------------------------------------
(* Updating one request *)

\* The idle record is of its type.
LEMMA IdleIn == Idle \in Job
  BY Zenon DEF Idle, Job, Op, Pc

\* Goto moves one request and leaves the others alone.
LEMMA GotoJob ==
  ASSUME job \in [Handler -> Job], NEW p \in Handler, NEW x \in Pc, Goto(p, x)
  PROVE  /\ job' \in [Handler -> Job]
         /\ job'[p].pc = x /\ job'[p].op = job[p].op
         /\ \A q \in Handler \ {p} : job'[q] = job[q]
  BY Zenon DEF Goto, Job

\* Finish ends it.
LEMMA FinishJob ==
  ASSUME job \in [Handler -> Job], NEW p \in Handler, Finish(p)
  PROVE  /\ job' \in [Handler -> Job]
         /\ job'[p] = Idle
         /\ \A q \in Handler \ {p} : job'[q] = job[q]
  BY Zenon, IdleIn DEF Finish

\* Start begins it at the current clock.
LEMMA StartJob ==
  ASSUME job \in [Handler -> Job], clock \in Nat, NEW p \in Handler, NEW o \in Op, NEW x \in Pc,
         NEW e \in Nat, Start(p, o, x, e)
  PROVE  /\ job' \in [Handler -> Job]
         /\ job'[p].op = o /\ job'[p].pc = x
         /\ \A q \in Handler \ {p} : job'[q] = job[q]
  BY Zenon DEF Start, Job

\* Counted remembers the number of live warnings.
LEMMA CountedJob ==
  ASSUME job \in [Handler -> Job], NEW p \in Handler, NEW n \in Nat, Counted(p, n)
  PROVE  /\ job' \in [Handler -> Job]
         /\ job'[p].op = job[p].op /\ job'[p].pc = "commit" /\ job'[p].warns = n
         /\ \A q \in Handler \ {p} : job'[q] = job[q]
  BY Zenon DEF Counted, Job, Pc

-----------------------------------------------------------------------------
(* Sets of sanctions *)

\* The live sanctions of a kind are finitely many.
LEMMA UnrevokedFinite ==
  ASSUME NEW k
  PROVE  IsFiniteSet(Unrevoked(k)) /\ Cardinality(Unrevoked(k)) \in Nat
  <1>1. Unrevoked(k) \in SUBSET Sanction
    BY Zenon DEF Unrevoked
  <1> QED BY Zenon, <1>1, ModerationAssumption, FS_Subset, FS_CardinalityType

\* Taking away n of the warnings leaves n fewer.
LEMMA Shrinks ==
  ASSUME NEW S, IsFiniteSet(S), NEW T \in SUBSET S
  PROVE  /\ IsFiniteSet(S \ T) /\ Cardinality(S \ T) \in Nat
         /\ Cardinality(S \ T) = Cardinality(S) - Cardinality(T)
  <1>1. /\ IsFiniteSet(T) /\ IsFiniteSet(S \ T) /\ (S \ T) \cup T = S /\ (S \ T) \cap T = {}
    BY Zenon, FS_Subset
  <1>2. Cardinality(S) = Cardinality(S \ T) + Cardinality(T) - Cardinality({})
    BY Zenon, <1>1, FS_Union
  <1>3. Cardinality(S \ T) \in Nat /\ Cardinality(T) \in Nat /\ Cardinality(S) \in Nat
    BY Zenon, <1>1, FS_CardinalityType
  <1> QED BY <1>1, <1>2, <1>3, FS_EmptySet

\* A step that leaves the sanctions alone leaves their sets alone.
LEMMA SameSets ==
  ASSUME UNCHANGED sanctions
  PROVE  Warns' = Warns /\ Deletions' = Deletions
  BY Zenon DEF Warns, Deletions, Unrevoked

\* Removing the group cascades to its sanctions.
LEMMA RemoveEmpties ==
  ASSUME Remove
  PROVE  Deletions' = {} /\ status' = "gone" /\ sanctions' \in [Sanction -> Row]
  BY Zenon DEF Remove, Deletions, Unrevoked, NoRow, Row, Kind

-----------------------------------------------------------------------------
(* The invariant *)

\* What a request justifies: its own line of HoldsInv, and that nobody else is
\* past the lock unless what they rely on is unchanged.
LEMMA Preserve ==
  ASSUME Inv, TypeOK', WarnedOut', RecordInv', NEW p \in Handler,
         \A q \in Handler \ {p} : job'[q] = job[q],
         (IssueHolds(p) /\ RestoreHolds(p) /\ CountHolds(p))',
         \/ lock' = lock /\ status' = status /\ sanctions' = sanctions
         \/ lock = None \/ lock = p
  PROVE  Inv'
  <1>1. ASSUME NEW q \in Handler \ {p}
        PROVE  (IssueHolds(q) /\ RestoreHolds(q) /\ CountHolds(q))'
    <2>1. CASE lock' = lock /\ status' = status /\ sanctions' = sanctions
      BY Zenon, <1>1, <2>1, SameSets DEF Inv, HoldsInv, IssueHolds, RestoreHolds, CountHolds
    <2>2. CASE lock = None \/ lock = p
      BY Zenon, <1>1, <2>2, ModerationAssumption
        DEF Inv, HoldsInv, IssueHolds, RestoreHolds, CountHolds
    <2> QED BY Zenon, <2>1, <2>2
  <1> QED BY Zenon, <1>1 DEF Inv, HoldsInv

\* The initial state satisfies the invariant.
LEMMA InitInv == Init => Inv
  <1> SUFFICES ASSUME Init PROVE Inv
    BY Zenon
  <1>1. TypeOK
    BY Zenon, IdleIn DEF Init, TypeOK, NoRow, Row, Kind
  <1>2. Warns = {} /\ Deletions = {}
    BY Zenon DEF Init, Warns, Deletions, Unrevoked, NoRow
  <1>3. WarnedOut
    BY Zenon, <1>2, FS_EmptySet, ModerationAssumption DEF WarnedOut, Warns
  <1>4. HoldsInv
    BY Zenon DEF Init, HoldsInv, IssueHolds, RestoreHolds, CountHolds, Idle, Kind
  <1> QED BY Zenon, <1>1, <1>2, <1>3, <1>4 DEF Inv, RecordInv, Init

-----------------------------------------------------------------------------
(* One lemma per step *)

\* A step that writes neither the row nor the sanctions keeps their parts.
LEMMA Untouched ==
  ASSUME Inv, UNCHANGED <<sanctions, status, deletedBy>>
  PROVE  WarnedOut' /\ RecordInv'
  <1>1. Warns' = Warns /\ Deletions' = Deletions
    BY Zenon, SameSets
  <1> QED BY Zenon, <1>1 DEF Inv, WarnedOut, RecordInv, Warns

\* Beginning a request claims nothing about the row.
LEMMA IssueBeginStep ==
  ASSUME Inv, NEW p \in Handler, NEW k \in Kind, NEW d \in MuteDurations \cup {0},
         IssueBegin(p, k, d)
  PROVE  Inv'
  <1> DEFINE e == IF d = 0 THEN 0 ELSE clock + d
  <1>1. job \in [Handler -> Job] /\ clock \in Nat /\ e \in Nat /\ k \in Op /\ "lock" \in Pc
    BY ModerationAssumption DEF Inv, TypeOK, Op, Pc
  <1>2. Start(p, k, "lock", e)
    BY Zenon DEF IssueBegin
  <1> HIDE DEF e
  <1>3. /\ job' \in [Handler -> Job] /\ job'[p].op = k /\ job'[p].pc = "lock"
        /\ \A q \in Handler \ {p} : job'[q] = job[q]
    BY Zenon, <1>1, <1>2, StartJob
  <1>4. TypeOK' /\ WarnedOut' /\ RecordInv'
    BY Zenon, <1>3, Untouched DEF Inv, TypeOK, IssueBegin
  <1>5. (IssueHolds(p) /\ RestoreHolds(p) /\ CountHolds(p))'
    BY Zenon, <1>3 DEF IssueHolds, RestoreHolds, CountHolds, Kind
  <1> QED BY Zenon, <1>3, <1>4, <1>5, Preserve DEF IssueBegin

\* lockGroup gives the row of a group in use to the request.
LEMMA IssueLockStep ==
  ASSUME Inv, NEW p \in Handler, IssueLock(p)
  PROVE  Inv'
  <1>1. job \in [Handler -> Job] /\ "count" \in Pc
    BY Zenon DEF Inv, TypeOK, Pc
  <1>2. WarnedOut' /\ RecordInv'
    BY Zenon, Untouched DEF IssueLock
  <1>3. CASE status = "alive" /\ lockGroup(p) /\ Goto(p, "count")
    <2>1. /\ job' \in [Handler -> Job] /\ job'[p].op = job[p].op /\ job'[p].pc = "count"
          /\ \A q \in Handler \ {p} : job'[q] = job[q]
      BY Zenon, <1>1, <1>3, GotoJob
    <2>2. TypeOK'
      BY Zenon, <1>3, <2>1 DEF Inv, TypeOK, IssueLock, lockGroup
    <2>3. (IssueHolds(p) /\ RestoreHolds(p) /\ CountHolds(p))'
      BY Zenon, <1>3, <2>1 DEF IssueHolds, RestoreHolds, CountHolds, IssueLock, lockGroup, Kind
    <2> QED BY Zenon, <1>2, <1>3, <2>1, <2>2, <2>3, Preserve DEF lockGroup
  <1>4. CASE lock = None /\ Finish(p) /\ UNCHANGED lock
    <2>1. /\ job' \in [Handler -> Job] /\ job'[p] = Idle
          /\ \A q \in Handler \ {p} : job'[q] = job[q]
      BY Zenon, <1>1, <1>4, FinishJob
    <2>2. TypeOK'
      BY Zenon, <1>4, <2>1 DEF Inv, TypeOK, IssueLock
    <2>3. (IssueHolds(p) /\ RestoreHolds(p) /\ CountHolds(p))'
      BY <2>1 DEF IssueHolds, RestoreHolds, CountHolds, Idle, Kind
    <2> QED BY Zenon, <1>2, <1>4, <2>1, <2>2, <2>3, Preserve
  <1> QED BY Zenon, <1>3, <1>4 DEF IssueLock

\* activeWarns is read under the lock.
LEMMA IssueCountStep ==
  ASSUME Inv, NEW p \in Handler, IssueCount(p)
  PROVE  Inv'
  <1> DEFINE n == Cardinality(Unrevoked("warn")) + (IF job[p].op = "warn" THEN 1 ELSE 0)
  <1>1. job \in [Handler -> Job] /\ n \in Nat /\ Counted(p, n)
    BY UnrevokedFinite DEF Inv, TypeOK, IssueCount
  <1>2. n = Cardinality(Warns) + (IF job[p].op = "warn" THEN 1 ELSE 0)
    BY Zenon DEF Warns
  <1> HIDE DEF n
  <1>3. /\ job' \in [Handler -> Job]
        /\ job'[p].op = job[p].op /\ job'[p].pc = "commit" /\ job'[p].warns = n
        /\ \A q \in Handler \ {p} : job'[q] = job[q]
    BY Zenon, <1>1, CountedJob
  <1>4. TypeOK' /\ WarnedOut' /\ RecordInv' /\ Warns' = Warns
    BY Zenon, <1>3, Untouched, SameSets DEF Inv, TypeOK, IssueCount
  <1>5. lock' = lock /\ status' = status /\ lock = p /\ status = "alive"
    BY Zenon DEF Inv, HoldsInv, IssueHolds, IssueCount
  <1>6. (IssueHolds(p) /\ RestoreHolds(p) /\ CountHolds(p))'
    BY Zenon, <1>2, <1>3, <1>4, <1>5 DEF IssueHolds, RestoreHolds, CountHolds, IssueCount, Kind
  <1> QED BY Zenon, <1>3, <1>4, <1>5, <1>6, Preserve

\* The rows a commit of Issue leaves: one warning more for a warning, and a
\* deletion only for a delete or a warning that reached the limit.
LEMMA InsertedSets ==
  ASSUME Inv, NEW p \in Handler, NEW s \in Sanction, NEW a \in Sanction,
         job[p].op \in Kind, Deletions = {}, Free(s), Free(a), s # a,
         NEW old \in SUBSET Replaced(job[p]), sanctions' = Inserted(job[p], s, a, old)
  PROVE  /\ sanctions' \in [Sanction -> Row]
         /\ s \notin Warns
         /\ Warns' = IF job[p].op = "warn" THEN Warns \cup {s} ELSE Warns
         /\ Deletions' = IF job[p].op = "delete" THEN {s}
                         ELSE IF ReachesLimit(job[p]) THEN {a} ELSE {}
  <1> DEFINE j == job[p]
  <1>1. sanctions \in [Sanction -> Row] /\ j \in Job
    BY Zenon DEF Inv, TypeOK
  <1>2. NewRow(j) \in Row /\ AutoRow(j) \in Row
    BY Zenon, <1>1 DEF NewRow, AutoRow, Row, Job, Kind
  <1>3. /\ NewRow(j).kind = j.op /\ ~NewRow(j).revoked
        /\ AutoRow(j).kind = "delete" /\ ~AutoRow(j).revoked
    BY Zenon DEF NewRow, AutoRow
  <1>4. \A x \in old : x \in Sanction /\ sanctions[x].kind = "mute"
    BY Zenon DEF Replaced, Muted, Unrevoked
  <1>5. \A x \in Sanction : /\ [sanctions[x] EXCEPT !.revoked = TRUE] \in Row
                           /\ [sanctions[x] EXCEPT !.revoked = TRUE].kind = sanctions[x].kind
    BY Zenon, <1>1 DEF Row
  <1>6. sanctions[s].kind = "none" /\ sanctions[a].kind = "none"
    BY Zenon DEF Free
  <1>7. /\ \A x \in Sanction :
             sanctions'[x] = IF x = s THEN NewRow(j)
                             ELSE IF x = a /\ ReachesLimit(j) THEN AutoRow(j)
                             ELSE IF x \in old THEN [sanctions[x] EXCEPT !.revoked = TRUE]
                             ELSE sanctions[x]
        /\ DOMAIN sanctions' = Sanction
        /\ sanctions' = [x \in Sanction |-> sanctions'[x]]
    BY Zenon DEF Inserted
  <1> HIDE DEF j
  <1>8. sanctions' \in [Sanction -> Row]
    <2>1. \A x \in Sanction : sanctions[x] \in Row
      BY Zenon, <1>1
    <2>2. \A x \in Sanction : sanctions'[x] \in {NewRow(j), AutoRow(j), sanctions[x],
                                                [sanctions[x] EXCEPT !.revoked = TRUE]}
      BY Zenon, <1>7
    <2>3. \A x \in Sanction : sanctions'[x] \in Row
      BY Zenon, <1>2, <1>5, <2>1, <2>2
    <2> QED BY Zenon, <1>7, <2>3
  <1>9. \A x \in Sanction :
          /\ x = s => sanctions'[x].kind = j.op /\ ~sanctions'[x].revoked
          /\ x = a /\ ReachesLimit(j) => sanctions'[x].kind = "delete" /\ ~sanctions'[x].revoked
          /\ x # s /\ ~(x = a /\ ReachesLimit(j)) => sanctions'[x].kind = sanctions[x].kind
          /\ x # s /\ ~(x = a /\ ReachesLimit(j)) /\ x \notin old => sanctions'[x] = sanctions[x]
    BY ZenonT(40), <1>3, <1>5, <1>7
  <1>10. ReachesLimit(j) => j.op = "warn"
    BY Zenon DEF ReachesLimit
  <1>11. \A x \in Sanction : x \notin Deletions
    BY Zenon
  <1>12. s \notin Warns /\ a \notin Warns
    BY Zenon, <1>6 DEF Warns, Unrevoked
  <1>13. Warns' = IF j.op = "warn" THEN Warns \cup {s} ELSE Warns
    BY <1>4, <1>6, <1>9, <1>10 DEF Warns, Unrevoked
  <1>14. Deletions' = IF j.op = "delete" THEN {s} ELSE IF ReachesLimit(j) THEN {a} ELSE {}
    BY <1>4, <1>6, <1>9, <1>10, <1>11 DEF Deletions, Unrevoked
  <1> QED BY Zenon, <1>8, <1>12, <1>13, <1>14 DEF j

\* The commit of Issue: the count it acts on is still right.
LEMMA IssueCommitStep ==
  ASSUME Inv, NEW p \in Handler, NEW s \in Sanction, NEW a \in Sanction, IssueCommit(p, s, a)
  PROVE  Inv'
  <1>1. job \in [Handler -> Job] /\ job[p].op \in Kind /\ job[p].pc = "commit"
        /\ Free(s) /\ Free(a) /\ s # a /\ Finish(p) /\ lock' = None
    BY Zenon DEF Inv, TypeOK, IssueCommit
  <1>2. lock = p /\ status = "alive"
        /\ job[p].warns = Cardinality(Warns) + (IF job[p].op = "warn" THEN 1 ELSE 0)
    BY Zenon, <1>1 DEF Inv, HoldsInv, IssueHolds, CountHolds
  <1>3. Deletions = {} /\ Cardinality(Warns) < WarnLimit
    BY Zenon, <1>2 DEF Inv, RecordInv, WarnedOut, Warns
  <1>4. PICK old \in SUBSET Replaced(job[p]) : sanctions' = Inserted(job[p], s, a, old)
    BY Zenon DEF IssueCommit
  <1>5. /\ sanctions' \in [Sanction -> Row]
        /\ s \notin Warns
        /\ Warns' = IF job[p].op = "warn" THEN Warns \cup {s} ELSE Warns
        /\ Deletions' = IF job[p].op = "delete" THEN {s}
                        ELSE IF ReachesLimit(job[p]) THEN {a} ELSE {}
    BY Zenon, <1>1, <1>3, <1>4, InsertedSets
  <1>6. /\ job' \in [Handler -> Job] /\ job'[p] = Idle
        /\ \A q \in Handler \ {p} : job'[q] = job[q]
    BY Zenon, <1>1, FinishJob
  <1>7. IF job[p].op = "delete" \/ ReachesLimit(job[p])
        THEN status' = "deleted" /\ deletedAt' = clock /\ deletedBy' = "ceo"
        ELSE UNCHANGED <<status, deletedAt, deletedBy>>
    BY Zenon DEF IssueCommit
  <1>8. TypeOK'
    BY Zenon, <1>1, <1>5, <1>6, <1>7 DEF Inv, TypeOK, IssueCommit
  <1>9. Cardinality(Warns') = job[p].warns /\ job[p].warns \in Nat
    <2>1. IsFiniteSet(Warns) /\ Cardinality(Warns) \in Nat
      BY Zenon, UnrevokedFinite DEF Warns
    <2>2. CASE job[p].op = "warn"
      <3>1. Cardinality(Warns \cup {s}) = Cardinality(Warns) + 1
        BY Zenon, <1>5, <2>1, FS_AddElement
      <3> QED BY <1>2, <1>5, <2>1, <2>2, <3>1
    <2>3. CASE job[p].op # "warn"
      BY <1>2, <1>5, <2>1, <2>3
    <2> QED BY Zenon, <2>2, <2>3
  <1>10. WarnedOut'
    <2>1. SUFFICES ASSUME status' = "alive" PROVE Cardinality(Warns') < WarnLimit
      BY Zenon DEF WarnedOut, Warns
    <2>2. ~ReachesLimit(job[p])
      BY Zenon, <1>7, <2>1
    <2>3. CASE job[p].op = "warn"
      BY <1>9, <2>2, <2>3, ModerationAssumption DEF ReachesLimit
    <2>4. CASE job[p].op # "warn"
      BY Zenon, <1>3, <1>5, <2>4
    <2> QED BY Zenon, <2>3, <2>4
  <1>11. RecordInv'
    BY Zenon, <1>2, <1>5, <1>7 DEF RecordInv
  <1>12. (IssueHolds(p) /\ RestoreHolds(p) /\ CountHolds(p))'
    BY <1>6 DEF IssueHolds, RestoreHolds, CountHolds, Idle, Kind
  <1> QED BY Zenon, <1>2, <1>6, <1>8, <1>10, <1>11, <1>12, Preserve

\* A revocation takes a warning away and never a deletion.
LEMMA RevokeStep ==
  ASSUME Inv, NEW p \in Handler, NEW s \in Sanction, Revoke(p, s)
  PROVE  Inv'
  <1>1. sanctions \in [Sanction -> Row] /\ job[p] = Idle
    BY Zenon DEF Inv, TypeOK, Revoke
  <1>2. [sanctions[s] EXCEPT !.revoked = TRUE] \in Row
        /\ [sanctions[s] EXCEPT !.revoked = TRUE].revoked
    BY Zenon, <1>1 DEF Row
  <1>3. sanctions' = [sanctions EXCEPT ![s] = [sanctions[s] EXCEPT !.revoked = TRUE]]
    BY Zenon, <1>1 DEF Revoke
  <1>4. /\ sanctions' \in [Sanction -> Row]
        /\ sanctions'[s].revoked
        /\ \A x \in Sanction \ {s} : sanctions'[x] = sanctions[x]
    BY Zenon, <1>1, <1>2, <1>3
  <1>5. sanctions[s].kind # "delete"
    BY Zenon DEF Revoke
  <1>6. Warns' \in SUBSET Warns /\ Deletions' = Deletions
    BY Zenon, <1>4, <1>5 DEF Warns, Deletions, Unrevoked
  <1>7. TypeOK'
    BY Zenon, <1>4 DEF Inv, TypeOK, Revoke
  <1>8. WarnedOut'
    <2>1. IsFiniteSet(Warns) /\ Cardinality(Warns) \in Nat
      BY Zenon, UnrevokedFinite DEF Warns
    <2>2. Cardinality(Warns') <= Cardinality(Warns) /\ Cardinality(Warns') \in Nat
      BY Zenon, <1>6, <2>1, FS_Subset, FS_CardinalityType
    <2>3. status' = status
      BY Zenon DEF Revoke
    <2> QED BY <2>1, <2>2, <2>3, ModerationAssumption DEF Inv, WarnedOut, Warns
  <1>9. RecordInv'
    BY Zenon, <1>6 DEF Inv, RecordInv, Revoke
  <1>10. (IssueHolds(p) /\ RestoreHolds(p) /\ CountHolds(p))'
    BY <1>1 DEF Revoke, IssueHolds, RestoreHolds, CountHolds, Idle, Kind
  <1> QED BY Zenon, <1>7, <1>8, <1>9, <1>10, Preserve DEF Revoke

\* A restore begins by taking the row.
LEMMA RestoreLockStep ==
  ASSUME Inv, NEW p \in Handler, RestoreLock(p)
  PROVE  Inv'
  <1>1. job \in [Handler -> Job] /\ clock \in Nat /\ "restore" \in Op /\ "commit" \in Pc /\ 0 \in Nat
        /\ Start(p, "restore", "commit", 0) /\ lock = None /\ lock' = p
    BY Zenon DEF Inv, TypeOK, Op, Pc, RestoreLock, lockGroup
  <1>2. /\ job' \in [Handler -> Job] /\ job'[p].op = "restore" /\ job'[p].pc = "commit"
        /\ \A q \in Handler \ {p} : job'[q] = job[q]
    BY Zenon, <1>1, StartJob
  <1>3. TypeOK' /\ WarnedOut' /\ RecordInv'
    BY Zenon, <1>1, <1>2, Untouched DEF Inv, TypeOK, RestoreLock
  <1>4. (IssueHolds(p) /\ RestoreHolds(p) /\ CountHolds(p))'
    BY Zenon, <1>1, <1>2 DEF IssueHolds, RestoreHolds, CountHolds, Kind
  <1> QED BY Zenon, <1>1, <1>2, <1>3, <1>4, Preserve

\* The rows a restore leaves: its warnings without the capped ones, no deletion.
LEMMA RestoredSets ==
  ASSUME sanctions \in [Sanction -> Row], NEW old \in SUBSET Warns, sanctions' = Restored(old)
  PROVE  /\ sanctions' \in [Sanction -> Row]
         /\ Warns' = Warns \ old
         /\ Deletions' = {}
  <1> DEFINE R(s) == sanctions[s].revoked \/ s \in old \cup Unrevoked("delete")
  <1> DEFINE V(s) == [sanctions[s] EXCEPT !.revoked = R(s)]
  <1>1. \A s \in Sanction : V(s) \in Row /\ V(s).kind = sanctions[s].kind /\ V(s).revoked = R(s)
    BY Zenon DEF Row
  <1>2. sanctions' = [s \in Sanction |-> V(s)]
    BY Zenon DEF Restored
  <1> HIDE DEF V
  <1>3. \A s \in Sanction : /\ sanctions'[s] \in Row
                            /\ sanctions'[s].kind = sanctions[s].kind
                            /\ sanctions'[s].revoked = R(s)
    <2>1. \A s \in Sanction : sanctions'[s] = V(s)
      BY Zenon, <1>2
    <2> HIDE DEF R
    <2> QED BY Zenon, <1>1, <2>1
  <1>4. sanctions' \in [Sanction -> Row]
    BY Zenon, <1>1, <1>2
  <1>5. Warns' = Warns \ old
    BY Zenon, <1>3 DEF Warns, Unrevoked
  <1>6. Deletions' = {}
    BY Zenon, <1>3 DEF Deletions, Unrevoked
  <1> QED BY Zenon, <1>4, <1>5, <1>6

\* The commit of Restore leaves the warnings one short of the limit.
LEMMA RestoreCommitStep ==
  ASSUME Inv, NEW p \in Handler, RestoreCommit(p)
  PROVE  Inv'
  <1>1. /\ job \in [Handler -> Job] /\ sanctions \in [Sanction -> Row]
        /\ lock = p /\ lock' = None /\ status' = "alive" /\ Finish(p)
    BY Zenon DEF Inv, TypeOK, HoldsInv, RestoreHolds, RestoreCommit
  <1>2. PICK old \in SUBSET Sanction : Capped(old) /\ sanctions' = Restored(old)
    BY Zenon DEF RestoreCommit
  <1>3. /\ old \in SUBSET Warns
        /\ Cardinality(old) = IF Cardinality(Warns) < WarnLimit THEN 0
                              ELSE Cardinality(Warns) + 1 - WarnLimit
    BY Zenon, <1>2 DEF Capped, Warns
  <1>4. sanctions' \in [Sanction -> Row] /\ Warns' = Warns \ old /\ Deletions' = {}
    BY Zenon, <1>1, <1>2, <1>3, RestoredSets
  <1>5. /\ job' \in [Handler -> Job] /\ job'[p] = Idle
        /\ \A q \in Handler \ {p} : job'[q] = job[q]
    BY Zenon, <1>1, FinishJob
  <1>6. TypeOK'
    BY Zenon, <1>1, <1>4, <1>5 DEF Inv, TypeOK, RestoreCommit
  <1>7. WarnedOut'
    <2>1. IsFiniteSet(Warns) /\ Cardinality(Warns) \in Nat
      BY Zenon, UnrevokedFinite DEF Warns
    <2>2. Cardinality(Warns \ old) = Cardinality(Warns) - Cardinality(old)
      BY Zenon, <1>3, <2>1, Shrinks
    <2>3. Cardinality(Warns') < WarnLimit
      BY <1>3, <1>4, <2>1, <2>2, ModerationAssumption
    <2> QED BY Zenon, <2>3 DEF WarnedOut, Warns
  <1>8. RecordInv'
    BY Zenon, <1>1, <1>4 DEF RecordInv
  <1>9. (IssueHolds(p) /\ RestoreHolds(p) /\ CountHolds(p))'
    BY <1>5 DEF IssueHolds, RestoreHolds, CountHolds, Idle, Kind
  <1> QED BY Zenon, <1>1, <1>5, <1>6, <1>7, <1>8, <1>9, Preserve

\* A removed group has neither warnings that count nor deletions on record.
LEMMA Removed ==
  ASSUME status' = "gone", Deletions' = {}
  PROVE  WarnedOut' /\ RecordInv'
  BY Zenon DEF WarnedOut, RecordInv

\* The hard delete: its read, its check and its removal.
LEMMA HardDeleteStep ==
  ASSUME Inv, NEW p \in Handler,
         (\E who \in {"founder", "ceo"} : DeleteGet(p, who)) \/ DeleteCheck(p) \/ DeleteRows(p)
  PROVE  Inv'
  <1>1. job \in [Handler -> Job] /\ clock \in Nat
    BY Zenon DEF Inv, TypeOK
  <1>2. ASSUME NEW who \in {"founder", "ceo"}, DeleteGet(p, who) PROVE Inv'
    <2> DEFINE x == IF who = "ceo" THEN "delete" ELSE "check"
    <2>1. who \in Op /\ x \in Pc /\ 0 \in Nat /\ Start(p, who, x, 0)
      BY Zenon, <1>2 DEF Op, Pc, DeleteGet
    <2> HIDE DEF x
    <2>2. /\ job' \in [Handler -> Job] /\ job'[p].op = who
          /\ \A q \in Handler \ {p} : job'[q] = job[q]
      BY Zenon, <1>1, <2>1, StartJob
    <2>3. TypeOK' /\ WarnedOut' /\ RecordInv'
      BY Zenon, <1>2, <2>2, Untouched DEF Inv, TypeOK, DeleteGet
    <2>4. (IssueHolds(p) /\ RestoreHolds(p) /\ CountHolds(p))'
      BY Zenon, <2>2 DEF IssueHolds, RestoreHolds, CountHolds, Kind
    <2> QED BY Zenon, <1>2, <2>2, <2>3, <2>4, Preserve DEF DeleteGet
  <1>3. ASSUME DeleteCheck(p) PROVE Inv'
    <2>1. "delete" \in Pc /\ job[p].op = "founder" /\ (Finish(p) \/ Goto(p, "delete"))
      BY Zenon, <1>3 DEF Pc, DeleteCheck
    <2>2. /\ job' \in [Handler -> Job] /\ (job'[p] = Idle \/ job'[p].op = "founder")
          /\ \A q \in Handler \ {p} : job'[q] = job[q]
      BY Zenon, <1>1, <2>1, GotoJob, FinishJob
    <2>3. TypeOK' /\ WarnedOut' /\ RecordInv'
      BY Zenon, <1>3, <2>2, Untouched DEF Inv, TypeOK, DeleteCheck
    <2>4. (IssueHolds(p) /\ RestoreHolds(p) /\ CountHolds(p))'
      BY <2>2 DEF IssueHolds, RestoreHolds, CountHolds, Kind, Idle
    <2> QED BY Zenon, <1>3, <2>2, <2>3, <2>4, Preserve DEF DeleteCheck
  <1>4. ASSUME DeleteRows(p) PROVE Inv'
    <2>1. /\ job' \in [Handler -> Job] /\ job'[p] = Idle
          /\ \A q \in Handler \ {p} : job'[q] = job[q]
      BY Zenon, <1>1, <1>4, FinishJob DEF DeleteRows
    <2>2. (IssueHolds(p) /\ RestoreHolds(p) /\ CountHolds(p))'
      BY <2>1 DEF IssueHolds, RestoreHolds, CountHolds, Kind, Idle
    <2>3. CASE status = "gone"
      <3>1. TypeOK' /\ WarnedOut' /\ RecordInv'
        BY SMTT(30), <1>4, <2>1, <2>3, Untouched DEF Inv, TypeOK, DeleteRows
      <3> QED BY Zenon, <1>4, <2>1, <2>2, <3>1, Preserve DEF DeleteRows
    <2>4. CASE status # "gone"
      <3>1. Deletions' = {} /\ status' = "gone" /\ sanctions' \in [Sanction -> Row]
        BY Zenon, <1>4, <2>4, RemoveEmpties DEF DeleteRows
      <3>2. TypeOK'
        BY Zenon, <1>4, <2>1, <2>4, <3>1 DEF Inv, TypeOK, DeleteRows
      <3>3. WarnedOut' /\ RecordInv'
        BY Zenon, <3>1, Removed
      <3> QED BY Zenon, <1>4, <2>1, <2>2, <3>2, <3>3, Preserve DEF DeleteRows
    <2> QED BY Zenon, <2>3, <2>4
  <1> QED BY Zenon, <1>2, <1>3, <1>4

\* A step that is no request's: the row is free, or it is left alone.
LEMMA Outside ==
  ASSUME Inv, TypeOK', WarnedOut', RecordInv', UNCHANGED <<job, lock>>,
         lock = None \/ (status' = status /\ sanctions' = sanctions)
  PROVE  Inv'
  <1>1. ASSUME NEW q \in Handler PROVE (IssueHolds(q) /\ RestoreHolds(q) /\ CountHolds(q))'
    <2>1. CASE lock = None
      BY Zenon, <1>1, <2>1, ModerationAssumption DEF Inv, HoldsInv, IssueHolds, RestoreHolds, CountHolds
    <2>2. CASE status' = status /\ sanctions' = sanctions
      BY Zenon, <1>1, <2>2, SameSets DEF Inv, HoldsInv, IssueHolds, RestoreHolds, CountHolds
    <2> QED BY Zenon, <2>1, <2>2
  <1> QED BY Zenon, <1>1 DEF Inv, HoldsInv

\* handOverGroups deletes a group in use, which has no deletion on record.
LEMMA OrphanDeleteStep ==
  ASSUME Inv, NEW p \in Handler, OrphanDelete(p)
  PROVE  Inv'
  <1>1. TypeOK' /\ WarnedOut'
    BY Zenon DEF Inv, TypeOK, WarnedOut, OrphanDelete
  <1>2. Deletions' = Deletions
    BY Zenon, SameSets DEF OrphanDelete
  <1>3. RecordInv'
    BY Zenon, <1>2 DEF Inv, RecordInv, OrphanDelete
  <1> QED BY Zenon, <1>1, <1>3, Outside DEF OrphanDelete

\* The purge worker and the clock.
LEMMA WorkerStep ==
  ASSUME Inv, PurgeList \/ PurgeGroup \/ Tick
  PROVE  Inv'
  <1>1. CASE PurgeList
    <2>1. TypeOK' /\ WarnedOut' /\ RecordInv'
      BY Zenon, <1>1, Untouched DEF Inv, TypeOK, PurgeList
    <2> QED BY Zenon, <1>1, <2>1, Outside DEF PurgeList
  <1>2. CASE Tick
    <2>1. TypeOK' /\ WarnedOut' /\ RecordInv'
      BY <1>2, Untouched DEF Inv, TypeOK, Tick
    <2> QED BY Zenon, <1>2, <2>1, Outside DEF Tick
  <1>3. CASE PurgeGroup /\ status = "deleted"
    <2>1. Deletions' = {} /\ status' = "gone" /\ sanctions' \in [Sanction -> Row]
      BY Zenon, <1>3, RemoveEmpties DEF PurgeGroup
    <2>2. TypeOK'
      BY Zenon, <1>3, <2>1 DEF Inv, TypeOK, PurgeGroup
    <2>3. WarnedOut' /\ RecordInv'
      BY Zenon, <2>1, Removed
    <2> QED BY Zenon, <1>3, <2>2, <2>3, Outside DEF PurgeGroup
  <1>4. CASE PurgeGroup /\ status # "deleted"
    <2>1. TypeOK' /\ WarnedOut' /\ RecordInv'
      BY Zenon, <1>4, Untouched DEF Inv, TypeOK, PurgeGroup
    <2> QED BY Zenon, <1>4, <2>1, Outside DEF PurgeGroup
  <1> QED BY Zenon, <1>1, <1>2, <1>3, <1>4

\* Every step of the specification preserves the invariant.
LEMMA NextInv == Inv /\ [Next]_vars => Inv'
  <1> SUFFICES ASSUME Inv, [Next]_vars PROVE Inv'
    BY Zenon
  <1>1. CASE UNCHANGED vars
    <2>1. TypeOK' /\ WarnedOut' /\ RecordInv'
      BY Zenon, <1>1, Untouched DEF vars, Inv, TypeOK
    <2> QED BY Zenon, <1>1, <2>1, Outside DEF vars
  <1>2. ASSUME NEW p \in Handler, RequestStep(p) PROVE Inv'
    BY Zenon, <1>2, IssueLockStep, IssueCountStep, IssueCommitStep, RestoreCommitStep, HardDeleteStep
      DEF RequestStep
  <1> QED BY Zenon, <1>1, <1>2, IssueBeginStep, RestoreLockStep, OrphanDeleteStep, RevokeStep,
             HardDeleteStep, WorkerStep DEF Next

-----------------------------------------------------------------------------
(* The results *)

\* Every variable of the moderation service keeps its type.
THEOREM TypeCorrect == Spec => []TypeOK
  <1>1. Inv => TypeOK
    BY Zenon DEF Inv
  <1> QED BY InitInv, NextInv, <1>1, PTL DEF Spec

\* A group in use never has WarnLimit live warnings, for any limit and any
\* number of concurrent requests: lockGroup makes the count and the deletion
\* one step.
THEOREM WarningsDelete == Spec => []WarnedOut
  <1>1. Inv => WarnedOut
    BY Zenon DEF Inv
  <1> QED BY InitInv, NextInv, <1>1, PTL DEF Spec

\* One unrevoked deletion sanction stands behind a group that the CEO deleted,
\* and none behind any other: Issue inserts it with the deletion and Restore
\* closes it with the return.
THEOREM DeletionsRecorded == Spec => []DeletionOnRecord
  <1>1. Inv => DeletionOnRecord
    BY Zenon, FS_EmptySet, FS_Singleton DEF Inv, RecordInv, DeletionOnRecord, Deletions
  <1> QED BY InitInv, NextInv, <1>1, PTL DEF Spec

-----------------------------------------------------------------------------
(* The restore window *)

\* A restore under way is of a deleted group that is not on the worker's list;
\* a group on the list is gone or has had its window close; and messages are
\* missing only where the group is: all of it unless worker and restore crossed.
WindowInv ==
  /\ \A p \in Handler : job[p].op = "restore" => status = "deleted" /\ (due => crossed)
  /\ due => status = "gone" \/ Expired \/ crossed
  /\ ~msgs => status = "gone" \/ crossed

\* Nothing changes but the requests, none of which becomes a restore.
LEMMA WindowSame ==
  ASSUME WindowInv, UNCHANGED <<status, deletedAt, msgs, due, crossed, clock>>,
         \A p \in Handler : job'[p].op = "restore" => job[p].op = "restore"
  PROVE  WindowInv'
  BY Zenon DEF WindowInv, Expired

\* Every step keeps it.
LEMMA WindowStep ==
  ASSUME Inv, WindowInv, [Next]_vars
  PROVE  WindowInv'
  <1>0. /\ job \in [Handler -> Job] /\ clock \in Nat /\ deletedAt \in Nat /\ RestoreWindow \in Nat
        /\ lock \in Handler \cup {None} /\ None \notin Handler /\ status \in {"alive", "deleted", "gone"}
    BY Zenon, ModerationAssumption DEF Inv, TypeOK
  <1>h. ASSUME NEW p \in Handler, job[p].op \in Kind, job[p].pc = "commit"
        PROVE  lock = p /\ status = "alive"
    BY Zenon, <1>h DEF Inv, HoldsInv, IssueHolds
  <1>r. ASSUME NEW p \in Handler, job[p].op = "restore"
        PROVE  lock = p /\ status = "deleted" /\ (due => crossed) /\ (~msgs => crossed)
    BY Zenon, <1>r DEF Inv, HoldsInv, RestoreHolds, WindowInv
  <1>1. CASE UNCHANGED vars
    BY Zenon, <1>1, WindowSame DEF vars
  <1>2. ASSUME NEW p \in Handler, NEW k \in Kind, NEW d \in MuteDurations \cup {0}, IssueBegin(p, k, d)
        PROVE  WindowInv'
    <2>1. k # "restore"
      BY Zenon DEF Kind
    <2>2. \A q \in Handler : job'[q].op = "restore" => job[q].op = "restore"
      BY Zenon, <1>0, <1>2, <2>1 DEF IssueBegin, Start
    <2> QED BY Zenon, <1>2, <2>2, WindowSame DEF IssueBegin
  <1>3. ASSUME NEW p \in Handler, NEW who \in {"founder", "ceo"}, DeleteGet(p, who)
        PROVE  WindowInv'
    <2>1. \A q \in Handler : job'[q].op = "restore" => job[q].op = "restore"
      BY Zenon, <1>0, <1>3 DEF DeleteGet, Start
    <2> QED BY Zenon, <1>3, <2>1, WindowSame DEF DeleteGet
  <1>4. ASSUME NEW p \in Handler, IssueLock(p) \/ IssueCount(p) \/ DeleteCheck(p)
        PROVE  WindowInv'
    <2>1. \A q \in Handler : job'[q].op = "restore" => job[q].op = "restore"
      <3>1. (\E x \in Pc : Goto(p, x)) \/ Finish(p) \/ (\E n : Counted(p, n))
        BY Zenon, <1>4 DEF IssueLock, IssueCount, DeleteCheck, Pc
      <3>2. ASSUME NEW x \in Pc, Goto(p, x) PROVE \A q \in Handler : job'[q].op = job[q].op
        BY Zenon, <1>0, <3>2 DEF Goto, Job
      <3>3. ASSUME NEW n, Counted(p, n) PROVE \A q \in Handler : job'[q].op = job[q].op
        BY Zenon, <1>0, <3>3 DEF Counted, Job
      <3>4. CASE Finish(p)
        BY Zenon, <1>0, <3>4 DEF Finish, Idle
      <3> QED BY Zenon, <3>1, <3>2, <3>3, <3>4
    <2>2. UNCHANGED <<status, deletedAt, msgs, due, crossed, clock>>
      BY Zenon, <1>4 DEF IssueLock, IssueCount, DeleteCheck
    <2> QED BY Zenon, <2>1, <2>2, WindowSame
  <1>5. ASSUME NEW p \in Handler, NEW s \in Sanction, Revoke(p, s)
        PROVE  WindowInv'
    BY Zenon, <1>5, WindowSame DEF Revoke
  <1>6. ASSUME NEW p \in Handler, NEW s \in Sanction, NEW a \in Sanction, IssueCommit(p, s, a)
        PROVE  WindowInv'
    <2>1. lock = p /\ status = "alive" /\ Finish(p) /\ msgs' = msgs /\ due' = due /\ crossed' = crossed
      BY Zenon, <1>6, <1>h DEF IssueCommit
    <2>2. (due => crossed) /\ (~msgs => crossed)
      BY Zenon, <2>1 DEF WindowInv, Expired
    <2>3. \A q \in Handler : job'[q].op # "restore"
      BY Zenon, <1>0, <1>r, <2>1 DEF Finish, Idle
    <2> QED BY Zenon, <2>1, <2>2, <2>3 DEF WindowInv
  <1>7. ASSUME NEW p \in Handler, RestoreCommit(p) PROVE WindowInv'
    <2>1. /\ lock = p /\ Finish(p) /\ msgs' = msgs /\ due' = due /\ crossed' = crossed
          /\ (due => crossed) /\ (~msgs => crossed)
      BY Zenon, <1>7, <1>r DEF RestoreCommit
    <2>2. \A q \in Handler : job'[q].op # "restore"
      BY Zenon, <1>0, <1>r, <2>1 DEF Finish, Idle
    <2> QED BY Zenon, <2>1, <2>2 DEF WindowInv
  <1>8. ASSUME NEW p \in Handler, RestoreLock(p) PROVE WindowInv'
    <2>1. \A q \in Handler : job'[q].op = "restore" => q = p \/ job[q].op = "restore"
      BY Zenon, <1>0, <1>8 DEF RestoreLock, Start
    <2>2. status = "deleted" /\ clock <= deletedAt + RestoreWindow
          /\ UNCHANGED <<status, deletedAt, msgs, due, crossed, clock>>
      BY Zenon, <1>8 DEF RestoreLock
    <2>3. ~Expired
      BY <1>0, <2>2 DEF Expired
    <2>4. Expired' <=> Expired
      BY Zenon, <2>2 DEF Expired
    <2> QED BY Zenon, <2>1, <2>2, <2>3, <2>4 DEF WindowInv
  <1>9. ASSUME NEW p \in Handler, DeleteRows(p) PROVE WindowInv'
    <2>1. lock = None /\ Finish(p) /\ UNCHANGED <<deletedAt, due, clock>>
      BY Zenon, <1>9 DEF DeleteRows
    <2>2. \A q \in Handler : job'[q].op # "restore"
      BY Zenon, <1>0, <1>r, <2>1 DEF Finish, Idle
    <2>3. status' = "gone"
      BY Zenon, <1>9 DEF DeleteRows, Remove
    <2> QED BY Zenon, <2>2, <2>3 DEF WindowInv
  <1>10. ASSUME NEW p \in Handler, OrphanDelete(p) PROVE WindowInv'
    <2>1. lock = None /\ status = "alive" /\ UNCHANGED <<msgs, due, crossed, job>>
      BY Zenon, <1>10 DEF OrphanDelete
    <2>2. (due => crossed) /\ (~msgs => crossed)
      BY Zenon, <2>1 DEF WindowInv, Expired
    <2>3. \A q \in Handler : job'[q].op # "restore"
      BY Zenon, <1>0, <1>r, <2>1
    <2> QED BY Zenon, <2>1, <2>2, <2>3 DEF WindowInv
  <1>11. CASE PurgeList
    <2>1. UNCHANGED <<status, deletedAt, msgs, clock, job>> /\ Expired
      BY Zenon, <1>11 DEF PurgeList
    <2>2. crossed' <=> (crossed \/ \E p \in Handler : job[p].op = "restore")
      BY Zenon, <1>11 DEF PurgeList
    <2>3. Expired'
      BY Zenon, <2>1 DEF Expired
    <2> QED BY Zenon, <2>1, <2>2, <2>3 DEF WindowInv
  <1>12. CASE PurgeGroup
    <2>1. lock = None /\ due /\ due' = FALSE /\ UNCHANGED <<crossed, job>>
      BY Zenon, <1>12 DEF PurgeGroup
    <2>2. status = "deleted" \/ status = "gone" \/ crossed
      BY Zenon, <2>1 DEF WindowInv, Expired
    <2>3. status' = "gone" \/ crossed
      BY Zenon, <1>12, <2>2 DEF PurgeGroup, Remove
    <2>4. \A q \in Handler : job'[q].op # "restore"
      BY Zenon, <1>0, <1>r, <2>1
    <2> QED BY Zenon, <2>1, <2>3, <2>4 DEF WindowInv
  <1>13. CASE Tick
    <2>1. clock' = clock + 1 /\ UNCHANGED <<status, deletedAt, msgs, due, crossed, job>>
      BY Zenon, <1>13 DEF Tick
    <2>2. Expired => Expired'
      BY <1>0, <2>1 DEF Expired
    <2> QED BY Zenon, <2>1, <2>2 DEF WindowInv
  <1> QED
    BY Zenon, <1>1, <1>2, <1>3, <1>4, <1>5, <1>6, <1>7, <1>8, <1>9, <1>10, <1>11, <1>12, <1>13 DEF Next, RequestStep

\* No restore under way, nothing on the worker's list.
LEMMA WindowInit == Init => WindowInv
  BY DEF Init, WindowInv, Idle

\* A hard delete under way looked at the group before it was deleted.
LookedInv ==
  \A p \in Handler : job[p].op \in {"founder", "ceo"} =>
    /\ job[p].pc \in {"check", "delete"}
    /\ job[p].began <= clock
    /\ status = "deleted" => job[p].began <= deletedAt

\* Nothing of it changes but the requests, none of which becomes a hard delete.
LEMMA LookedSame ==
  ASSUME LookedInv, UNCHANGED <<status, deletedAt, clock>>,
         \A p \in Handler : job'[p].op \in {"founder", "ceo"} => job'[p] = job[p]
  PROVE  LookedInv'
  BY Zenon DEF LookedInv

\* Every step keeps it: Delete starts from a group in use.
LEMMA LookedStep ==
  ASSUME Inv, LookedInv, [Next]_vars
  PROVE  LookedInv'
  <1>0. job \in [Handler -> Job] /\ clock \in Nat /\ deletedAt \in Nat /\ \A p \in Handler : job[p].began \in Nat
    BY Zenon DEF Inv, TypeOK, Job
  <1>f. ASSUME NEW p \in Handler, Finish(p) PROVE \A q \in Handler : job'[q].op \in {"founder", "ceo"} => job'[q] = job[q]
    BY Zenon, <1>0, <1>f DEF Finish, Idle
  <1>1. CASE UNCHANGED vars
    BY Zenon, <1>1, LookedSame DEF vars
  <1>2. ASSUME NEW p \in Handler, NEW k \in Kind, NEW d \in MuteDurations \cup {0}, IssueBegin(p, k, d)
        PROVE  LookedInv'
    <2>1. k \notin {"founder", "ceo"}
      BY Zenon DEF Kind
    <2>2. \A q \in Handler : job'[q].op \in {"founder", "ceo"} => job'[q] = job[q]
      BY Zenon, <1>0, <1>2, <2>1 DEF IssueBegin, Start
    <2> QED BY Zenon, <1>2, <2>2, LookedSame DEF IssueBegin
  <1>3. ASSUME NEW p \in Handler, NEW who \in {"founder", "ceo"}, DeleteGet(p, who)
        PROVE  LookedInv'
    <2>1. /\ \A q \in Handler : q # p => job'[q] = job[q]
          /\ job'[p].pc \in {"check", "delete"} /\ job'[p].began = clock
      BY Zenon, <1>0, <1>3 DEF DeleteGet, Start
    <2>2. status = "alive" /\ UNCHANGED <<status, deletedAt, clock>> /\ clock <= clock
      BY <1>0, <1>3 DEF DeleteGet
    <2> QED BY Zenon, <2>1, <2>2 DEF LookedInv
  <1>4. ASSUME NEW p \in Handler, IssueLock(p) \/ IssueCount(p) PROVE LookedInv'
    <2>1. \A q \in Handler : job'[q].op \in {"founder", "ceo"} => job'[q] = job[q]
      <3>1. (\E x \in Pc : Goto(p, x)) \/ Finish(p) \/ (\E n : Counted(p, n))
        BY Zenon, <1>4 DEF IssueLock, IssueCount, Pc
      <3>2. job[p].op \notin {"founder", "ceo"}
        BY Zenon, <1>4 DEF IssueLock, IssueCount, Kind
      <3>3. ASSUME NEW x \in Pc, Goto(p, x) PROVE \A q \in Handler : job'[q].op = job[q].op /\ (q # p => job'[q] = job[q])
        BY Zenon, <1>0, <3>3 DEF Goto, Job
      <3>4. ASSUME NEW n, Counted(p, n) PROVE \A q \in Handler : job'[q].op = job[q].op /\ (q # p => job'[q] = job[q])
        BY Zenon, <1>0, <3>4 DEF Counted, Job
      <3> QED BY Zenon, <1>f, <3>1, <3>2, <3>3, <3>4
    <2>2. UNCHANGED <<status, deletedAt, clock>>
      BY Zenon, <1>4 DEF IssueLock, IssueCount
    <2> QED BY Zenon, <2>1, <2>2, LookedSame
  <1>5. ASSUME NEW p \in Handler, DeleteCheck(p) PROVE LookedInv'
    <2>1. UNCHANGED <<status, deletedAt, clock>> /\ (Finish(p) \/ Goto(p, "delete"))
      BY Zenon, <1>5 DEF DeleteCheck
    <2>2. CASE Finish(p)
      BY Zenon, <1>f, <2>1, <2>2, LookedSame
    <2>3. CASE Goto(p, "delete")
      <3>1. /\ \A q \in Handler : job'[q].op = job[q].op /\ job'[q].began = job[q].began
            /\ \A q \in Handler : q # p => job'[q].pc = job[q].pc
            /\ job'[p].pc = "delete"
        BY Zenon, <1>0, <2>3 DEF Goto, Job
      <3> QED BY Zenon, <2>1, <3>1 DEF LookedInv
    <2> QED BY Zenon, <2>1, <2>2, <2>3
  <1>6. ASSUME NEW p \in Handler, NEW s \in Sanction, Revoke(p, s) PROVE LookedInv'
    BY Zenon, <1>6, LookedSame DEF Revoke
  <1>7. ASSUME NEW p \in Handler, NEW s \in Sanction, NEW a \in Sanction, IssueCommit(p, s, a)
        PROVE  LookedInv'
    <2>1. /\ Finish(p) /\ clock' = clock
          /\ deletedAt' = clock \/ (status' = status /\ deletedAt' = deletedAt)
      BY Zenon, <1>7 DEF IssueCommit
    <2> QED BY Zenon, <1>f, <2>1 DEF LookedInv
  <1>8. ASSUME NEW p \in Handler, RestoreCommit(p) PROVE LookedInv'
    <2>1. Finish(p) /\ clock' = clock /\ status' = "alive"
      BY Zenon, <1>8 DEF RestoreCommit
    <2> QED BY Zenon, <1>f, <2>1 DEF LookedInv
  <1>9. ASSUME NEW p \in Handler, RestoreLock(p) PROVE LookedInv'
    <2>1. \A q \in Handler : job'[q].op \in {"founder", "ceo"} => job'[q] = job[q]
      BY Zenon, <1>0, <1>9 DEF RestoreLock, Start
    <2> QED BY Zenon, <1>9, <2>1, LookedSame DEF RestoreLock
  <1>10. ASSUME NEW p \in Handler, DeleteRows(p) PROVE LookedInv'
    <2>1. Finish(p) /\ clock' = clock /\ status' = "gone"
      BY Zenon, <1>10 DEF DeleteRows, Remove
    <2> QED BY Zenon, <1>f, <2>1 DEF LookedInv
  <1>11. ASSUME NEW p \in Handler, OrphanDelete(p) PROVE LookedInv'
    BY Zenon, <1>11 DEF OrphanDelete, LookedInv
  <1>12. CASE PurgeList
    BY Zenon, <1>12, LookedSame DEF PurgeList
  <1>13. CASE PurgeGroup
    <2>1. UNCHANGED <<deletedAt, clock, job>> /\ (status' = status \/ status' = "gone")
      BY Zenon, <1>13 DEF PurgeGroup, Remove
    <2> QED BY Zenon, <2>1 DEF LookedInv
  <1>14. CASE Tick
    <2>1. clock' = clock + 1 /\ UNCHANGED <<status, deletedAt, job>>
      BY Zenon, <1>14 DEF Tick
    <2>2. \A p \in Handler : job[p].began <= clock => job[p].began <= clock'
      BY <1>0, <2>1
    <2> QED BY Zenon, <2>1, <2>2 DEF LookedInv
  <1> QED
    BY Zenon, <1>1, <1>2, <1>3, <1>4, <1>5, <1>6, <1>7, <1>8, <1>9, <1>10, <1>11, <1>12, <1>13, <1>14 DEF Next, RequestStep

\* A group in use has all its messages, however the purge worker, hard deletes,
\* restores and new deletions interleave, unless the worker listed it while a
\* restore that had found its window open was still in its transaction: a group
\* on the list is otherwise past its window, where Restore refuses it.
THEOREM RestoresWhole == Spec => []RestoredWhole
  <1>1. Init => Inv /\ WindowInv
    BY Zenon, InitInv, WindowInit
  <1>2. Inv /\ WindowInv /\ [Next]_vars => (Inv /\ WindowInv)'
    BY Zenon, NextInv, WindowStep
  <1>3. WindowInv => RestoredWhole
    BY Zenon DEF WindowInv, RestoredWhole
  <1> QED BY <1>1, <1>2, <1>3, PTL DEF Spec

\* A group is removed for good before its window closed in two ways only: by a
\* hard delete that looked at it before it was deleted, and by a worker that
\* listed it under a restore.  Otherwise the worker, which removes what it finds
\* deleted without looking at the date, never meets a later deletion.
THEOREM RemovedAfterWindow == Spec => DeletionStaysRestorable
  <1> DEFINE Early == status = "deleted" /\ status' = "gone" /\ clock <= deletedAt + RestoreWindow
             Known == (crossed /\ PurgeGroup) \/ \E p \in Handler : StaleDelete(p) /\ DeleteRows(p)
  <1>1. Init => Inv /\ WindowInv /\ LookedInv
    <2>1. Init => LookedInv
      BY DEF Init, LookedInv, Idle
    <2> QED BY Zenon, <2>1, InitInv, WindowInit
  <1>2. Inv /\ WindowInv /\ LookedInv /\ [Next]_vars => (Inv /\ WindowInv /\ LookedInv)'
    BY Zenon, NextInv, WindowStep, LookedStep
  <1>3. Inv /\ WindowInv /\ LookedInv /\ [Next]_vars => [Early => Known]_vars
    <2> SUFFICES ASSUME Inv, WindowInv, LookedInv, Next, Early
                 PROVE  Known
      BY Zenon
    <2>1. CASE PurgeGroup
      <3>1. ~Expired
        BY ModerationAssumption DEF Inv, TypeOK, Expired
      <3> QED BY Zenon, <2>1, <3>1 DEF PurgeGroup, WindowInv
    <2>2. CASE \E p \in Handler : DeleteRows(p)
      BY Zenon, <2>2 DEF DeleteRows, LookedInv, StaleDelete
    <2>3. status' = status \/ status' = "deleted" \/ status' = "alive" \/ PurgeGroup \/ \E p \in Handler : DeleteRows(p)
      BY Zenon DEF Next, RequestStep, IssueBegin, IssueLock, IssueCount, IssueCommit, Revoke, RestoreLock,
         RestoreCommit, PurgeList, DeleteGet, DeleteCheck, OrphanDelete, Tick
    <2> QED BY Zenon, <2>1, <2>2, <2>3
  <1> QED BY <1>1, <1>2, <1>3, PTL DEF Spec, DeletionStaysRestorable

-----------------------------------------------------------------------------
(* One mute at a time *)

\* No mute runs out while another is being issued.  Issue looks for the mute to
\* replace among those live when its transaction began and takes the latest
\* issued: of two that were live then, it may take the one that has run out.
MuteIsQuick == "mute" \notin SlowTx

\* The mute a request will replace is the one that is live now.
MuteInv ==
  /\ \A p \in Handler : job[p].op = "mute" => job[p].began = clock
  /\ \A r, s \in Muted(clock) : r = s

\* A step that adds no live mute, and no request to mute but at the clock.
LEMMA MuteSame ==
  ASSUME MuteInv, Muted(clock)' \subseteq Muted(clock),
         \A p \in Handler : job'[p].op = "mute" => job'[p].began = clock'
  PROVE  MuteInv'
  BY Zenon DEF MuteInv

\* Removing the group leaves no mute, revoking none more.
LEMMA MutedShrinks ==
  ASSUME clock' = clock
  PROVE  /\ Remove => Muted(clock)' = {}
         /\ (\A x \in Sanction : sanctions'[x] = sanctions[x]) => Muted(clock)' = Muted(clock)
         /\ (\A x \in Sanction : /\ sanctions'[x].kind = sanctions[x].kind
                                 /\ sanctions'[x].expires = sanctions[x].expires
                                 /\ sanctions[x].revoked => sanctions'[x].revoked)
              => Muted(clock)' \subseteq Muted(clock)
  <1>1. Remove => Muted(clock)' = {}
    BY DEF Remove, Muted, Unrevoked, NoRow
  <1>2. (\A x \in Sanction : sanctions'[x] = sanctions[x]) => Muted(clock)' = Muted(clock)
    BY Zenon DEF Muted, Unrevoked, LiveAt
  <1>3. (\A x \in Sanction : /\ sanctions'[x].kind = sanctions[x].kind
                             /\ sanctions'[x].expires = sanctions[x].expires
                             /\ sanctions[x].revoked => sanctions'[x].revoked)
          => Muted(clock)' \subseteq Muted(clock)
    BY Zenon DEF Muted, Unrevoked, LiveAt
  <1> QED BY Zenon, <1>1, <1>2, <1>3

\* The commit of Issue: a mute takes the place of the live one.
LEMMA MuteCommit ==
  ASSUME Inv, MuteInv, NEW p \in Handler, NEW s \in Sanction, NEW a \in Sanction, IssueCommit(p, s, a)
  PROVE  \A x, y \in Muted(clock)' : x = y
  <1> DEFINE j == job[p]
  <1>0. /\ clock' = clock /\ j.op \in Kind /\ sanctions \in [Sanction -> Row]
        /\ j.op = "mute" => j.began = clock
    BY Zenon DEF IssueCommit, Inv, TypeOK, MuteInv
  <1>1. PICK old \in SUBSET Replaced(j) :
          /\ Cardinality(old) = IF Replaced(j) = {} THEN 0 ELSE 1
          /\ sanctions' = Inserted(j, s, a, old)
    BY Zenon DEF IssueCommit
  <1> HIDE DEF j
  <1>2. \A x \in Sanction :
          /\ x # s /\ x \in Muted(clock)' => x \in Muted(clock) /\ x \notin old
          /\ x = s /\ x \in Muted(clock)' => j.op = "mute"
    <2> SUFFICES ASSUME NEW x \in Sanction, x \in Muted(clock)'
                 PROVE  /\ x # s => x \in Muted(clock) /\ x \notin old
                        /\ x = s => j.op = "mute"
      BY Zenon
    <2>1. /\ sanctions'[x].kind = "mute" /\ ~sanctions'[x].revoked
          /\ sanctions'[x].expires = 0 \/ sanctions'[x].expires > clock
      BY Zenon, <1>0 DEF Muted, Unrevoked, LiveAt
    <2>2. sanctions'[x] = IF x = s THEN NewRow(j)
                          ELSE IF x = a /\ ReachesLimit(j) THEN AutoRow(j)
                          ELSE IF x \in old THEN [sanctions[x] EXCEPT !.revoked = TRUE]
                          ELSE sanctions[x]
      BY Zenon, <1>1 DEF Inserted
    <2>3. CASE x = s
      BY <2>1, <2>2, <2>3 DEF NewRow
    <2>4. CASE x # s /\ x \in old
      <3>1. sanctions'[x].revoked \/ sanctions'[x].kind = "delete"
        <4>1. sanctions[x] \in Row
          BY Zenon, <1>0
        <4>2. [sanctions[x] EXCEPT !.revoked = TRUE].revoked
          BY Zenon, <4>1 DEF Row
        <4> QED BY <2>2, <2>4, <4>2 DEF AutoRow
      <3> QED BY Zenon, <2>1, <3>1
    <2>5. CASE x # s /\ x \notin old
      <3>1. sanctions'[x] = sanctions[x]
        BY <2>1, <2>2, <2>5 DEF AutoRow
      <3> QED BY Zenon, <2>1, <2>5, <3>1 DEF Muted, Unrevoked, LiveAt
    <2> QED BY Zenon, <2>3, <2>4, <2>5
  <1>3. \A x \in Muted(clock)' : x \in Sanction
    BY Zenon DEF Muted, Unrevoked
  <1>4. CASE j.op # "mute"
    BY Zenon, <1>2, <1>3, <1>4 DEF MuteInv
  <1>5. CASE j.op = "mute"
    <2>1. \A x \in Muted(clock) : x \in old
      <3> SUFFICES ASSUME NEW x \in Muted(clock) PROVE x \in old
        BY Zenon
      <3>1. Muted(clock) = {x}
        BY Zenon DEF MuteInv
      <3>2. sanctions[x].issued \in Nat
        BY Zenon, <1>0 DEF Muted, Unrevoked, Row
      <3>3. x \in Replaced(j)
        BY <1>0, <1>5, <3>1, <3>2 DEF Replaced
      <3>4. Replaced(j) \subseteq {x}
        BY Zenon, <1>0, <1>5, <3>1 DEF Replaced
      <3>5. old # {}
        BY <1>1, <3>3, FS_EmptySet
      <3> QED BY Zenon, <3>4, <3>5
    <2> QED BY Zenon, <1>2, <1>3, <2>1
  <1> QED BY Zenon, <1>4, <1>5

\* Every step keeps the invariant.
LEMMA MuteStep ==
  ASSUME MuteIsQuick, Inv, MuteInv, [Next]_vars
  PROVE  MuteInv'
  <1>0. job \in [Handler -> Job] /\ clock \in Nat /\ sanctions \in [Sanction -> Row]
    BY Zenon DEF Inv, TypeOK
  <1>a. \A p \in Handler : job[p].op = "mute" => job[p].began = clock
    BY Zenon DEF MuteInv
  <1>b. ASSUME NEW p \in Handler, Finish(p) \/ (\E x \in Pc : Goto(p, x)) \/ (\E n \in Nat : Counted(p, n)), clock' = clock
        PROVE  \A q \in Handler : job'[q].op = "mute" => job'[q].began = clock'
    <2>1. CASE Finish(p)
      BY <1>0, <1>a, <1>b, <2>1, FinishJob DEF Idle
    <2>2. ASSUME NEW x \in Pc, Goto(p, x) PROVE \A q \in Handler : job'[q].op = job[q].op /\ job'[q].began = job[q].began
      BY Zenon, <1>0, <2>2 DEF Goto, Job
    <2>3. ASSUME NEW n \in Nat, Counted(p, n) PROVE \A q \in Handler : job'[q].op = job[q].op /\ job'[q].began = job[q].began
      BY Zenon, <1>0, <2>3 DEF Counted, Job
    <2> QED BY Zenon, <1>a, <1>b, <2>1, <2>2, <2>3
  <1>c. ASSUME NEW p \in Handler, NEW o, NEW x, NEW e, Start(p, o, x, e), clock' = clock
        PROVE  \A q \in Handler : job'[q].op = "mute" => job'[q].began = clock'
    BY Zenon, <1>0, <1>a, <1>c DEF Start
  <1>d. UNCHANGED <<sanctions, clock>> => Muted(clock)' = Muted(clock)
    BY Zenon, MutedShrinks
  <1>1. CASE UNCHANGED vars
    BY Zenon, <1>1, <1>a, <1>d, MuteSame DEF vars
  <1>2. ASSUME NEW p \in Handler,
               \/ \E k \in Kind, d \in MuteDurations \cup {0} : IssueBegin(p, k, d)
               \/ RestoreLock(p) \/ \E who \in {"founder", "ceo"} : DeleteGet(p, who)
        PROVE  MuteInv'
    <2>1. (\E o, x, e : Start(p, o, x, e)) /\ UNCHANGED <<sanctions, clock>>
      BY Zenon, <1>2 DEF IssueBegin, RestoreLock, DeleteGet
    <2> QED BY Zenon, <1>c, <1>d, <2>1, MuteSame
  <1>3. ASSUME NEW p \in Handler, IssueLock(p) \/ IssueCount(p) \/ DeleteCheck(p)
        PROVE  MuteInv'
    <2>1. UNCHANGED <<sanctions, clock>>
      BY Zenon, <1>3 DEF IssueLock, IssueCount, DeleteCheck
    <2>2. Finish(p) \/ (\E x \in Pc : Goto(p, x)) \/ (\E n \in Nat : Counted(p, n))
      <3>1. Cardinality(Unrevoked("warn")) + (IF job[p].op = "warn" THEN 1 ELSE 0) \in Nat
        BY UnrevokedFinite
      <3> QED BY Zenon, <1>3, <3>1 DEF IssueLock, IssueCount, DeleteCheck, Pc
    <2> QED BY Zenon, <1>b, <1>d, <2>1, <2>2, MuteSame
  <1>4. ASSUME NEW p \in Handler, NEW s \in Sanction, NEW a \in Sanction, IssueCommit(p, s, a)
        PROVE  MuteInv'
    <2>1. Finish(p) /\ clock' = clock
      BY Zenon, <1>4 DEF IssueCommit
    <2> QED BY Zenon, <1>4, <1>b, <2>1, MuteCommit DEF MuteInv
  <1>5. ASSUME NEW p \in Handler, RestoreCommit(p) PROVE MuteInv'
    <2>1. Finish(p) /\ clock' = clock
      BY Zenon, <1>5 DEF RestoreCommit
    <2>2. PICK old \in SUBSET Sanction : sanctions' = Restored(old)
      BY Zenon, <1>5 DEF RestoreCommit
    <2>3. ASSUME NEW x \in Sanction
          PROVE  /\ sanctions'[x].kind = sanctions[x].kind
                 /\ sanctions'[x].expires = sanctions[x].expires
                 /\ sanctions[x].revoked => sanctions'[x].revoked
      <3>1. sanctions'[x] = [sanctions[x] EXCEPT !.revoked = @ \/ x \in old \cup Unrevoked("delete")]
        BY Zenon, <2>2 DEF Restored
      <3>2. sanctions[x] \in Row
        BY Zenon, <1>0
      <3> QED BY Zenon, <3>1, <3>2 DEF Row
    <2> QED BY Zenon, <1>b, <2>1, <2>3, MutedShrinks, MuteSame
  <1>6. ASSUME NEW p \in Handler, NEW s \in Sanction, Revoke(p, s) PROVE MuteInv'
    <2>1. clock' = clock /\ job' = job /\ sanctions' = [sanctions EXCEPT ![s].revoked = TRUE]
      BY Zenon, <1>6 DEF Revoke
    <2>2. \A x \in Sanction : /\ sanctions'[x].kind = sanctions[x].kind
                              /\ sanctions'[x].expires = sanctions[x].expires
                              /\ sanctions[x].revoked => sanctions'[x].revoked
      BY Zenon, <1>0, <2>1 DEF Row
    <2> QED BY Zenon, <1>a, <2>1, <2>2, MutedShrinks, MuteSame
  <1>7. ASSUME NEW p \in Handler, DeleteRows(p) PROVE MuteInv'
    <2>1. Finish(p) /\ clock' = clock /\ (UNCHANGED sanctions \/ Remove)
      BY Zenon, <1>7 DEF DeleteRows
    <2> QED BY Zenon, <1>b, <2>1, MutedShrinks, MuteSame
  <1>8. ASSUME NEW p \in Handler, OrphanDelete(p) PROVE MuteInv'
    BY Zenon, <1>8, <1>a, <1>d, MuteSame DEF OrphanDelete
  <1>9. CASE PurgeList
    BY Zenon, <1>9, <1>a, <1>d, MuteSame DEF PurgeList
  <1>10. CASE PurgeGroup
    <2>1. clock' = clock /\ job' = job /\ (UNCHANGED sanctions \/ Remove)
      BY Zenon, <1>10 DEF PurgeGroup
    <2> QED BY Zenon, <1>a, <2>1, MutedShrinks, MuteSame
  <1>11. CASE Tick
    <2>1. \A p \in Handler : job'[p].op # "mute"
      BY Zenon, <1>11 DEF Tick, MuteIsQuick
    <2>2. clock' = clock + 1 /\ sanctions' = sanctions
      BY Zenon, <1>11 DEF Tick
    <2>3. Muted(clock)' \subseteq Muted(clock)
      <3>1. \A x \in Sanction : sanctions[x].expires \in Nat
        BY Zenon, <1>0 DEF Row
      <3> QED BY <1>0, <2>2, <3>1 DEF Muted, Unrevoked, LiveAt
    <2> QED BY Zenon, <2>1, <2>3, MuteSame
  <1> QED
    BY Zenon, <1>1, <1>2, <1>3, <1>4, <1>5, <1>6, <1>7, <1>8, <1>9, <1>10, <1>11 DEF Next, RequestStep

\* "Muted until" has a single answer, for any number of sanctions and of
\* requests at once, when no mute runs out while another is being issued:
\* lockGroup makes Issue find and replace the live mute in one step.
THEOREM MutedOnce ==
  ASSUME MuteIsQuick
  PROVE  Spec => []OneLiveMute
  <1>1. Init => Inv /\ MuteInv
    <2>1. Init => MuteInv
      BY DEF Init, MuteInv, Muted, Unrevoked, NoRow, Idle
    <2> QED BY Zenon, <2>1, InitInv
  <1>2. Inv /\ MuteInv /\ [Next]_vars => (Inv /\ MuteInv)'
    BY Zenon, NextInv, MuteStep
  <1>3. MuteInv => OneLiveMute
    <2> SUFFICES ASSUME MuteInv PROVE Cardinality(Muted(clock)) <= 1
      BY Zenon DEF OneLiveMute
    <2>1. CASE Muted(clock) = {}
      BY <2>1, FS_EmptySet
    <2>2. ASSUME NEW x \in Muted(clock) PROVE Cardinality(Muted(clock)) <= 1
      <3>1. Muted(clock) = {x}
        BY Zenon DEF MuteInv
      <3>2. Cardinality(Muted(clock)) = 1
        BY Zenon, <3>1, FS_Singleton
      <3> QED BY <3>2
    <2> QED BY Zenon, <2>1, <2>2
  <1> QED BY <1>1, <1>2, <1>3, PTL DEF Spec
=============================================================================
