----------------------------- MODULE GroupLine ------------------------------
(***************************************************************************)
(* The steps of Group keep the types, the one line of commits and what     *)
(* lets a device catch up, for any number of devices, key packages and     *)
(* failures.  NoFork alone is not inductive: it says nothing of the        *)
(* commits that devices are about to publish.  The invariant adds that     *)
(* each of those extends a state of the one line, and that the epoch       *)
(* counts the line's commits; so the only commit AdvanceEpoch can let      *)
(* through extends the whole line.  For catching up it adds that the feed  *)
(* has the frames of the epochs in order, with at most one commit between  *)
(* its epoch and its insert; that a device's cursor is not ahead of its    *)
(* state; and that a device has the states of its own commits, which it    *)
(* passes over.  GroupProofs concludes.                                    *)
(***************************************************************************)
EXTENDS Group, TLAPS

\* What is used of packages as numbers: a set of them that is not empty has a
\* least one, and sets of them can be counted.  GroupProofs proves it.
Counting ==
  /\ \A S \in SUBSET Package : Cardinality(S) \in Nat /\ (S # {} => Min(S) \in S)
  /\ \A m, n \in Int : Cardinality(m .. n) = IF m > n THEN 0 ELSE n - m + 1

(***************************************************************************)
(* Sequences                                                               *)
(***************************************************************************)
\* An element of a sequence; the length of one that is not empty.
LEMMA SeqElement == ASSUME NEW S, NEW s \in Seq(S), NEW n \in 1 .. Len(s) PROVE s[n] \in S
  OBVIOUS

LEMMA SeqNotEmpty == ASSUME NEW S, NEW s \in Seq(S), s # << >> PROVE Len(s) \in Nat \ {0}
  OBVIOUS

\* Sequences are equal element by element.
LEMMA SeqSame ==
  ASSUME NEW S, NEW s \in Seq(S), NEW t \in Seq(S), Len(s) = Len(t), \A i \in 1 .. Len(s) : s[i] = t[i]
  PROVE  s = t
  OBVIOUS

\* What Append adds, and what the beginning of a sequence is.
LEMMA SeqAppend ==
  ASSUME NEW S, NEW s \in Seq(S), NEW e \in S
  PROVE  /\ Append(s, e) \in Seq(S) /\ Append(s, e) # << >> /\ Len(Append(s, e)) = Len(s) + 1
         /\ \A i \in 1 .. Len(s) : Append(s, e)[i] = s[i]
         /\ Append(s, e)[Len(s) + 1] = e
  OBVIOUS

LEMMA SeqCut ==
  ASSUME NEW S, NEW s \in Seq(S), NEW n \in 0 .. Len(s)
  PROVE  /\ SubSeq(s, 1, n) \in Seq(S) /\ Len(SubSeq(s, 1, n)) = n
         /\ \A i \in 1 .. n : SubSeq(s, 1, n)[i] = s[i]
  OBVIOUS

(***************************************************************************)
(* Prefixes                                                                *)
(***************************************************************************)
\* A prefix, element by element.
LEMMA PrefixByElement ==
  ASSUME NEW S, NEW s \in Seq(S), NEW t \in Seq(S)
  PROVE  IsPrefix(s, t) <=> Len(s) <= Len(t) /\ \A i \in 1 .. Len(s) : s[i] = t[i]
<1>1. Len(s) \in Nat /\ Len(t) \in Nat
  OBVIOUS
<1>2. SubSeq(s, 1, Len(s)) = s
  OBVIOUS
<1>3. CASE Len(s) <= Len(t)
  <2>2. /\ SubSeq(t, 1, Len(s)) \in Seq(S)
        /\ Len(SubSeq(t, 1, Len(s))) = Len(s)
        /\ \A i \in 1 .. Len(s) : SubSeq(t, 1, Len(s))[i] = t[i]
    BY <1>1, <1>3, SeqCut
  <2>3. (s = SubSeq(t, 1, Len(s))) <=> \A i \in 1 .. Len(s) : s[i] = t[i]
    BY Zenon, <2>2, SeqSame
  <2> QED
    BY Zenon, <1>2, <1>3, <2>3 DEF IsPrefix
<1>4. CASE ~(Len(s) <= Len(t))
  BY Zenon, <1>4 DEF IsPrefix
<1> QED
  BY Zenon, <1>3, <1>4

\* Being a prefix is transitive; a sequence and the empty one are prefixes.
LEMMA PrefixOrder ==
  ASSUME NEW S, NEW s \in Seq(S), NEW t \in Seq(S), NEW u \in Seq(S)
  PROVE  /\ IsPrefix(s, s) /\ IsPrefix(<< >>, s)
         /\ IsPrefix(s, t) /\ IsPrefix(t, u) => IsPrefix(s, u)
<1>1. Len(s) \in Nat /\ Len(t) \in Nat /\ Len(u) \in Nat
  OBVIOUS
<1>2. IsPrefix(s, s)
  BY <1>1, PrefixByElement
<1>3. << >> \in Seq(S) /\ Len(<< >>) = 0
  OBVIOUS
<1>4. IsPrefix(<< >>, s)
  <2>1. Len(<< >>) <= Len(s) /\ \A i \in 1 .. Len(<< >>) : << >>[i] = s[i]
    BY <1>1, <1>3
  <2>2. << >> \in Seq(S)
    BY Zenon, <1>3
  <2> QED
    BY Zenon, <2>1, <2>2, PrefixByElement
<1>5. ASSUME IsPrefix(s, t), IsPrefix(t, u) PROVE IsPrefix(s, u)
  <2>1. Len(s) <= Len(t) /\ \A i \in 1 .. Len(s) : s[i] = t[i]
    BY <1>5, PrefixByElement
  <2>2. Len(t) <= Len(u) /\ \A i \in 1 .. Len(t) : t[i] = u[i]
    BY <1>5, PrefixByElement
  <2>3. Len(s) <= Len(u) /\ \A i \in 1 .. Len(s) : s[i] = u[i]
    BY <1>1, <2>1, <2>2
  <2> QED
    BY Zenon, <2>3, PrefixByElement
<1> QED
  BY Zenon, <1>2, <1>4, <1>5

\* The base of a sequence that is not empty is a shorter prefix of it.
LEMMA BaseOf ==
  ASSUME NEW S, NEW s \in Seq(S), s # << >>
  PROVE  /\ Base(s) \in Seq(S) /\ Len(Base(s)) = Len(s) - 1
         /\ Len(s) \in Nat \ {0} /\ IsPrefix(Base(s), s)
<1>1. Len(s) \in Nat \ {0}
  BY Zenon, SeqNotEmpty
<1> DEFINE n == Len(s) - 1
           f == SubSeq(s, 1, n)
<1>5. /\ f \in Seq(S)
      /\ Len(f) = n
      /\ \A i \in 1 .. n : f[i] = s[i]
  <2>1. n \in 0 .. Len(s)
    BY <1>1
  <2> HIDE DEF n
  <2> QED
    BY Zenon, <2>1, SeqCut
<1>3. /\ Base(s) \in Seq(S) /\ Len(Base(s)) = Len(s) - 1
      /\ \A i \in 1 .. Len(s) - 1 : Base(s)[i] = s[i]
  <2>1. Base(s) = f
    BY Zenon DEF Base
  <2>2. n \in Nat
    BY <1>1
  <2> HIDE DEF n, f
  <2>3. n - 1 + 1 = n /\ (n = 0 \/ 1 <= n) /\ \A i \in 1 .. n : 1 + i - 1 = i
    BY <2>2
  <2>4. Base(s) \in Seq(S) /\ Len(Base(s)) = n /\ \A i \in 1 .. n : Base(s)[i] = s[i]
    BY Zenon, <1>5, <2>1, <2>2, <2>3
  <2> QED
    BY Zenon, <2>4 DEF n
<1>4. IsPrefix(Base(s), s)
  BY <1>1, <1>3, PrefixByElement
<1> QED
  BY Zenon, <1>1, <1>3, <1>4

\* Base undoes Append.
LEMMA BaseOfAppend ==
  ASSUME NEW S, NEW s \in Seq(S), NEW e \in S
  PROVE  /\ Append(s, e) \in Seq(S) /\ Append(s, e) # << >>
         /\ Base(Append(s, e)) = s
<1> DEFINE a == Append(s, e)
<1>1. a \in Seq(S) /\ Len(a) = Len(s) + 1 /\ \A i \in 1 .. Len(s) : a[i] = s[i]
  BY SeqAppend
<1>2. Len(s) \in Nat
  OBVIOUS
<1>3. a # << >>
  BY <1>1, <1>2, SeqNotEmpty
<1> HIDE DEF a
<1>4. Base(a) \in Seq(S) /\ Len(Base(a)) = Len(a) - 1 /\ IsPrefix(Base(a), a)
  BY Zenon, <1>1, <1>3, BaseOf
<1>7. Len(Base(a)) = Len(s)
  BY <1>1, <1>2, <1>4
<1>5. \A i \in 1 .. Len(s) : Base(a)[i] = a[i]
  <2>1. \A i \in 1 .. Len(Base(a)) : Base(a)[i] = a[i]
    BY <1>1, <1>4, PrefixByElement
  <2> QED
    BY Zenon, <1>7, <2>1
<1>6. Base(a) = s
  <2>1. \A i \in 1 .. Len(Base(a)) : Base(a)[i] = s[i]
    BY Zenon, <1>1, <1>5, <1>7
  <2> QED
    BY Zenon, <1>4, <1>7, <2>1, SeqSame
<1> QED
  BY Zenon, <1>1, <1>3, <1>6 DEF a

\* A commit that is longer than the line extends the whole of it.
LEMMA Extends ==
  ASSUME NEW S, NEW l \in Seq(S), NEW g \in Seq(S), g # << >>,
         IsPrefix(Base(g), l), Len(l) < Len(g)
  PROVE  Base(g) = l /\ Len(g) = Len(l) + 1 /\ IsPrefix(l, g)
<1>1. /\ Base(g) \in Seq(S) /\ Len(Base(g)) = Len(g) - 1
      /\ Len(g) \in Nat /\ Len(l) \in Nat /\ IsPrefix(Base(g), g)
  BY BaseOf
<1>2. Len(Base(g)) <= Len(l) /\ \A i \in 1 .. Len(Base(g)) : Base(g)[i] = l[i]
  BY <1>1, PrefixByElement
<1>3. Len(Base(g)) = Len(l)
  BY <1>1, <1>2
<1>4. Base(g) = l
  BY Zenon, <1>1, <1>2, <1>3, SeqSame
<1> QED
  BY <1>1, <1>3, <1>4

(***************************************************************************)
(* Types                                                                   *)
(***************************************************************************)
\* A claim takes packages that are there.
LEMMA PicksType ==
  ASSUME Counting, TypeOK, NEW S \in SUBSET Device
  PROVE  /\ Picks(S) \in SUBSET (Device \X Package)
         /\ Consumed(Picks(S)) \in [Device -> SUBSET Package]
<1>1. ASSUME NEW d \in Device, offered[d] # {} PROVE Min(offered[d]) \in Package
  <2>1. offered[d] \in SUBSET Package
    BY Zenon DEF TypeOK
  <2> QED
    BY Zenon, <1>1, <2>1 DEF Counting
<1>2. Picks(S) \in SUBSET (Device \X Package)
  BY <1>1 DEF Picks
<1>3. Consumed(Picks(S)) \in [Device -> SUBSET Package]
  BY Zenon DEF Consumed, TypeOK
<1> QED
  BY Zenon, <1>2, <1>3

\* What a device makes when it tops up keeps its counter within the bound.
LEMMA FreshType ==
  ASSUME Counting, TypeOK, NEW d \in Device, Fresh(d) \subseteq Package
  PROVE  made[d] + Cardinality(Fresh(d)) \in 0 .. MaxPackage
<1>1. made[d] \in 0 .. MaxPackage /\ MaxPackage \in Nat /\ PoolTarget \in Nat
  BY Zenon, GroupAssumption DEF TypeOK
<1>2. Cardinality(offered[d]) \in Nat
  BY ZenonT(40) DEF Counting, TypeOK
<1> DEFINE lo == made[d] + 1
           hi == made[d] + (PoolTarget - Cardinality(offered[d]))
<1>3. lo \in Int /\ hi \in Int
  BY <1>1, <1>2
<1>4. Fresh(d) = lo .. hi
  BY Zenon DEF Fresh
<1>5. Cardinality(Fresh(d)) = IF lo > hi THEN 0 ELSE hi - lo + 1
  <2> HIDE DEF lo, hi
  <2> QED
    BY Zenon, <1>3, <1>4 DEF Counting
<1>6. CASE lo > hi
  BY <1>1, <1>5, <1>6
<1>7. CASE ~(lo > hi)
  <2>1. hi \in Fresh(d)
    BY <1>3, <1>4, <1>7
  <2>2. hi <= MaxPackage
    BY <2>1 DEF Package
  <2>3. made[d] + Cardinality(Fresh(d)) = hi
    BY <1>1, <1>2, <1>3, <1>5, <1>7
  <2> QED
    BY <1>1, <1>3, <1>7, <2>2, <2>3
<1> QED
  BY Zenon, <1>6, <1>7

\* The initial state is well typed.
LEMMA TypeInit == Init => TypeOK
<1> SUFFICES ASSUME Init PROVE TypeOK
  BY Zenon
<1>1. Idle \in Op /\ Off \in Page
  BY DEF Idle, Op, Off, Page, Pc
<1>2. << >> \in Seq(Commit) /\ << >> \in Seq(Seq(Commit))
  OBVIOUS
<1>3. 0 \in 0 .. MaxPackage
  BY GroupAssumption
<1> QED
  BY Zenon, <1>1, <1>2, <1>3 DEF Init, TypeOK

\* The operations that are begun are well typed.
LEMMA OpTypes ==
  ASSUME NEW g \in Seq(Commit), NEW n \in Nat
  PROVE  /\ [Idle EXCEPT !.pc = "catch", !.group = g, !.upto = n] \in Op
         /\ [Idle EXCEPT !.pc = "await"] \in Op
<1>1. Idle \in Op
  BY DEF Idle, Op, Pc
<1>2. [Idle EXCEPT !.pc = "catch", !.group = g, !.upto = n] \in Op
  BY Zenon, <1>1 DEF Op, Pc
<1>3. [Idle EXCEPT !.pc = "await"] \in Op
  BY Zenon, <1>1 DEF Op, Pc
<1> QED
  BY Zenon, <1>2, <1>3

\* A catch-up goes through frames that are there.
Within == \A d \in Device : op[d].upto <= Len(feed)

\* Every step keeps the types.
LEMMA TypeStep == Counting /\ TypeOK /\ Within /\ [Next]_vars => TypeOK'
<1> SUFFICES ASSUME Counting, TypeOK, Within, [Next]_vars PROVE TypeOK'
  BY Zenon
<1>0. CASE UNCHANGED vars
  BY Zenon, <1>0 DEF vars, server, store, TypeOK
<1>1. ASSUME NEW d \in Device, DeviceStep(d) PROVE TypeOK'
  <2> USE <1>1
  <2>0. Idle \in Op /\ Off \in Page /\ op[d] \in Op /\ page[d] \in Page
    BY SMTT(30) DEF Idle, Op, Off, Page, Pc, TypeOK
  <2>1. CASE bootstrap(d)
    <3>1. page' \in [Device -> Page]
      BY Zenon, <2>1 DEF bootstrap, TypeOK, Page
    <3> QED
      BY Zenon, <2>1, <3>1 DEF bootstrap, TypeOK, server, store
  <2>2. CASE topUpKeyPackages(d)
    <3>1. made' \in [Device -> 0 .. MaxPackage]
      BY Zenon, <2>2, FreshType DEF topUpKeyPackages, TypeOK
    <3>2. page' \in [Device -> Page]
      BY Zenon, <2>2 DEF topUpKeyPackages, TypeOK, Page
    <3>3. index' \in [Device -> SUBSET Package] /\ keys' \in [Device -> SUBSET Package]
      BY Zenon, <2>2 DEF topUpKeyPackages, TypeOK, Page
    <3> QED
      BY Zenon, <2>2, <3>1, <3>2, <3>3 DEF topUpKeyPackages, TypeOK, server
  <2>3. CASE uploadKeyPackages(d)
    <3>1. page' \in [Device -> Page] /\ offered' \in [Device -> SUBSET Package]
      BY Zenon, <2>3 DEF uploadKeyPackages, TypeOK, Page
    <3> QED
      BY Zenon, <2>3, <3>1 DEF uploadKeyPackages, TypeOK, store
  <2>4. CASE initiateChat(d)
    <3>1. op' \in [Device -> Op]
      BY Zenon, <2>0, <2>4 DEF initiateChat, Begin, TypeOK, Op, Pc
    <3> QED
      BY SMTT(30), <2>4, <3>1 DEF initiateChat, TypeOK, server, store
  <2>5. CASE claimBoth(d)
    <3> DEFINE picks == Picks(Peers(d) \cup Others(d))
    <3>1. picks \in SUBSET (Device \X Package) /\ Consumed(picks) \in [Device -> SUBSET Package]
      BY Zenon, PicksType DEF Peers, Others
    <3>2. << [by |-> d, adds |-> picks] >> \in Seq(Commit)
      BY SMTT(30), <3>1 DEF Commit
    <3>3. op' \in [Device -> Op]
      <4> HIDE DEF picks
      <4>1. [Idle EXCEPT !.pc = "commit", !.todo = picks,
                         !.group = << [by |-> d, adds |-> picks] >>] \in Op
        BY Zenon, <3>1, <3>2 DEF Idle, Op, Pc
      <4> QED
        BY Zenon, <2>0, <2>5, <4>1 DEF claimBoth, Begin, Finish, TypeOK, picks
    <3> QED
      BY Zenon, <2>5, <3>1, <3>3 DEF claimBoth, TypeOK, store
  <2>6. ASSUME NEW x \in Device, addDeviceToChat(d, x) PROVE TypeOK'
    <3> DEFINE picks == Picks({x})
    <3>1. picks \in SUBSET (Device \X Package) /\ Consumed(picks) \in [Device -> SUBSET Package]
      BY Zenon, PicksType
    <3>2. Append(state[d], [by |-> d, adds |-> picks]) \in Seq(Commit)
      <4>1. [by |-> d, adds |-> picks] \in Commit /\ state[d] \in Seq(Commit)
        BY Zenon, <3>1 DEF Commit, TypeOK
      <4> HIDE DEF picks
      <4> QED
        BY Zenon, <4>1, SeqAppend
    <3>3. op' \in [Device -> Op]
      <4> HIDE DEF picks
      <4>1. [Idle EXCEPT !.pc = "commit", !.for = "add", !.todo = picks,
                 !.group = Append(state[d], [by |-> d, adds |-> picks])] \in Op
        BY Zenon, <3>1, <3>2 DEF Idle, Op, Pc
      <4> QED
        BY Zenon, <2>0, <2>6, <4>1 DEF addDeviceToChat, Begin, TypeOK, picks
    <3> QED
      BY Zenon, <2>6, <3>1, <3>3 DEF addDeviceToChat, TypeOK, store
  <2>7. CASE PublishCommit(d)
    <3>1. op[d].group \in Seq(Commit) /\ Len(op[d].group) \in Nat
      BY <2>0 DEF Op
    <3>2. epoch' \in Nat /\ line' \in Seq(Commit)
      BY Zenon, <2>7, <3>1 DEF PublishCommit, AdvanceEpoch, TypeOK
    <3>3. op' \in [Device -> Op]
      <4>0. state[d] \in Seq(Commit) /\ Len(feed) \in Nat
        BY DEF TypeOK
      <4>1. [Idle EXCEPT !.pc = "catch", !.group = state[d], !.upto = Len(feed)] \in Op
        BY Zenon, <4>0, OpTypes
      <4>2. [Idle EXCEPT !.pc = "await"] \in Op
        BY Zenon, <4>0, OpTypes
      <4>3. [op[d] EXCEPT !.pc = "insert"] \in Op
        BY SMTT(30), <2>0 DEF Op, Pc
      <4>4. op' = [op EXCEPT ![d].pc = "insert"]
            \/ op' = [op EXCEPT ![d] =
                 IF op[d].for = "add"
                 THEN [Idle EXCEPT !.pc = "catch", !.group = state[d], !.upto = Len(feed)]
                 ELSE [Idle EXCEPT !.pc = "await"]]
        BY Zenon, <2>7 DEF PublishCommit, Begin, Goto
      <4> QED
        BY Zenon, <4>1, <4>2, <4>3, <4>4 DEF TypeOK
    <3> QED
      BY Zenon, <2>7, <3>2, <3>3 DEF PublishCommit, TypeOK, store
  <2>8. CASE InsertCommit(d)
    <3>1. op[d].group \in Seq(Commit)
      BY Zenon, <2>0 DEF Op
    <3>2. feed' \in Seq(Seq(Commit))
      BY <2>8, <3>1 DEF InsertCommit, TypeOK
    <3>3. op' \in [Device -> Op]
      BY Zenon, <2>0, <2>8 DEF InsertCommit, Goto, TypeOK, Op, Pc
    <3> QED
      BY Zenon, <2>8, <3>2, <3>3 DEF InsertCommit, TypeOK, store
  <2>9. ASSUME NEW a \in op[d].todo, PublishWelcome(d, a) PROVE TypeOK'
    <3>1. a \in Device \X Package /\ op[d].group \in Seq(Commit)
      BY Zenon, <2>0 DEF Op
    <3>2. mail' \subseteq Welcome
      BY <2>9, <3>1 DEF PublishWelcome, TypeOK, Welcome
    <3>3. op' \in [Device -> Op]
      BY ZenonT(40), <2>0, <2>9 DEF PublishWelcome, TypeOK, Op, Pc
    <3> QED
      BY Zenon, <2>9, <3>2, <3>3 DEF PublishWelcome, TypeOK, store
  <2>10. CASE saveState(d)
    <3>1. op[d].group \in Seq(Commit)
      BY Zenon, <2>0 DEF Op
    <3> QED
      BY Zenon, <2>0, <2>10, <3>1 DEF saveState, Finish, TypeOK, server
  <2>11. CASE giveUp(d)
    BY Zenon, <2>0, <2>11 DEF giveUp, Finish, TypeOK, server, store
  <2>12. ASSUME NEW w \in mail, joinFromWelcome(d, w) PROVE TypeOK'
    <3>1. w \in Welcome /\ w.group \in Seq(Commit)
      BY Zenon DEF TypeOK, Welcome
    <3>2. /\ [Idle EXCEPT !.pc = "drop", !.letter = {w}] \in Op
          /\ [Idle EXCEPT !.pc = "ack", !.letter = {w}] \in Op
      BY Zenon, <2>0, <3>1 DEF Op, Pc
    <3>3. op' \in [Device -> Op] /\ state' \in [Device -> Seq(Commit)]
      BY ZenonT(40), <2>12, <3>1, <3>2 DEF joinFromWelcome, Begin, TypeOK
    <3> QED
      BY Zenon, <2>12, <3>3 DEF joinFromWelcome, TypeOK, server
  <2>13. CASE dropKeyPackage(d)
    <3>1. op' \in [Device -> Op]
      BY Zenon, <2>0, <2>13 DEF dropKeyPackage, TypeOK, Op, Pc
    <3>2. keys' \in [Device -> SUBSET Package]
      BY Zenon, <2>13 DEF dropKeyPackage, TypeOK
    <3> QED
      BY Zenon, <2>13, <3>1, <3>2 DEF dropKeyPackage, TypeOK, server
  <2>14. CASE unlistKeyPackage(d)
    <3>1. op' \in [Device -> Op]
      BY Zenon, <2>0, <2>14 DEF unlistKeyPackage, Goto, TypeOK, Op, Pc
    <3>2. index' \in [Device -> SUBSET Package]
      BY Zenon, <2>0, <2>14 DEF unlistKeyPackage, TypeOK, Op
    <3>3. clash' \subseteq Device
      BY Zenon, <2>14 DEF unlistKeyPackage, TypeOK
    <3> QED
      BY Zenon, <2>14, <3>1, <3>2, <3>3 DEF unlistKeyPackage, TypeOK, server
  <2>15. CASE ackWelcome(d)
    BY Zenon, <2>0, <2>15 DEF ackWelcome, Finish, TypeOK, store
  <2>16. CASE catchUpHandshake(d)
    <3>0. state[d] \in Seq(Commit) /\ Len(feed) \in Nat
      BY DEF TypeOK
    <3>1. [Idle EXCEPT !.pc = "catch", !.group = state[d], !.upto = Len(feed)] \in Op
      BY Zenon, <3>0, OpTypes
    <3> QED
      BY Zenon, <2>16, <3>1 DEF catchUpHandshake, Begin, TypeOK, server, store
  <2>17. CASE catchUpFrame(d)
    <3>1. cursor[d] \in Nat /\ op[d].upto \in Nat /\ Len(feed) \in Nat /\ op[d].upto <= Len(feed)
      BY <2>0 DEF TypeOK, Op, Within
    <3>2. cursor[d] + 1 \in 1 .. Len(feed)
      BY <2>17, <3>1 DEF catchUpFrame
    <3>3. feed[cursor[d] + 1] \in Seq(Commit) /\ op[d].group \in Seq(Commit)
      BY Zenon, <2>0, <3>2, SeqElement DEF TypeOK, Op
    <3>4. ApplyFrame(d, op[d].group, feed[cursor[d] + 1]) \in Seq(Commit)
      BY Zenon, <3>3 DEF ApplyFrame
    <3>5. op' \in [Device -> Op]
      BY Zenon, <2>0, <2>17, <3>4 DEF catchUpFrame, TypeOK, Op
    <3>6. cursor' \in [Device -> Nat]
      BY SMTT(30), <2>17, <3>1 DEF catchUpFrame, TypeOK
    <3> QED
      BY SMTT(30), <2>17, <3>5, <3>6 DEF catchUpFrame, TypeOK, server
  <2>18. CASE catchUpSave(d)
    <3>1. op[d].group \in Seq(Commit)
      BY Zenon, <2>0 DEF Op
    <3> QED
      BY Zenon, <2>0, <2>18, <3>1 DEF catchUpSave, Finish, TypeOK, server
  <2>19. CASE fail(d) \/ die(d)
    <3>1. Stop(d) /\ page' \in [Device -> Page]
      BY Zenon, <2>0, <2>19 DEF fail, die, TypeOK
    <3>2. late' \subseteq Seq(Commit)
      BY Zenon, <2>0, <3>1 DEF Stop, TypeOK, Op
    <3>3. cut' \subseteq Device /\ faults' \in Nat
      BY <3>1 DEF Stop, TypeOK
    <3>4. op' \in [Device -> Op]
      BY Zenon, <2>0, <3>1 DEF Stop, Finish, TypeOK
    <3> QED
      BY Zenon, <3>1, <3>2, <3>3, <3>4 DEF Stop, TypeOK, store
  <2> QED
    BY SMTT(30), <2>1, <2>2, <2>3, <2>4, <2>5, <2>6, <2>7, <2>8, <2>9, <2>10, <2>11, <2>12, <2>13,
       <2>14, <2>15, <2>16, <2>17, <2>18, <2>19 DEF DeviceStep
<1>2. ASSUME NEW g \in late, lateCommit(g) PROVE TypeOK'
  <2>1. g \in Seq(Commit) /\ Len(g) \in Nat
    BY DEF TypeOK
  <2>2. epoch' \in Nat /\ line' \in Seq(Commit)
    BY Zenon, <1>2, <2>1 DEF lateCommit, AdvanceEpoch, TypeOK
  <2>3. feed' \in Seq(Seq(Commit))
    <3>1. Append(feed, g) \in Seq(Seq(Commit))
      BY Zenon, <2>1, SeqAppend DEF TypeOK
    <3> QED
      BY Zenon, <1>2, <3>1 DEF lateCommit, TypeOK
  <2>4. cut' \subseteq Device
    <3>1. CASE AdvanceEpoch(Len(g)) /\ cut' = cut \cup {Newest(g).by}
      <4>1. Len(g) \in 1 .. Len(g)
        BY <2>1, <3>1 DEF AdvanceEpoch, TypeOK
      <4>2. Newest(g) \in Commit
        BY Zenon, <2>1, <4>1, SeqElement DEF Newest
      <4> QED
        BY Zenon, <3>1, <4>2 DEF Commit, TypeOK
    <3>2. CASE cut' = cut
      BY Zenon, <3>2 DEF TypeOK
    <3> QED
      BY Zenon, <1>2, <3>1, <3>2 DEF lateCommit
  <2> QED
    BY SMTT(30), <1>2, <2>2, <2>3, <2>4 DEF lateCommit, TypeOK, store
<1> QED
  BY Zenon, <1>0, <1>1, <1>2 DEF Next

-----------------------------------------------------------------------------
(* A catch-up never reads past the end of the feed *)

\* The frame count a device reads is the feed's length at that moment, and the
\* feed only grows.
LEMMA WithinStep == TypeOK /\ TypeOK' /\ Within /\ [Next]_vars => Within'
<1> SUFFICES ASSUME TypeOK, TypeOK', Within, [Next]_vars PROVE Within'
  BY Zenon
<1>1. /\ Len(feed) \in Nat /\ Len(feed') \in Nat
      /\ \A x \in Device : op[x] \in Op /\ op[x].upto \in Nat
  BY SMTT(30) DEF TypeOK, Op
<1>2. ASSUME NEW d \in Device, DeviceStep(d),
             \A x \in Device : op'[x].upto \in {op[x].upto, 0, Len(feed)}
      PROVE  Within'
  <2>1. Len(feed) <= Len(feed')
    <3>1. CASE InsertCommit(d)
      BY <3>1, SeqAppend DEF InsertCommit, TypeOK, Op
    <3>2. CASE ~InsertCommit(d)
      <4>1. feed' = feed
        BY Zenon, <1>2, <3>2 DEF DeviceStep, bootstrap, topUpKeyPackages, uploadKeyPackages, initiateChat,
           claimBoth, addDeviceToChat, PublishCommit, PublishWelcome, saveState, giveUp,
           joinFromWelcome, dropKeyPackage, unlistKeyPackage, ackWelcome, catchUpHandshake,
           catchUpFrame, catchUpSave, fail, die, Stop, server
      <4> QED
        BY <1>1, <4>1
    <3> QED
      BY Zenon, <3>1, <3>2
  <2> QED
    BY <1>1, <1>2, <2>1 DEF Within
<1>3. ASSUME NEW d \in Device, DeviceStep(d)
      PROVE  \A x \in Device : op'[x].upto \in {op[x].upto, 0, Len(feed)}
  <2>0. op \in [Device -> Op] /\ op[d] \in Op
    BY Zenon DEF TypeOK
  <2> DEFINE Kept == \A x \in Device : op'[x].upto \in {op[x].upto, 0, Len(feed)}
  <2>a. Finish(d) => Kept
    BY <2>0 DEF Finish, Idle
  <2>b. ASSUME NEW pc, Goto(d, pc) PROVE Kept
    BY Zenon, <2>0, <2>b DEF Goto, Op
  <2>c. ASSUME NEW o, Begin(d, o), o.upto \in {0, Len(feed)} PROVE Kept
    BY Zenon, <2>0, <2>c DEF Begin
  <2>d. /\ [Idle EXCEPT !.pc = "await"].upto = 0
        /\ [Idle EXCEPT !.pc = "catch", !.group = state[d], !.upto = Len(feed)].upto = Len(feed)
        /\ \A w : [Idle EXCEPT !.pc = "drop", !.letter = {w}].upto = 0
        /\ \A w : [Idle EXCEPT !.pc = "ack", !.letter = {w}].upto = 0
    BY Zenon DEF Idle
  <2>1. CASE bootstrap(d) \/ topUpKeyPackages(d) \/ uploadKeyPackages(d)
    BY Zenon, <2>1 DEF bootstrap, topUpKeyPackages, uploadKeyPackages
  <2>2. CASE initiateChat(d)
    BY Zenon, <2>0, <2>2 DEF initiateChat, Begin, Idle, Op
  <2>3. CASE claimBoth(d)
    BY Zenon, <2>0, <2>3, <2>a DEF claimBoth, Begin, Idle
  <2>4. CASE \E x \in Device : addDeviceToChat(d, x)
    BY <2>0, <2>4 DEF addDeviceToChat, Begin, Idle, Op
  <2>5. CASE PublishCommit(d)
    <3>1. CASE op[d].for = "add"
      BY Zenon, <2>5, <2>b, <2>c, <2>d, <3>1 DEF PublishCommit
    <3>2. CASE op[d].for # "add"
      BY Zenon, <2>5, <2>b, <2>c, <2>d, <3>2 DEF PublishCommit
    <3> QED
      BY Zenon, <3>1, <3>2
  <2>6. CASE InsertCommit(d) \/ unlistKeyPackage(d)
    <3>1. Goto(d, "welcome") \/ Goto(d, "ack")
      BY Zenon, <2>6 DEF InsertCommit, unlistKeyPackage
    <3> QED
      BY SMTT(30), <2>b, <3>1
  <2>7. CASE saveState(d) \/ giveUp(d) \/ ackWelcome(d) \/ catchUpSave(d) \/ fail(d) \/ die(d)
    <3>1. Finish(d)
      BY Zenon, <2>7 DEF saveState, giveUp, ackWelcome, catchUpSave, fail, die, Stop
    <3> QED
      BY SMTT(30), <2>a, <3>1
  <2>8. CASE \E a \in op[d].todo : PublishWelcome(d, a)
    BY <2>0, <2>8 DEF PublishWelcome, Op
  <2>9. CASE \E w \in mail : joinFromWelcome(d, w)
    <3>1. PICK w \in mail : \/ Begin(d, [Idle EXCEPT !.pc = "drop", !.letter = {w}])
                            \/ Begin(d, [Idle EXCEPT !.pc = "ack", !.letter = {w}])
      BY Zenon, <2>9 DEF joinFromWelcome
    <3> QED
      BY Zenon, <2>c, <2>d, <3>1
  <2>10. CASE dropKeyPackage(d)
    BY Zenon, <2>0, <2>10 DEF dropKeyPackage, Op
  <2>11. CASE catchUpHandshake(d)
    BY Zenon, <2>0, <2>11 DEF catchUpHandshake, Begin, Idle, Op
  <2>12. CASE catchUpFrame(d)
    BY Zenon, <2>0, <2>12 DEF catchUpFrame, Op
  <2> QED
    BY ZenonT(40), <1>3, <2>1, <2>2, <2>3, <2>4, <2>5, <2>6, <2>7, <2>8, <2>9, <2>10, <2>11, <2>12
    DEF DeviceStep
<1>4. ASSUME NEW g \in late, lateCommit(g) PROVE Within'
  <2>1. op' = op /\ g \in Seq(Commit)
    BY Zenon, <1>4 DEF lateCommit, TypeOK
  <2>2. feed' = feed \/ feed' = Append(feed, g)
    BY SMTT(30), <1>4 DEF lateCommit
  <2>3. Len(feed) <= Len(feed')
    BY <1>1, <2>1, <2>2, SeqAppend DEF TypeOK
  <2> QED
    BY <1>1, <2>1, <2>3 DEF Within
<1>5. CASE UNCHANGED vars
  BY Zenon, <1>5 DEF vars, server, Within
<1> QED
  BY Zenon, <1>2, <1>3, <1>4, <1>5 DEF Next

-----------------------------------------------------------------------------
(* The group never forks *)

\* A commit that may still be offered to the server continues a state of the
\* line l.
Offer(g, l) == g # << >> /\ IsPrefix(Base(g), l)

\* What the operation o builds is on the line l, or is yet to be offered.
OpFits(o, l) ==
  /\ o.pc \in {"insert", "welcome", "save", "catch"} => IsPrefix(o.group, l)
  /\ o.pc = "commit" => Offer(o.group, l)

\* All that anybody holds fits the line l.
Fits(l) ==
  /\ \A d \in Device : IsPrefix(state[d], l)
  /\ \A i \in DOMAIN feed : IsPrefix(feed[i], l)
  /\ \A w \in mail : IsPrefix(w.group, l)
  /\ \A d \in Device : OpFits(op[d], l)
  /\ \A g \in late : Offer(g, l)

\* The inductive invariant: the epoch the server counts is the length of the
\* line, and everything fits the line.
OneLine == Len(line) = epoch /\ Fits(line)

\* What fits a line fits every longer one.
LEMMA FitsLonger ==
  ASSUME TypeOK, NEW l \in Seq(Commit), NEW m \in Seq(Commit), IsPrefix(l, m), Fits(l)
  PROVE  Fits(m)
<1>1. ASSUME NEW g \in Seq(Commit), IsPrefix(g, l) PROVE IsPrefix(g, m)
  BY Zenon, <1>1, PrefixOrder
<1>2. ASSUME NEW g \in Seq(Commit), Offer(g, l) PROVE Offer(g, m)
  BY Zenon, <1>1, <1>2, BaseOf DEF Offer
<1>3. /\ \A d \in Device : state[d] \in Seq(Commit) /\ op[d].group \in Seq(Commit)
      /\ \A i \in DOMAIN feed : feed[i] \in Seq(Commit)
      /\ \A w \in mail : w.group \in Seq(Commit)
      /\ \A g \in late : g \in Seq(Commit)
  <2>1. \A d \in Device : state[d] \in Seq(Commit)
    BY Zenon DEF TypeOK
  <2>2. \A d \in Device : op[d].group \in Seq(Commit)
    BY Zenon DEF TypeOK, Op
  <2>3. \A i \in DOMAIN feed : feed[i] \in Seq(Commit)
    BY SeqElement DEF TypeOK
  <2>4. \A w \in mail : w.group \in Seq(Commit)
    BY Zenon DEF TypeOK, Welcome
  <2> QED
    BY Zenon, <2>1, <2>2, <2>3, <2>4 DEF TypeOK
<1>4. \A d \in Device : OpFits(op[d], m)
  BY Zenon, <1>1, <1>2, <1>3 DEF Fits, OpFits
<1> QED
  BY Zenon, <1>1, <1>2, <1>3, <1>4 DEF Fits

\* A commit that wins its epoch extends the line by one.
LEMMA Wins ==
  ASSUME TypeOK, OneLine, NEW g \in Seq(Commit), Offer(g, line), AdvanceEpoch(Len(g))
  PROVE  Len(g) = epoch' /\ Fits(g) /\ IsPrefix(g, g)
<1>1. epoch < Len(g) /\ epoch' = Len(g) /\ Len(line) = epoch /\ line \in Seq(Commit)
  BY Zenon DEF AdvanceEpoch, OneLine, TypeOK
<1>2. IsPrefix(line, g)
  BY Zenon, <1>1, Extends DEF Offer
<1> QED
  BY Zenon, <1>1, <1>2, FitsLonger, PrefixOrder DEF OneLine

\* A frame that fits is added to a feed that does.
LEMMA FeedGrows ==
  ASSUME NEW S, NEW f \in Seq(S), NEW g \in S, NEW l,
         \A i \in DOMAIN f : IsPrefix(f[i], l), IsPrefix(g, l)
  PROVE  \A i \in DOMAIN Append(f, g) : IsPrefix(Append(f, g)[i], l)
<1> DEFINE t == Append(f, g)
<1>1. /\ Len(f) \in Nat /\ DOMAIN f = 1 .. Len(f) /\ DOMAIN t = 1 .. Len(f) + 1
      /\ t[Len(f) + 1] = g /\ \A i \in 1 .. Len(f) : t[i] = f[i]
  BY SeqAppend
<1> HIDE DEF t
<1>2. \A i \in DOMAIN t : i \in DOMAIN f \/ i = Len(f) + 1
  BY <1>1
<1>3. ASSUME NEW i \in DOMAIN t PROVE IsPrefix(t[i], l)
  <2>1. CASE i \in DOMAIN f
    BY Zenon, <1>1, <2>1
  <2>2. CASE i = Len(f) + 1
    BY Zenon, <1>1, <2>2
  <2> QED
    BY Zenon, <1>2, <2>1, <2>2
<1> QED
  BY Zenon, <1>3 DEF t

\* Every step keeps the line.
LEMMA LineStep == Counting /\ TypeOK /\ Within /\ OneLine /\ [Next]_vars => OneLine'
<1> SUFFICES ASSUME Counting, TypeOK, Within, OneLine, [Next]_vars PROVE OneLine'
  BY Zenon
<1>0. CASE UNCHANGED vars
  BY Zenon, <1>0 DEF vars, server, store, OneLine, Fits
<1>a. Fits(line) /\ Len(line) = epoch /\ line \in Seq(Commit)
  BY Zenon DEF OneLine, TypeOK
<1>b. \A l : OpFits(Idle, l) /\ OpFits([Idle EXCEPT !.pc = "await"], l)
  BY Zenon DEF OpFits, Idle
<1>c. \A l, w : /\ OpFits([Idle EXCEPT !.pc = "drop", !.letter = {w}], l)
               /\ OpFits([Idle EXCEPT !.pc = "ack", !.letter = {w}], l)
  BY Zenon DEF OpFits, Idle
<1>d. \A l, g, n : IsPrefix(g, l) =>
                     OpFits([Idle EXCEPT !.pc = "catch", !.group = g, !.upto = n], l)
  BY SMTT(30) DEF OpFits, Idle
<1>1. ASSUME NEW d \in Device, DeviceStep(d) PROVE OneLine'
  <2>0. /\ op \in [Device -> Op] /\ op[d] \in Op /\ OpFits(op[d], line)
        /\ IsPrefix(state[d], line) /\ state[d] \in Seq(Commit)
        /\ state \in [Device -> Seq(Commit)] /\ op[d].group \in Seq(Commit)
    BY SMTT(30), <1>a DEF TypeOK, Fits, Op
  <2>a. ASSUME UNCHANGED <<epoch, feed, mail, late, line, state>>,
               op' = [op EXCEPT ![d] = op'[d]], OpFits(op'[d], line)
        PROVE  OneLine'
    <3>1. \A x \in Device : OpFits(op'[x], line)
      BY ZenonT(40), <1>a, <2>0, <2>a DEF Fits
    <3> QED
      BY Zenon, <1>a, <2>a, <3>1 DEF OneLine, Fits
  <2>b. ASSUME UNCHANGED <<epoch, feed, mail, line, state>>, Finish(d),
               late' \subseteq late \cup {g \in {op[d].group} : op[d].pc = "commit"}
        PROVE  OneLine'
    <3>1. \A x \in Device : OpFits(op'[x], line)
      BY SMTT(30), <1>a, <1>b, <2>0, <2>b DEF Fits, Finish
    <3>2. \A g \in late' : Offer(g, line)
      BY SMTT(30), <1>a, <2>0, <2>b DEF Fits, OpFits
    <3> QED
      BY Zenon, <1>a, <2>b, <3>1, <3>2 DEF OneLine, Fits
  <2>1. CASE bootstrap(d) \/ topUpKeyPackages(d) \/ uploadKeyPackages(d)
    BY ZenonT(40), <1>a, <2>1 DEF bootstrap, topUpKeyPackages, uploadKeyPackages, server, store, OneLine, Fits
  <2>2. CASE initiateChat(d)
    <3>1. OpFits(op'[d], line) /\ op' = [op EXCEPT ![d] = op'[d]]
      BY Zenon, <2>0, <2>2 DEF initiateChat, Begin, OpFits, Idle
    <3> QED
      BY Zenon, <2>2, <2>a, <3>1 DEF initiateChat, server, store
  <2>3. CASE claimBoth(d)
    <3> DEFINE c == [by |-> d, adds |-> Picks(Peers(d) \cup Others(d))]
    <3>1. c \in Commit
      BY Zenon, PicksType DEF Commit, Peers, Others
    <3>2. Offer(<<c>>, line)
      <4> HIDE DEF c
      <4>1. << >> \in Seq(Commit) /\ Append(<< >>, c) = <<c>>
        BY <3>1
      <4>2. <<c>> # << >> /\ Base(<<c>>) = << >>
        BY Zenon, <3>1, <4>1, BaseOfAppend
      <4> QED
        BY Zenon, <1>a, <4>2, PrefixOrder DEF Offer
    <3>3. op'[d] = Idle \/ (op'[d].pc = "commit" /\ op'[d].group = <<c>>)
      <4> DEFINE o == [Idle EXCEPT !.pc = "commit", !.todo = Picks(Peers(d) \cup Others(d)),
                                   !.group = <<c>>]
      <4>1. op'[d] = Idle \/ op'[d] = o
        BY Zenon, <2>0, <2>3 DEF claimBoth, Begin, Finish
      <4>2. o.pc = "commit" /\ o.group = <<c>>
        <5> HIDE DEF c
        <5> QED
          BY Zenon DEF Idle
      <4> HIDE DEF o, c
      <4> QED
        BY Zenon, <4>1, <4>2
    <3>4. op' = [op EXCEPT ![d] = op'[d]]
      BY Zenon, <2>0, <2>3 DEF claimBoth, Begin, Finish
    <3>5. OpFits(op'[d], line)
      BY Zenon, <1>b, <3>2, <3>3 DEF OpFits
    <3> QED
      BY Zenon, <2>3, <2>a, <3>4, <3>5 DEF claimBoth, store
  <2>4. ASSUME NEW x \in Device, addDeviceToChat(d, x) PROVE OneLine'
    <3> DEFINE c == [by |-> d, adds |-> Picks({x})]
    <3>1. c \in Commit
      BY Zenon, PicksType DEF Commit
    <3>2. Offer(Append(state[d], c), line)
      <4> HIDE DEF c
      <4> QED
        BY Zenon, <2>0, <3>1, BaseOfAppend DEF Offer
    <3>3. op'[d].pc = "commit" /\ op'[d].group = Append(state[d], c)
      BY Zenon, <2>0, <2>4 DEF addDeviceToChat, Begin, Idle
    <3>4. op' = [op EXCEPT ![d] = op'[d]]
      BY Zenon, <2>0, <2>4 DEF addDeviceToChat, Begin
    <3>5. OpFits(op'[d], line)
      BY Zenon, <3>2, <3>3 DEF OpFits
    <3> QED
      BY Zenon, <2>4, <2>a, <3>4, <3>5 DEF addDeviceToChat, store
  <2>5. CASE PublishCommit(d)
    <3>0. UNCHANGED <<feed, mail, late, state>> /\ op[d].pc = "commit"
      BY SMTT(30), <2>5 DEF PublishCommit, store
    <3>1. CASE AdvanceEpoch(Len(op[d].group)) /\ line' = op[d].group /\ Goto(d, "insert")
      <4>1. Offer(op[d].group, line)
        BY Zenon, <2>0, <3>0 DEF OpFits
      <4>2. Len(line') = epoch' /\ Fits(line') /\ IsPrefix(op[d].group, line')
        BY Zenon, <2>0, <3>1, <4>1, Wins
      <4>3. op'[d].pc = "insert" /\ op'[d].group = op[d].group
        BY Zenon, <2>0, <3>1 DEF Goto, Op
      <4>4. \A x \in Device : OpFits(op'[x], line')
        <5>1. OpFits(op'[d], line')
          BY Zenon, <4>2, <4>3 DEF OpFits
        <5>2. \A x \in Device \ {d} : op'[x] = op[x]
          BY Zenon, <2>0, <3>1 DEF Goto
        <5> QED
          BY Zenon, <4>2, <5>1, <5>2 DEF Fits
      <4> QED
        BY Zenon, <3>0, <4>2, <4>4 DEF OneLine, Fits
    <3>2. CASE /\ Begin(d, IF op[d].for = "add"
                           THEN [Idle EXCEPT !.pc = "catch", !.group = state[d],
                                             !.upto = Len(feed)]
                           ELSE [Idle EXCEPT !.pc = "await"])
               /\ UNCHANGED <<epoch, line>>
      <4>1. op' = [op EXCEPT ![d] = op'[d]]
        BY Zenon, <2>0, <3>2 DEF Begin
      <4>2. OpFits(op'[d], line)
        BY ZenonT(40), <1>b, <1>d, <2>0, <3>2 DEF Begin
      <4> QED
        BY Zenon, <2>a, <3>0, <3>2, <4>1, <4>2
    <3> QED
      BY Zenon, <2>5, <3>1, <3>2 DEF PublishCommit
  <2>6. CASE InsertCommit(d)
    <3>1. op[d].pc = "insert" /\ IsPrefix(op[d].group, line)
      BY SMTT(30), <2>0, <2>6 DEF InsertCommit, OpFits
    <3>2. \A i \in DOMAIN feed' : IsPrefix(feed'[i], line)
      <4>1. feed \in Seq(Seq(Commit)) /\ feed' = Append(feed, op[d].group)
        BY Zenon, <2>6 DEF InsertCommit, TypeOK
      <4>2. \A i \in DOMAIN feed : IsPrefix(feed[i], line)
        BY Zenon, <1>a DEF Fits
      <4> QED
        BY Zenon, <2>0, <3>1, <4>1, <4>2, FeedGrows
    <3>3. op'[d].group = op[d].group /\ op'[d].pc = "welcome"
      BY Zenon, <2>0, <2>6 DEF InsertCommit, Goto, Op
    <3>4. \A x \in Device : OpFits(op'[x], line)
      <4>1. OpFits(op'[d], line)
        BY Zenon, <3>1, <3>3 DEF OpFits
      <4>2. \A x \in Device \ {d} : op'[x] = op[x]
        BY Zenon, <2>0, <2>6 DEF InsertCommit, Goto
      <4> QED
        BY Zenon, <1>a, <4>1, <4>2 DEF Fits
    <3> QED
      BY Zenon, <1>a, <2>6, <3>2, <3>4 DEF InsertCommit, store, OneLine, Fits
  <2>7. ASSUME NEW a \in op[d].todo, PublishWelcome(d, a) PROVE OneLine'
    <3>1. op[d].pc = "welcome" /\ IsPrefix(op[d].group, line)
      BY Zenon, <2>0, <2>7 DEF PublishWelcome, OpFits
    <3>2. \A w \in mail' : IsPrefix(w.group, line)
      BY <1>a, <2>7, <3>1 DEF PublishWelcome, Fits
    <3>3. op'[d].group = op[d].group /\ op'[d].pc \in {"save", "welcome"}
      BY Zenon, <2>0, <2>7 DEF PublishWelcome, Op
    <3>4. \A x \in Device : OpFits(op'[x], line)
      <4>1. OpFits(op'[d], line)
        BY Zenon, <3>1, <3>3 DEF OpFits
      <4>2. \A x \in Device \ {d} : op'[x] = op[x]
        BY SMTT(30), <2>0, <2>7 DEF PublishWelcome
      <4> QED
        BY Zenon, <1>a, <4>1, <4>2 DEF Fits
    <3> QED
      BY SMTT(30), <1>a, <2>7, <3>2, <3>4 DEF PublishWelcome, store, OneLine, Fits
  <2>8. CASE saveState(d) \/ catchUpSave(d)
    <3>1. IsPrefix(op[d].group, line)
      BY Zenon, <2>0, <2>8 DEF saveState, catchUpSave, OpFits
    <3>2. state' = [state EXCEPT ![d] = op[d].group] /\ Finish(d) /\ UNCHANGED server
      BY Zenon, <2>8 DEF saveState, catchUpSave
    <3>3. \A x \in Device : IsPrefix(state'[x], line) /\ OpFits(op'[x], line)
      BY Zenon, <1>a, <1>b, <2>0, <3>1, <3>2 DEF Fits, Finish
    <3> QED
      BY Zenon, <1>a, <3>2, <3>3 DEF server, OneLine, Fits
  <2>9. CASE giveUp(d)
    BY Zenon, <2>9, <2>b DEF giveUp, server, store
  <2>10. ASSUME NEW w \in mail, joinFromWelcome(d, w) PROVE OneLine'
    <3>1. IsPrefix(w.group, line)
      BY Zenon, <1>a DEF Fits
    <3>2. \A x \in Device : IsPrefix(state'[x], line)
      BY Zenon, <1>a, <2>0, <2>10, <3>1 DEF joinFromWelcome, Fits
    <3>3. OpFits(op'[d], line) /\ \A x \in Device \ {d} : op'[x] = op[x]
      <4>1. \/ op' = [op EXCEPT ![d] = [Idle EXCEPT !.pc = "drop", !.letter = {w}]]
            \/ op' = [op EXCEPT ![d] = [Idle EXCEPT !.pc = "ack", !.letter = {w}]]
        BY Zenon, <2>10 DEF joinFromWelcome, Begin
      <4>2. op'[d] = [Idle EXCEPT !.pc = "drop", !.letter = {w}]
            \/ op'[d] = [Idle EXCEPT !.pc = "ack", !.letter = {w}]
        BY Zenon, <2>0, <4>1
      <4>3. \A x \in Device \ {d} : op'[x] = op[x]
        BY Zenon, <2>0, <4>1
      <4> QED
        BY ZenonT(40), <1>c, <4>2, <4>3
    <3>4. \A x \in Device : OpFits(op'[x], line)
      BY Zenon, <1>a, <3>3 DEF Fits
    <3> QED
      BY Zenon, <1>a, <2>10, <3>2, <3>4 DEF joinFromWelcome, server, OneLine, Fits
  <2>11. CASE dropKeyPackage(d) \/ unlistKeyPackage(d)
    <3>1. op'[d].pc \in {"unlist", "ack"} /\ \A x \in Device \ {d} : op'[x] = op[x]
      BY <2>0, <2>11 DEF dropKeyPackage, unlistKeyPackage, Goto, Op
    <3>2. \A x \in Device : OpFits(op'[x], line)
      BY SMTT(30), <1>a, <3>1 DEF Fits, OpFits
    <3> QED
      BY Zenon, <1>a, <2>11, <3>2 DEF dropKeyPackage, unlistKeyPackage, server, OneLine, Fits
  <2>12. CASE ackWelcome(d)
    <3>1. \A x \in Device : OpFits(op'[x], line)
      BY Zenon, <1>a, <1>b, <2>0, <2>12 DEF ackWelcome, Finish, Fits
    <3> QED
      BY Zenon, <1>a, <2>12, <3>1 DEF ackWelcome, store, OneLine, Fits
  <2>13. CASE catchUpHandshake(d)
    <3>1. OpFits(op'[d], line) /\ op' = [op EXCEPT ![d] = op'[d]]
      BY Zenon, <1>d, <2>0, <2>13 DEF catchUpHandshake, Begin
    <3> QED
      BY Zenon, <2>13, <2>a, <3>1 DEF catchUpHandshake, server, store
  <2>14. CASE catchUpFrame(d)
    <3>1. cursor[d] \in Nat /\ op[d].upto \in Nat /\ Len(feed) \in Nat /\ op[d].upto <= Len(feed)
      <4>1. cursor[d] \in Nat /\ Len(feed) \in Nat /\ op[d].upto <= Len(feed)
        BY DEF TypeOK, Within
      <4> QED
        BY ZenonT(40), <2>0, <4>1 DEF Op
    <3>2. cursor[d] + 1 \in DOMAIN feed
      BY <2>14, <3>1 DEF catchUpFrame, TypeOK
    <3>3. IsPrefix(feed[cursor[d] + 1], line) /\ IsPrefix(op[d].group, line)
      BY Zenon, <1>a, <2>0, <2>14, <3>2 DEF catchUpFrame, Fits, OpFits
    <3>4. IsPrefix(ApplyFrame(d, op[d].group, feed[cursor[d] + 1]), line)
      BY Zenon, <3>3 DEF ApplyFrame
    <3>5. /\ op'[d].pc = "catch"
          /\ op'[d].group = ApplyFrame(d, op[d].group, feed[cursor[d] + 1])
          /\ op' = [op EXCEPT ![d] = op'[d]]
      BY Zenon, <2>0, <2>14 DEF catchUpFrame, Op
    <3>6. OpFits(op'[d], line)
      BY Zenon, <3>4, <3>5 DEF OpFits
    <3> QED
      BY SMTT(30), <2>14, <2>a, <3>5, <3>6 DEF catchUpFrame, server
  <2>15. CASE fail(d) \/ die(d)
    <3>1. Stop(d)
      BY Zenon, <2>15 DEF fail, die
    <3> QED
      BY Zenon, <2>b, <3>1 DEF Stop, store
  <2> QED
    BY ZenonT(40), <1>1, <2>1, <2>2, <2>3, <2>4, <2>5, <2>6, <2>7, <2>8, <2>9, <2>10, <2>11, <2>12, <2>13,
       <2>14, <2>15 DEF DeviceStep
<1>2. ASSUME NEW g \in late, lateCommit(g) PROVE OneLine'
  <2>1. /\ g \in Seq(Commit) /\ Offer(g, line) /\ late' \subseteq late
        /\ UNCHANGED <<mail, op, state>>
    <3>1. g \in Seq(Commit) /\ Offer(g, line)
      BY SMTT(30), <1>a DEF TypeOK, Fits
    <3> QED
      BY SMTT(30), <1>2, <3>1 DEF lateCommit, store
  <2>2. CASE AdvanceEpoch(Len(g)) /\ line' = g /\ feed' \in {feed, Append(feed, g)}
    <3>1. Len(line') = epoch' /\ Fits(line') /\ IsPrefix(g, line')
      BY Zenon, <2>1, <2>2, Wins
    <3>2. \A i \in DOMAIN feed' : IsPrefix(feed'[i], line')
      <4>1. CASE feed' = feed
        BY Zenon, <3>1, <4>1 DEF Fits
      <4>2. CASE feed' = Append(feed, g)
        <5>1. feed \in Seq(Seq(Commit))
          BY Zenon DEF TypeOK
        <5>2. \A i \in DOMAIN feed : IsPrefix(feed[i], line')
          BY Zenon, <3>1 DEF Fits
        <5> QED
          BY Zenon, <2>1, <3>1, <4>2, <5>1, <5>2, FeedGrows
      <4> QED
        BY Zenon, <2>2, <4>1, <4>2
    <3> QED
      BY Zenon, <2>1, <3>1, <3>2 DEF OneLine, Fits
  <2>3. CASE UNCHANGED <<epoch, line, feed>>
    BY ZenonT(40), <1>a, <2>1, <2>3 DEF OneLine, Fits
  <2> QED
    BY SMTT(30), <1>2, <2>2, <2>3 DEF lateCommit
<1> QED
  BY Zenon, <1>0, <1>1, <1>2 DEF Next

\* Init starts the line.
LEMMA LineInit == Init => OneLine /\ Within
<1> SUFFICES ASSUME Init PROVE OneLine /\ Within
  BY Zenon
<1>1. << >> \in Seq(Commit) /\ Len(<< >>) = 0
  OBVIOUS
<1>2. IsPrefix(<< >>, << >>)
  BY Zenon, <1>1, PrefixOrder
<1>3. OpFits(Idle, << >>) /\ Idle.upto = 0
  BY Zenon DEF OpFits, Idle
<1> QED
  BY <1>1, <1>2, <1>3 DEF Init, OneLine, Fits, Within

-----------------------------------------------------------------------------
(* Catching up: who has gone through which frames *)

\* What d has, and what its operation builds, as long as the feed has n
\* frames: a commit is one longer than the state it was made from; one that
\* has its epoch is the feed's next frame; all else is in the feed already.
Reaches(d, o, s, n) ==
  /\ Len(s) <= n
  /\ o.pc \in {"commit", "insert", "welcome", "save"} => Len(o.group) = Len(s) + 1 /\ Newest(o.group).by = d
  /\ o.pc = "insert" => Len(o.group) = n + 1
  /\ o.pc \in {"welcome", "save", "catch"} => Len(o.group) <= n
  /\ o.pc = "catch" => Len(s) <= Len(o.group)

\* The cursor c of d is not ahead of its state, and d has the states of its own
\* commits in the feed f, or is about to save the newest of them.
Keeps(d, o, s, c, f) ==
  /\ c <= Len(IF o.pc = "catch" THEN o.group ELSE s)
  /\ \A i \in DOMAIN f : Newest(f[i]).by = d => i <= Len(s) \/ (o.pc \in {"welcome", "save"} /\ i <= Len(o.group))

\* The feed's frames are numbered by their epochs, and at most one commit has
\* its epoch and is not there yet.
FeedInv ==
  /\ \A i \in DOMAIN feed : Len(feed[i]) = i
  /\ epoch <= Len(feed) + 1
  /\ \A w \in mail : Len(w.group) <= Len(feed)
  /\ \A g \in late : Len(g) <= Len(feed) + 1
  /\ \A d, e \in Device : op[d].pc = "insert" /\ op[e].pc = "insert" => d = e
  /\ \A d \in Device : op[d].pc = "insert" => epoch = Len(feed) + 1

CatchInv ==
  /\ FeedInv
  /\ \A d \in Device : op[d].pc = "claim" => state[d] = << >>
  /\ \A d \in Device : Reaches(d, op[d], state[d], Len(feed))
  /\ \A d \in Device \ cut : Keeps(d, op[d], state[d], cursor[d], feed)

\* What of a device and of its operation the invariant reads.
LEMMA CatchParts ==
  ASSUME TypeOK
  PROVE  /\ op \in [Device -> Op] /\ state \in [Device -> Seq(Commit)] /\ cursor \in [Device -> Nat]
         /\ feed \in Seq(Seq(Commit)) /\ Len(feed) \in Nat /\ DOMAIN feed = 1 .. Len(feed) /\ epoch \in Nat
         /\ \A d \in Device : /\ Len(state[d]) \in Nat /\ Len(op[d].group) \in Nat /\ cursor[d] \in Nat
                              /\ op[d] \in Op /\ op[d].group \in Seq(Commit) /\ state[d] \in Seq(Commit)
         /\ \A i \in DOMAIN feed : feed[i] \in Seq(Commit)
  <1>1. /\ op \in [Device -> Op] /\ state \in [Device -> Seq(Commit)] /\ cursor \in [Device -> Nat]
        /\ feed \in Seq(Seq(Commit)) /\ epoch \in Nat
    BY Zenon DEF TypeOK
  <1>2. Len(feed) \in Nat /\ DOMAIN feed = 1 .. Len(feed) /\ \A i \in DOMAIN feed : feed[i] \in Seq(Commit)
    BY <1>1, SeqElement
  <1>3. \A g \in Seq(Commit) : Len(g) \in Nat
    OBVIOUS
  <1>4. \A d \in Device : op[d] \in Op /\ op[d].group \in Seq(Commit) /\ state[d] \in Seq(Commit) /\ cursor[d] \in Nat
    BY Zenon, <1>1 DEF Op
  <1> QED BY Zenon, <1>1, <1>2, <1>3, <1>4

\* A step of d that leaves the feed, the epoch and the others alone.
LEMMA CatchFrame ==
  ASSUME CatchInv, NEW d \in Device, feed' = feed, epoch' = epoch, cut \subseteq cut',
         \A e \in Device \ {d} : op'[e] = op[e] /\ state'[e] = state[e] /\ cursor'[e] = cursor[e],
         \A w \in mail' : Len(w.group) <= Len(feed),
         \A g \in late' : Len(g) <= Len(feed) + 1,
         op'[d].pc = "insert" => op[d].pc = "insert",
         op'[d].pc = "claim" => state'[d] = << >>,
         Reaches(d, op'[d], state'[d], Len(feed)),
         d \notin cut' => Keeps(d, op'[d], state'[d], cursor'[d], feed)
  PROVE  CatchInv'
  <1>1. \A e \in Device : op'[e].pc = "insert" => op[e].pc = "insert"
    BY Zenon
  <1>2. FeedInv'
    BY Zenon, <1>1 DEF CatchInv, FeedInv
  <1>3. \A e \in Device : Reaches(e, op'[e], state'[e], Len(feed))
    BY Zenon DEF CatchInv
  <1>4. \A e \in Device \ cut' : Keeps(e, op'[e], state'[e], cursor'[e], feed)
    BY Zenon DEF CatchInv
  <1>5. \A e \in Device : op'[e].pc = "claim" => state'[e] = << >>
    BY Zenon DEF CatchInv
  <1> QED BY Zenon, <1>2, <1>3, <1>4, <1>5 DEF CatchInv

Resting == {"idle", "claim", "await", "drop", "unlist", "ack"}

\* An operation that is not committing or catching up.
LEMMA Rests ==
  ASSUME NEW d, NEW o, NEW s, NEW n, NEW c, NEW f, o.pc \in Resting
  PROVE  /\ Len(s) <= n => Reaches(d, o, s, n)
         /\ Keeps(d, o, s, c, f) <=> c <= Len(s) /\ \A i \in DOMAIN f : Newest(f[i]).by = d => i <= Len(s)
  BY Zenon DEF Resting, Reaches, Keeps

\* d finishes or goes on, neither committing nor catching up; what it had it
\* has, unless it is cut off.
LEMMA RestStep ==
  ASSUME TypeOK, CatchInv, NEW d \in Device, feed' = feed, epoch' = epoch, cut \subseteq cut', state' = state,
         cursor' = cursor, op' = [op EXCEPT ![d] = op'[d]], op'[d].pc \in Resting,
         op'[d].pc = "claim" => state[d] = << >>,
         \A w \in mail' : w \in mail,
         \A g \in late' : g \in late \/ (op[d].pc = "commit" /\ g = op[d].group),
         \/ op[d].pc \in Resting \cup {"commit"}
         \/ op[d].pc = "catch" /\ op[d].group = state[d]
         \/ d \in cut'
  PROVE  CatchInv'
  <1>0. Reaches(d, op[d], state[d], Len(feed)) /\ (d \notin cut => Keeps(d, op[d], state[d], cursor[d], feed)) /\ FeedInv
    BY Zenon DEF CatchInv
  <1>1. \A e \in Device \ {d} : op'[e] = op[e] /\ state'[e] = state[e] /\ cursor'[e] = cursor[e]
    BY Zenon, CatchParts
  <1>2. /\ Len(state[d]) \in Nat /\ Len(op[d].group) \in Nat /\ Len(feed) \in Nat
    BY Zenon, CatchParts
  <1>3. Len(state[d]) <= Len(feed)
    BY Zenon, <1>0 DEF Reaches
  <1>4. op[d].pc = "commit" => Len(op[d].group) <= Len(feed) + 1
    <2>1. op[d].pc = "commit" => Len(op[d].group) = Len(state[d]) + 1
      BY Zenon, <1>0 DEF Reaches
    <2> QED BY <1>2, <1>3, <2>1
  <1>5. \A g \in late' : Len(g) <= Len(feed) + 1
    BY Zenon, <1>0, <1>4 DEF FeedInv
  <1>6. ASSUME d \notin cut' PROVE Keeps(d, op'[d], state[d], cursor[d], feed)
    <2>1. Keeps(d, op[d], state[d], cursor[d], feed)
      BY Zenon, <1>0, <1>6
    <2>2. CASE op[d].pc \in Resting
      <3>1. cursor[d] <= Len(state[d]) /\ \A i \in DOMAIN feed : Newest(feed[i]).by = d => i <= Len(state[d])
        BY Zenon, <2>1, <2>2, Rests
      <3> QED BY Zenon, <3>1, Rests
    <2>3. CASE op[d].pc = "commit"
      <3>1. cursor[d] <= Len(state[d]) /\ \A i \in DOMAIN feed : Newest(feed[i]).by = d => i <= Len(state[d])
        BY Zenon, <2>1, <2>3 DEF Keeps
      <3> QED BY Zenon, <3>1, Rests
    <2>4. CASE op[d].pc = "catch" /\ op[d].group = state[d]
      <3>1. cursor[d] <= Len(state[d]) /\ \A i \in DOMAIN feed : Newest(feed[i]).by = d => i <= Len(state[d])
        BY Zenon, <2>1, <2>4 DEF Keeps
      <3> QED BY Zenon, <3>1, Rests
    <2> QED BY Zenon, <1>6, <2>2, <2>3, <2>4
  <1>7. Reaches(d, op'[d], state[d], Len(feed)) /\ op'[d].pc # "insert"
    BY Zenon, <1>3, Rests DEF Resting
  <1>8. \A w \in mail' : Len(w.group) <= Len(feed)
    BY Zenon, <1>0 DEF FeedInv
  <1> QED BY Zenon, <1>1, <1>5, <1>6, <1>7, <1>8, CatchFrame

\* d saves what it built.
LEMMA CatchSave ==
  ASSUME TypeOK, CatchInv, NEW d \in Device, saveState(d) \/ catchUpSave(d)
  PROVE  CatchInv'
  <1>0. Reaches(d, op[d], state[d], Len(feed)) /\ (d \notin cut => Keeps(d, op[d], state[d], cursor[d], feed)) /\ FeedInv
    BY Zenon DEF CatchInv
  <1>1. /\ op[d].pc \in {"save", "catch"} /\ state' = [state EXCEPT ![d] = op[d].group]
        /\ op' = [op EXCEPT ![d] = Idle] /\ UNCHANGED <<epoch, feed, mail, late, cursor, cut>>
    BY Zenon DEF saveState, catchUpSave, Finish, server
  <1>2. /\ \A e \in Device \ {d} : op'[e] = op[e] /\ state'[e] = state[e] /\ cursor'[e] = cursor[e]
        /\ op'[d] = Idle /\ state'[d] = op[d].group /\ cursor'[d] = cursor[d]
    BY Zenon, <1>1, CatchParts
  <1>3. Idle.pc \in Resting /\ Idle.pc # "insert" /\ Idle.pc # "claim"
    BY Zenon DEF Idle, Resting
  <1>4. Len(op[d].group) <= Len(feed)
    BY Zenon, <1>0, <1>1 DEF Reaches
  <1>5. /\ Len(state[d]) \in Nat /\ Len(op[d].group) \in Nat /\ cursor[d] \in Nat /\ DOMAIN feed \subseteq Nat
    BY CatchParts
  <1>6. Len(state[d]) <= Len(op[d].group)
    <2>1. CASE op[d].pc = "save"
      <3>1. Len(op[d].group) = Len(state[d]) + 1
        BY Zenon, <1>0, <2>1 DEF Reaches
      <3> QED BY <1>5, <3>1
    <2>2. CASE op[d].pc = "catch"
      BY Zenon, <1>0, <2>2 DEF Reaches
    <2> QED BY Zenon, <1>1, <2>1, <2>2
  <1>7. ASSUME d \notin cut PROVE Keeps(d, Idle, op[d].group, cursor[d], feed)
    <2>1. Keeps(d, op[d], state[d], cursor[d], feed)
      BY Zenon, <1>0, <1>7
    <2>2. cursor[d] <= Len(op[d].group)
      <3>1. cursor[d] <= Len(state[d]) \/ cursor[d] <= Len(op[d].group)
        BY Zenon, <2>1 DEF Keeps
      <3> QED BY <1>5, <1>6, <3>1
    <2>3. ASSUME NEW i \in DOMAIN feed, Newest(feed[i]).by = d PROVE i <= Len(op[d].group)
      <3>1. i <= Len(state[d]) \/ i <= Len(op[d].group)
        BY Zenon, <2>1, <2>3 DEF Keeps
      <3>2. i \in Nat
        BY Zenon, <1>5
      <3> QED BY <1>5, <1>6, <3>1, <3>2
    <2> QED BY Zenon, <1>3, <2>2, <2>3, Rests
  <1>8. Reaches(d, Idle, op[d].group, Len(feed))
    BY Zenon, <1>3, <1>4, Rests
  <1>9. (\A w \in mail' : Len(w.group) <= Len(feed)) /\ \A g \in late' : Len(g) <= Len(feed) + 1
    BY Zenon, <1>0, <1>1 DEF FeedInv
  <1> QED BY Zenon, <1>1, <1>2, <1>3, <1>7, <1>8, <1>9, CatchFrame

\* d joins from a welcome, or has nothing to do with it.
LEMMA CatchJoin ==
  ASSUME TypeOK, CatchInv, NEW d \in Device, NEW w \in mail, joinFromWelcome(d, w)
  PROVE  CatchInv'
  <1>0. Reaches(d, op[d], state[d], Len(feed)) /\ (d \notin cut => Keeps(d, op[d], state[d], cursor[d], feed)) /\ FeedInv
    BY Zenon DEF CatchInv
  <1>1. op[d].pc \in Resting /\ UNCHANGED <<epoch, feed, mail, late, cursor, cut>>
    <2>1. (op[d] = Idle \/ op[d].pc = "await") /\ UNCHANGED <<epoch, feed, mail, late, cursor, cut>>
      BY Zenon DEF joinFromWelcome, Free, server
    <2>2. Idle.pc = "idle"
      BY Zenon DEF Idle
    <2> QED BY Zenon, <2>1, <2>2 DEF Resting
  <1>2. \/ op' = [op EXCEPT ![d] = [Idle EXCEPT !.pc = "drop", !.letter = {w}]]
        \/ op' = [op EXCEPT ![d] = [Idle EXCEPT !.pc = "ack", !.letter = {w}]]
    BY Zenon DEF joinFromWelcome, Begin
  <1>3. op'[d].pc \in Resting /\ op'[d].pc # "insert" /\ op'[d].pc # "claim"
    <2>1. op'[d] \in {[Idle EXCEPT !.pc = "drop", !.letter = {w}], [Idle EXCEPT !.pc = "ack", !.letter = {w}]}
      BY Zenon, <1>2, CatchParts
    <2>2. \A o \in {[Idle EXCEPT !.pc = "drop", !.letter = {w}], [Idle EXCEPT !.pc = "ack", !.letter = {w}]} :
            o.pc \in {"drop", "ack"}
      BY Zenon DEF Idle
    <2> QED BY Zenon, <2>1, <2>2 DEF Resting
  <1>4. \/ state' = state
        \/ state[d] = << >> /\ state' = [state EXCEPT ![d] = w.group]
    BY Zenon DEF joinFromWelcome
  <1>5. \A e \in Device \ {d} : op'[e] = op[e] /\ state'[e] = state[e] /\ cursor'[e] = cursor[e]
    BY Zenon, <1>1, <1>2, <1>4, CatchParts
  <1>6. state'[d] = state[d] \/ (state[d] = << >> /\ state'[d] = w.group)
    BY Zenon, <1>4, CatchParts
  <1>7. /\ Len(state[d]) \in Nat /\ cursor[d] \in Nat /\ DOMAIN feed \subseteq Nat /\ Len(<< >>) = 0
    BY CatchParts
  <1>8. Len(w.group) \in Nat /\ Len(w.group) <= Len(feed)
    <2>1. w.group \in Seq(Commit)
      BY Zenon DEF TypeOK, Welcome
    <2> QED BY <1>0, <2>1 DEF FeedInv
  <1>9. Len(state'[d]) \in Nat /\ Len(state[d]) <= Len(state'[d]) /\ Len(state'[d]) <= Len(feed)
    <2>1. Len(state[d]) <= Len(feed)
      BY Zenon, <1>0 DEF Reaches
    <2>2. CASE state'[d] = state[d]
      BY <1>7, <2>1, <2>2
    <2>3. CASE state[d] = << >> /\ state'[d] = w.group
      BY <1>7, <1>8, <2>3
    <2> QED BY Zenon, <1>6, <2>2, <2>3
  <1>10. ASSUME d \notin cut PROVE Keeps(d, op'[d], state'[d], cursor[d], feed)
    <2>1. cursor[d] <= Len(state[d]) /\ \A i \in DOMAIN feed : Newest(feed[i]).by = d => i <= Len(state[d])
      BY Zenon, <1>0, <1>1, <1>10, Rests
    <2>2. cursor[d] <= Len(state'[d])
      BY <1>7, <1>9, <2>1
    <2>3. \A i \in DOMAIN feed : i <= Len(state[d]) => i <= Len(state'[d])
      BY <1>7, <1>9
    <2> QED BY Zenon, <1>3, <2>1, <2>2, <2>3, Rests
  <1>11. Reaches(d, op'[d], state'[d], Len(feed))
    BY Zenon, <1>3, <1>9, Rests
  <1>12. (\A v \in mail' : Len(v.group) <= Len(feed)) /\ \A g \in late' : Len(g) <= Len(feed) + 1
    BY Zenon, <1>0, <1>1 DEF FeedInv
  <1>13. cursor'[d] = cursor[d]
    BY Zenon, <1>1
  <1> QED BY Zenon, <1>1, <1>3, <1>5, <1>10, <1>11, <1>12, <1>13, CatchFrame

\* d begins a commit: the state it builds is one longer than the one it has.
LEMMA BuildStep ==
  ASSUME TypeOK, CatchInv, NEW d \in Device, NEW c \in Commit, c.by = d,
         op[d].pc \in Resting, UNCHANGED <<epoch, feed, mail, late, state, cursor, cut>>,
         op' = [op EXCEPT ![d] = op'[d]], op'[d].pc = "commit", op'[d].group = Append(state[d], c)
  PROVE  CatchInv'
  <1>0. Reaches(d, op[d], state[d], Len(feed)) /\ (d \notin cut => Keeps(d, op[d], state[d], cursor[d], feed)) /\ FeedInv
    BY Zenon DEF CatchInv
  <1>1. \A e \in Device \ {d} : op'[e] = op[e] /\ state'[e] = state[e] /\ cursor'[e] = cursor[e]
    BY Zenon, CatchParts
  <1>2. state[d] \in Seq(Commit) /\ Len(state[d]) <= Len(feed)
    BY Zenon, <1>0, CatchParts DEF Reaches
  <1>3. Len(op'[d].group) = Len(state[d]) + 1 /\ Newest(op'[d].group).by = d
    <2>1. /\ Len(Append(state[d], c)) = Len(state[d]) + 1
          /\ Append(state[d], c)[Len(state[d]) + 1] = c
      BY <1>2, SeqAppend
    <2> QED BY Zenon, <2>1 DEF Newest
  <1>4. Reaches(d, op'[d], state[d], Len(feed))
    BY Zenon, <1>2, <1>3 DEF Reaches
  <1>5. ASSUME d \notin cut PROVE Keeps(d, op'[d], state[d], cursor[d], feed)
    <2>1. cursor[d] <= Len(state[d]) /\ \A i \in DOMAIN feed : Newest(feed[i]).by = d => i <= Len(state[d])
      BY Zenon, <1>0, <1>5, Rests
    <2> QED BY Zenon, <2>1 DEF Keeps
  <1>6. (\A w \in mail' : Len(w.group) <= Len(feed)) /\ \A g \in late' : Len(g) <= Len(feed) + 1
    BY Zenon, <1>0 DEF FeedInv
  <1> QED BY Zenon, <1>1, <1>4, <1>5, <1>6, CatchFrame

\* d begins to catch up from its state.
LEMMA BeginCatch ==
  ASSUME TypeOK, CatchInv, NEW d \in Device, op[d].pc \in Resting \cup {"commit"},
         UNCHANGED <<epoch, feed, mail, late, state, cursor, cut>>,
         op' = [op EXCEPT ![d] = op'[d]], op'[d].pc = "catch", op'[d].group = state[d]
  PROVE  CatchInv'
  <1>0. Reaches(d, op[d], state[d], Len(feed)) /\ (d \notin cut => Keeps(d, op[d], state[d], cursor[d], feed)) /\ FeedInv
    BY Zenon DEF CatchInv
  <1>1. \A e \in Device \ {d} : op'[e] = op[e] /\ state'[e] = state[e] /\ cursor'[e] = cursor[e]
    BY Zenon, CatchParts
  <1>2. Len(state[d]) <= Len(feed) /\ Len(state[d]) \in Nat
    BY Zenon, <1>0, CatchParts DEF Reaches
  <1>3. Len(state[d]) <= Len(state[d])
    BY <1>2
  <1>4. Reaches(d, op'[d], state[d], Len(feed))
    BY Zenon, <1>2, <1>3 DEF Reaches
  <1>5. ASSUME d \notin cut PROVE Keeps(d, op'[d], state[d], cursor[d], feed)
    <2>1. op[d].pc \notin {"catch", "welcome", "save"}
      BY Zenon DEF Resting
    <2>2. cursor[d] <= Len(state[d]) /\ \A i \in DOMAIN feed : Newest(feed[i]).by = d => i <= Len(state[d])
      BY Zenon, <1>0, <1>5, <2>1 DEF Keeps
    <2> QED BY Zenon, <2>2 DEF Keeps
  <1>6. (\A w \in mail' : Len(w.group) <= Len(feed)) /\ \A g \in late' : Len(g) <= Len(feed) + 1
    BY Zenon, <1>0 DEF FeedInv
  <1> QED BY Zenon, <1>1, <1>4, <1>5, <1>6, CatchFrame

\* Prefixes of one line of the same length are the same.
LEMMA PrefixSame ==
  ASSUME NEW S, NEW s \in Seq(S), NEW t \in Seq(S), NEW l \in Seq(S),
         IsPrefix(s, l), IsPrefix(t, l), Len(s) = Len(t)
  PROVE  s = t
  BY Zenon DEF IsPrefix

\* One frame.  A device at the state before the frame applies it: it is not
\* its own, since it has the states of its own commits.
LEMMA CatchOne ==
  ASSUME TypeOK, Within, OneLine, CatchInv, NEW d \in Device, catchUpFrame(d)
  PROVE  CatchInv'
  <1> DEFINE i == cursor[d] + 1
             f == feed[i]
             g == op[d].group
             h == ApplyFrame(d, g, f)
  <1>0. Reaches(d, op[d], state[d], Len(feed)) /\ (d \notin cut => Keeps(d, op[d], state[d], cursor[d], feed)) /\ FeedInv
    BY Zenon DEF CatchInv
  <1>1. /\ op[d].pc = "catch" /\ cursor[d] < op[d].upto /\ cursor' = [cursor EXCEPT ![d] = @ + 1]
        /\ op' = [op EXCEPT ![d].group = h] /\ UNCHANGED <<epoch, feed, mail, late, state, cut>>
    BY Zenon DEF catchUpFrame, server
  <1>2. /\ \A e \in Device \ {d} : op'[e] = op[e] /\ state'[e] = state[e] /\ cursor'[e] = cursor[e]
        /\ op'[d].pc = "catch" /\ op'[d].group = h /\ cursor'[d] = i
    BY Zenon, <1>1, CatchParts DEF Op
  <1>3. /\ cursor[d] \in Nat /\ Len(feed) \in Nat /\ DOMAIN feed = 1 .. Len(feed) /\ g \in Seq(Commit)
        /\ Len(g) \in Nat /\ Len(state[d]) \in Nat
    BY Zenon, CatchParts
  <1>4. i \in DOMAIN feed
    <2>1. op[d].upto \in Nat /\ op[d].upto <= Len(feed)
      BY Zenon, CatchParts DEF Op, Within
    <2> QED BY <1>1, <1>3, <2>1
  <1>5. f \in Seq(Commit) /\ Len(f) = i /\ IsPrefix(f, line) /\ IsPrefix(g, line) /\ line \in Seq(Commit)
    BY Zenon, <1>0, <1>1, <1>4, CatchParts DEF FeedInv, OneLine, Fits, OpFits, TypeOK
  <1> HIDE DEF f, g
  <1>6. f # << >>
    <2>1. Len(<< >>) = 0
      OBVIOUS
    <2> QED BY <1>3, <1>5, <2>1
  <1>7. Base(f) \in Seq(Commit) /\ Len(Base(f)) = i - 1 /\ IsPrefix(Base(f), line)
    BY Zenon, <1>5, <1>6, BaseOf, PrefixOrder
  <1>8. Len(state[d]) <= Len(g) /\ Len(g) <= Len(feed)
    BY Zenon, <1>0, <1>1 DEF Reaches, g
  <1>9. h = g \/ (h = f /\ Base(f) = g)
    BY Zenon DEF ApplyFrame, Applies
  <1>10. Len(h) \in Nat /\ Len(state[d]) <= Len(h) /\ Len(h) <= Len(feed) /\ Len(g) <= Len(h)
    <2>1. CASE h = g
      BY <1>3, <1>8, <2>1
    <2>2. CASE h = f /\ Base(f) = g
      <3>1. Len(h) = i /\ Len(g) = i - 1
        BY Zenon, <1>5, <1>7, <2>2
      <3> QED BY <1>3, <1>4, <1>8, <3>1
    <2> QED BY Zenon, <1>9, <2>1, <2>2
  <1>11. Reaches(d, op'[d], state[d], Len(feed))
    BY Zenon, <1>0, <1>2, <1>10 DEF Reaches
  <1>12. ASSUME d \notin cut PROVE Keeps(d, op'[d], state[d], i, feed)
    <2>1. cursor[d] <= Len(g) /\ \A j \in DOMAIN feed : Newest(feed[j]).by = d => j <= Len(state[d])
      BY Zenon, <1>0, <1>1, <1>12 DEF Keeps, g
    <2>2. CASE i <= Len(g)
      <3>1. i <= Len(h)
        BY <1>3, <1>10, <2>2
      <3> QED BY Zenon, <1>2, <2>1, <3>1 DEF Keeps
    <2>3. CASE ~(i <= Len(g))
      <3>1. Len(g) = i - 1
        BY <1>3, <2>1, <2>3
      <3>2. Base(f) = g
        BY Zenon, <1>3, <1>5, <1>7, <3>1, PrefixSame
      <3>3. Newest(f).by # d
        <4>1. ~(i <= Len(state[d]))
          BY <1>3, <1>8, <3>1
        <4> QED BY Zenon, <1>4, <2>1, <4>1 DEF f
      <3>4. h = f
        BY Zenon, <3>2, <3>3 DEF ApplyFrame, Applies
      <3>5. i <= Len(h)
        BY <1>3, <1>5, <3>4
      <3> QED BY Zenon, <1>2, <2>1, <3>5 DEF Keeps
    <2> QED BY Zenon, <2>2, <2>3
  <1>13. (\A w \in mail' : Len(w.group) <= Len(feed)) /\ \A q \in late' : Len(q) <= Len(feed) + 1
    BY Zenon, <1>0, <1>1 DEF FeedInv
  <1>14. op'[d].pc # "insert" /\ op'[d].pc # "claim" /\ state'[d] = state[d]
    BY Zenon, <1>1, <1>2
  <1> QED BY Zenon, <1>1, <1>2, <1>11, <1>12, <1>13, <1>14, CatchFrame

\* d sends an invitation.
LEMMA InviteStep ==
  ASSUME TypeOK, CatchInv, NEW d \in Device, NEW a \in op[d].todo, PublishWelcome(d, a)
  PROVE  CatchInv'
  <1>0. Reaches(d, op[d], state[d], Len(feed)) /\ (d \notin cut => Keeps(d, op[d], state[d], cursor[d], feed)) /\ FeedInv
    BY Zenon DEF CatchInv
  <1>1. /\ op[d].pc = "welcome" /\ UNCHANGED <<epoch, feed, late, state, cursor, cut>>
        /\ mail' = mail \cup {[to |-> a[1], package |-> a[2], group |-> op[d].group]}
    BY Zenon DEF PublishWelcome, store
  <1>2. /\ \A e \in Device \ {d} : op'[e] = op[e] /\ state'[e] = state[e] /\ cursor'[e] = cursor[e]
        /\ op'[d].pc \in {"welcome", "save"} /\ op'[d].group = op[d].group
    BY Zenon, <1>1, CatchParts DEF PublishWelcome, Op
  <1>3. Reaches(d, op'[d], state[d], Len(feed)) /\ op'[d].pc # "insert"
    BY Zenon, <1>0, <1>1, <1>2 DEF Reaches
  <1>4. d \notin cut => Keeps(d, op'[d], state[d], cursor[d], feed)
    BY Zenon, <1>0, <1>1, <1>2 DEF Keeps
  <1>5. (\A w \in mail' : Len(w.group) <= Len(feed)) /\ \A g \in late' : Len(g) <= Len(feed) + 1
    <2>1. Len(op[d].group) <= Len(feed)
      BY Zenon, <1>0, <1>1 DEF Reaches
    <2>2. [to |-> a[1], package |-> a[2], group |-> op[d].group].group = op[d].group
      OBVIOUS
    <2> QED BY Zenon, <1>0, <1>1, <2>1, <2>2 DEF FeedInv
  <1> QED BY Zenon, <1>1, <1>2, <1>3, <1>4, <1>5, CatchFrame

\* The feed is no longer than the line.
LEMMA FeedWithin ==
  ASSUME TypeOK, OneLine, FeedInv
  PROVE  Len(feed) <= epoch
  <1>1. Len(feed) \in Nat /\ epoch \in Nat /\ DOMAIN feed = 1 .. Len(feed) /\ Len(line) = epoch
    BY Zenon, CatchParts DEF OneLine
  <1>2. CASE Len(feed) = 0
    BY <1>1, <1>2
  <1>3. CASE Len(feed) # 0
    <2>1. Len(feed) \in DOMAIN feed
      BY <1>1, <1>3
    <2>2. Len(feed[Len(feed)]) = Len(feed) /\ IsPrefix(feed[Len(feed)], line)
      BY Zenon, <2>1 DEF FeedInv, OneLine, Fits
    <2> QED BY Zenon, <1>1, <2>2 DEF IsPrefix
  <1> QED BY Zenon, <1>2, <1>3

\* A commit takes an epoch only when the feed has all before it, and then it
\* is the next frame; nobody else is about to insert one.
LEMMA NextFrame ==
  ASSUME TypeOK, OneLine, CatchInv, NEW g \in Seq(Commit), epoch < Len(g), Len(g) <= Len(feed) + 1
  PROVE  epoch = Len(feed) /\ Len(g) = Len(feed) + 1 /\ \A e \in Device : op[e].pc # "insert"
  <1>1. Len(feed) \in Nat /\ epoch \in Nat /\ Len(g) \in Nat
    BY CatchParts
  <1>2. Len(feed) <= epoch
    BY Zenon, FeedWithin DEF CatchInv
  <1>3. epoch = Len(feed) /\ Len(g) = Len(feed) + 1 /\ epoch # Len(feed) + 1
    BY <1>1, <1>2
  <1> QED BY Zenon, <1>3 DEF CatchInv, FeedInv

\* A commit wins its epoch.
LEMMA WinEpoch ==
  ASSUME TypeOK, OneLine, CatchInv, NEW d \in Device, op[d].pc = "commit", AdvanceEpoch(Len(op[d].group)),
         Goto(d, "insert"), UNCHANGED <<feed, mail, late, state, cursor, cut>>
  PROVE  CatchInv'
  <1>0. Reaches(d, op[d], state[d], Len(feed)) /\ (d \notin cut => Keeps(d, op[d], state[d], cursor[d], feed)) /\ FeedInv
    BY Zenon DEF CatchInv
  <1>1. /\ \A e \in Device \ {d} : op'[e] = op[e]
        /\ op'[d].pc = "insert" /\ op'[d].group = op[d].group
    BY Zenon, CatchParts DEF Goto, Op
  <1>2. /\ Len(state[d]) <= Len(feed) /\ Len(op[d].group) = Len(state[d]) + 1 /\ Newest(op[d].group).by = d
        /\ Len(state[d]) \in Nat /\ Len(feed) \in Nat /\ op[d].group \in Seq(Commit)
    BY Zenon, <1>0, CatchParts DEF Reaches
  <1>3. Len(op[d].group) <= Len(feed) + 1
    BY <1>2
  <1>4. /\ epoch < Len(op[d].group) /\ epoch' = Len(op[d].group) /\ epoch = Len(feed)
        /\ Len(op[d].group) = Len(feed) + 1 /\ \A e \in Device : op[e].pc # "insert"
    BY Zenon, <1>2, <1>3, NextFrame DEF AdvanceEpoch
  <1>5. Reaches(d, op'[d], state[d], Len(feed))
    BY Zenon, <1>1, <1>2, <1>4 DEF Reaches
  <1>6. d \notin cut => Keeps(d, op'[d], state[d], cursor[d], feed)
    BY Zenon, <1>0, <1>1 DEF Keeps
  <1>7. epoch' <= Len(feed) + 1 /\ epoch' = Len(feed) + 1
    BY <1>2, <1>4
  <1>8. FeedInv'
    BY Zenon, <1>0, <1>1, <1>4, <1>7 DEF FeedInv
  <1>9. \A e \in Device : op'[e].pc = "claim" => op[e].pc = "claim"
    BY Zenon, <1>1
  <1> QED BY Zenon, <1>1, <1>5, <1>6, <1>8, <1>9 DEF CatchInv

\* The feed with the next frame.
LEMMA NextFeed ==
  ASSUME TypeOK, CatchInv, NEW g \in Seq(Commit), feed' = Append(feed, g), Len(g) = Len(feed) + 1
  PROVE  /\ Len(feed') = Len(feed) + 1 /\ Len(feed) \in Nat
         /\ \A i \in DOMAIN feed' : Len(feed'[i]) = i
         /\ \A i \in DOMAIN feed' : (i \in DOMAIN feed /\ feed'[i] = feed[i]) \/ (i = Len(feed) + 1 /\ feed'[i] = g)
  <1>1. /\ Len(feed') = Len(feed) + 1 /\ feed'[Len(feed) + 1] = g /\ \A i \in 1 .. Len(feed) : feed'[i] = feed[i]
        /\ feed' \in Seq(Seq(Commit))
    BY CatchParts, SeqAppend
  <1>2. DOMAIN feed' = 1 .. Len(feed') /\ Len(feed) \in Nat /\ DOMAIN feed = 1 .. Len(feed)
    BY <1>1, CatchParts
  <1>3. \A i \in DOMAIN feed' : i \in 1 .. Len(feed) \/ i = Len(feed) + 1
    BY <1>1, <1>2
  <1>4. \A i \in DOMAIN feed' : (i \in DOMAIN feed /\ feed'[i] = feed[i]) \/ (i = Len(feed) + 1 /\ feed'[i] = g)
    BY Zenon, <1>1, <1>2, <1>3
  <1>5. \A i \in DOMAIN feed : Len(feed[i]) = i
    BY Zenon DEF CatchInv, FeedInv
  <1> QED BY Zenon, <1>1, <1>2, <1>4, <1>5

\* What a device had it has when the feed has grown by the commit of another.
LEMMA FeedGrew ==
  ASSUME TypeOK, CatchInv, NEW g \in Seq(Commit), feed' = Append(feed, g), Len(g) = Len(feed) + 1,
         NEW e \in Device, op[e].pc # "insert"
  PROVE  /\ Reaches(e, op[e], state[e], Len(feed'))
         /\ e \notin cut /\ Newest(g).by # e => Keeps(e, op[e], state[e], cursor[e], feed')
  <1>0. Reaches(e, op[e], state[e], Len(feed)) /\ (e \notin cut => Keeps(e, op[e], state[e], cursor[e], feed))
    BY Zenon DEF CatchInv
  <1>1. /\ Len(feed') = Len(feed) + 1 /\ Len(feed) \in Nat
        /\ \A i \in DOMAIN feed' : (i \in DOMAIN feed /\ feed'[i] = feed[i]) \/ (i = Len(feed) + 1 /\ feed'[i] = g)
    BY Zenon, NextFeed
  <1>2. \A n \in Nat : n <= Len(feed) => n <= Len(feed')
    BY <1>1
  <1>3. Len(state[e]) \in Nat /\ Len(op[e].group) \in Nat
    BY Zenon, CatchParts
  <1>4. Reaches(e, op[e], state[e], Len(feed'))
    BY Zenon, <1>0, <1>2, <1>3 DEF Reaches
  <1>5. ASSUME e \notin cut, Newest(g).by # e PROVE Keeps(e, op[e], state[e], cursor[e], feed')
    BY Zenon, <1>0, <1>1, <1>5 DEF Keeps
  <1> QED BY Zenon, <1>4, <1>5

\* The commit that has its epoch is inserted.
LEMMA InsertFrame ==
  ASSUME TypeOK, CatchInv, NEW d \in Device, InsertCommit(d)
  PROVE  CatchInv'
  <1> DEFINE g == op[d].group
  <1>0. Reaches(d, op[d], state[d], Len(feed)) /\ (d \notin cut => Keeps(d, op[d], state[d], cursor[d], feed)) /\ FeedInv
    BY Zenon DEF CatchInv
  <1>1. /\ op[d].pc = "insert" /\ feed' = Append(feed, g) /\ UNCHANGED <<epoch, mail, late, state, cursor, cut>>
        /\ op' = [op EXCEPT ![d].pc = "welcome"]
    BY Zenon DEF InsertCommit, Goto, store
  <1>2. /\ \A e \in Device \ {d} : op'[e] = op[e]
        /\ op'[d].pc = "welcome" /\ op'[d].group = g
    BY Zenon, <1>1, CatchParts DEF Op
  <1>3. g \in Seq(Commit) /\ Len(g) = Len(feed) + 1 /\ Newest(g).by = d /\ Len(g) = Len(state[d]) + 1
    BY Zenon, <1>0, <1>1, CatchParts DEF Reaches
  <1> HIDE DEF g
  <1>4. /\ Len(feed') = Len(feed) + 1 /\ Len(feed) \in Nat
        /\ \A i \in DOMAIN feed' : Len(feed'[i]) = i
        /\ \A i \in DOMAIN feed' : (i \in DOMAIN feed /\ feed'[i] = feed[i]) \/ (i = Len(feed) + 1 /\ feed'[i] = g)
    BY Zenon, <1>1, <1>3, NextFeed
  <1>5. \A e \in Device : op[e].pc = "insert" => e = d
    BY Zenon, <1>0, <1>1 DEF FeedInv
  <1>6. \A e \in Device : op'[e].pc # "insert"
    BY Zenon, <1>2, <1>5
  <1>7. \A n \in Nat : (n <= Len(feed) => n <= Len(feed')) /\ (n <= Len(feed) + 1 => n <= Len(feed') + 1)
    BY <1>4
  <1>8. \A w \in mail : Len(w.group) \in Nat
    <2>1. \A w \in mail : w.group \in Seq(Commit)
      BY Zenon DEF TypeOK, Welcome
    <2> QED BY <2>1
  <1>9. \A q \in late : Len(q) \in Nat
    BY DEF TypeOK
  <1>10. epoch <= Len(feed') + 1
    <2>1. epoch <= Len(feed) + 1 /\ epoch \in Nat
      BY Zenon, <1>0, CatchParts DEF FeedInv
    <2> QED BY <1>4, <2>1
  <1>11. FeedInv'
    BY Zenon, <1>0, <1>1, <1>4, <1>6, <1>7, <1>8, <1>9, <1>10 DEF FeedInv
  <1>12. ASSUME NEW e \in Device, e # d
         PROVE  Reaches(e, op'[e], state[e], Len(feed')) /\ (e \notin cut => Keeps(e, op'[e], state[e], cursor[e], feed'))
    BY Zenon, <1>1, <1>2, <1>3, <1>5, <1>12, FeedGrew
  <1>13. Reaches(d, op'[d], state[d], Len(feed'))
    <2>1. Len(state[d]) <= Len(feed') /\ Len(g) <= Len(feed')
      <3>1. Len(state[d]) \in Nat
        BY Zenon, CatchParts
      <3> QED BY <1>3, <1>4, <3>1
    <2> QED BY Zenon, <1>2, <1>3, <2>1 DEF Reaches
  <1>14. ASSUME d \notin cut PROVE Keeps(d, op'[d], state[d], cursor[d], feed')
    <2>1. cursor[d] <= Len(state[d]) /\ \A i \in DOMAIN feed : Newest(feed[i]).by = d => i <= Len(state[d])
      BY Zenon, <1>0, <1>1, <1>14 DEF Keeps
    <2>2. Len(feed) + 1 <= Len(g)
      BY <1>3, <1>4
    <2> QED BY Zenon, <1>2, <1>4, <2>1, <2>2 DEF Keeps
  <1>15. \A e \in Device : op'[e].pc = "claim" => op[e].pc = "claim"
    BY Zenon, <1>2
  <1> QED BY Zenon, <1>1, <1>11, <1>12, <1>13, <1>14, <1>15 DEF CatchInv

\* A commit nobody waits for arrives.
LEMMA LateFrame ==
  ASSUME TypeOK, OneLine, CatchInv, NEW g \in late, lateCommit(g)
  PROVE  CatchInv'
  <1>0. FeedInv /\ g \in Seq(Commit) /\ late' \subseteq late /\ UNCHANGED <<mail, state, cursor, op>> /\ cut \subseteq cut'
    BY SMTT(30) DEF CatchInv, TypeOK, lateCommit, store
  <1>1. CASE UNCHANGED <<epoch, feed>>
    <2>1. FeedInv'
      BY Zenon, <1>0, <1>1 DEF FeedInv
    <2> QED BY Zenon, <1>0, <1>1, <2>1 DEF CatchInv
  <1>2. CASE AdvanceEpoch(Len(g)) /\ feed' \in {feed, Append(feed, g)} /\ cut' = cut \cup {Newest(g).by}
    <2>1. Len(g) <= Len(feed) + 1
      BY Zenon, <1>0 DEF FeedInv
    <2>2. epoch < Len(g) /\ epoch' = Len(g)
      BY Zenon, <1>2 DEF AdvanceEpoch
    <2>3. epoch = Len(feed) /\ Len(g) = Len(feed) + 1 /\ \A e \in Device : op[e].pc # "insert"
      BY Zenon, <1>0, <2>1, <2>2, NextFrame
    <2>4. CASE feed' = feed
      <3>1. epoch' <= Len(feed) + 1
        BY <2>2, <2>3, CatchParts
      <3>2. FeedInv'
        BY Zenon, <1>0, <2>3, <2>4, <3>1 DEF FeedInv
      <3> QED BY Zenon, <1>0, <2>4, <3>2 DEF CatchInv
    <2>5. CASE feed' = Append(feed, g)
      <3>1. /\ Len(feed') = Len(feed) + 1 /\ Len(feed) \in Nat
            /\ \A i \in DOMAIN feed' : Len(feed'[i]) = i
        BY Zenon, <1>0, <2>3, <2>5, NextFeed
      <3>2. \A n \in Nat : (n <= Len(feed) => n <= Len(feed')) /\ (n <= Len(feed) + 1 => n <= Len(feed') + 1)
        BY <3>1
      <3>3. \A w \in mail : Len(w.group) \in Nat
        <4>1. \A w \in mail : w.group \in Seq(Commit)
          BY Zenon DEF TypeOK, Welcome
        <4> QED BY <4>1
      <3>4. \A q \in late : Len(q) \in Nat
        BY DEF TypeOK
      <3>5. epoch' <= Len(feed') + 1
        BY <2>2, <2>3, <3>1
      <3>6. FeedInv'
        BY Zenon, <1>0, <2>3, <3>1, <3>2, <3>3, <3>4, <3>5 DEF FeedInv
      <3>7. ASSUME NEW e \in Device
            PROVE  Reaches(e, op[e], state[e], Len(feed')) /\ (e \notin cut' => Keeps(e, op[e], state[e], cursor[e], feed'))
        BY Zenon, <1>0, <1>2, <2>3, <2>5, FeedGrew
      <3> QED BY Zenon, <1>0, <3>6, <3>7 DEF CatchInv
    <2> QED BY Zenon, <1>2, <2>4, <2>5
  <1> QED BY Zenon, <1>1, <1>2 DEF lateCommit

\* Every step keeps the invariant: one step per action.
LEMMA CatchStep == Counting /\ TypeOK /\ Within /\ OneLine /\ CatchInv /\ [Next]_vars => CatchInv'
  <1> SUFFICES ASSUME Counting, TypeOK, Within, OneLine, CatchInv, [Next]_vars PROVE CatchInv'
    BY Zenon
  <1>0. CASE UNCHANGED vars
    BY Zenon, <1>0 DEF vars, server, store, CatchInv, FeedInv
  <1>1. ASSUME NEW d \in Device, DeviceStep(d) PROVE CatchInv'
    <2>0. op \in [Device -> Op] /\ state[d] \in Seq(Commit)
      BY Zenon, CatchParts
    <2>a. Idle.pc = "idle" /\ "idle" \in Resting /\ "claim" \in Resting /\ "await" \in Resting
      BY Zenon DEF Idle, Resting
    <2>b. \A x : [Idle EXCEPT !.pc = x].pc = x
      BY Zenon DEF Idle
    <2>c. \A g, n : LET o == [Idle EXCEPT !.pc = "catch", !.group = g, !.upto = n]
                    IN  o.pc = "catch" /\ o.group = g
      BY Zenon DEF Idle
    <2>1. CASE bootstrap(d) \/ topUpKeyPackages(d) \/ uploadKeyPackages(d)
      <3>1. UNCHANGED <<op, state, cursor, feed, epoch, mail, late, cut>>
        BY Zenon, <2>1 DEF bootstrap, topUpKeyPackages, uploadKeyPackages, server, store
      <3> QED BY Zenon, <3>1 DEF CatchInv, FeedInv
    <2>2. CASE initiateChat(d)
      <3>1. op[d].pc \in Resting /\ UNCHANGED <<state, cursor, feed, epoch, mail, late, cut>>
        BY Zenon, <2>2, <2>a DEF initiateChat, Free, server, store
      <3>2. op' = [op EXCEPT ![d] = op'[d]] /\ op'[d].pc \in Resting /\ state[d] = << >>
        BY Zenon, <2>0, <2>2, <2>a, <2>b DEF initiateChat, Begin
      <3> QED BY Zenon, <3>1, <3>2, RestStep
    <2>3. CASE claimBoth(d)
      <3> DEFINE p == Picks(Peers(d) \cup Others(d))
                 c == [by |-> d, adds |-> p]
                 o == [Idle EXCEPT !.pc = "commit", !.todo = p, !.group = <<c>>]
      <3>1. op[d].pc = "claim" /\ UNCHANGED <<state, cursor, feed, epoch, mail, late, cut>>
        BY Zenon, <2>3 DEF claimBoth, store
      <3>2. op' = [op EXCEPT ![d] = Idle] \/ op' = [op EXCEPT ![d] = o]
        BY Zenon, <2>3 DEF claimBoth, Begin, Finish
      <3>3. CASE op' = [op EXCEPT ![d] = Idle]
        <4>1. op' = [op EXCEPT ![d] = op'[d]] /\ op'[d].pc \in Resting /\ op'[d].pc # "claim"
          BY Zenon, <2>0, <2>a, <3>3
        <4> QED BY Zenon, <2>a, <3>1, <4>1, RestStep
      <3>4. CASE op' = [op EXCEPT ![d] = o]
        <4>1. c \in Commit /\ c.by = d
          BY Zenon, PicksType DEF Commit, Peers, Others
        <4>2. state[d] = << >>
          BY Zenon, <3>1 DEF CatchInv
        <4>3. o.pc = "commit" /\ o.group = <<c>>
          <5> HIDE DEF c, p
          <5> QED BY Zenon DEF Idle
        <4> HIDE DEF o, c, p
        <4>4. <<c>> = Append(state[d], c)
          BY <4>1, <4>2
        <4>5. op' = [op EXCEPT ![d] = op'[d]] /\ op'[d].pc = "commit" /\ op'[d].group = Append(state[d], c)
          BY Zenon, <2>0, <3>4, <4>3, <4>4
        <4> QED BY Zenon, <2>a, <3>1, <4>1, <4>5, BuildStep
      <3> QED BY Zenon, <3>2, <3>3, <3>4
    <2>4. ASSUME NEW x \in Device, addDeviceToChat(d, x) PROVE CatchInv'
      <3> DEFINE p == Picks({x})
                 c == [by |-> d, adds |-> p]
                 o == [Idle EXCEPT !.pc = "commit", !.for = "add", !.todo = p, !.group = Append(state[d], c)]
      <3>1. op[d].pc \in Resting /\ UNCHANGED <<state, cursor, feed, epoch, mail, late, cut>>
        BY Zenon, <2>4, <2>a DEF addDeviceToChat, Free, store
      <3>2. op' = [op EXCEPT ![d] = o]
        BY Zenon, <2>4 DEF addDeviceToChat, Begin
      <3>3. c \in Commit /\ c.by = d
        BY Zenon, PicksType DEF Commit
      <3>4. o.pc = "commit" /\ o.group = Append(state[d], c)
        <4> HIDE DEF c, p
        <4> QED BY Zenon DEF Idle
      <3> HIDE DEF o, c, p
      <3>5. op' = [op EXCEPT ![d] = op'[d]] /\ op'[d].pc = "commit" /\ op'[d].group = Append(state[d], c)
        BY Zenon, <2>0, <3>2, <3>4
      <3> QED BY Zenon, <3>1, <3>3, <3>5, BuildStep
    <2>5. CASE PublishCommit(d)
      <3>1. op[d].pc = "commit" /\ UNCHANGED <<state, cursor, feed, mail, late, cut>>
        BY Zenon, <2>5 DEF PublishCommit, store
      <3>2. CASE AdvanceEpoch(Len(op[d].group)) /\ Goto(d, "insert")
        BY Zenon, <3>1, <3>2, WinEpoch
      <3>3. CASE /\ Begin(d, IF op[d].for = "add"
                             THEN [Idle EXCEPT !.pc = "catch", !.group = state[d], !.upto = Len(feed)]
                             ELSE [Idle EXCEPT !.pc = "await"])
                 /\ UNCHANGED epoch
        <4>1. CASE op[d].for = "add"
          <5>1. op' = [op EXCEPT ![d] = op'[d]] /\ op'[d].pc = "catch" /\ op'[d].group = state[d]
            BY Zenon, <2>0, <2>c, <3>3, <4>1 DEF Begin
          <5> QED BY Zenon, <3>1, <3>3, <5>1, BeginCatch
        <4>2. CASE op[d].for # "add"
          <5>1. op' = [op EXCEPT ![d] = op'[d]] /\ op'[d].pc \in Resting /\ op'[d].pc # "claim"
            BY Zenon, <2>0, <2>a, <2>b, <3>3, <4>2 DEF Begin
          <5> QED BY Zenon, <3>1, <3>3, <5>1, RestStep
        <4> QED BY Zenon, <4>1, <4>2
      <3> QED BY Zenon, <2>5, <3>2, <3>3 DEF PublishCommit
    <2>6. CASE InsertCommit(d)
      BY Zenon, <2>6, InsertFrame
    <2>7. ASSUME NEW a \in op[d].todo, PublishWelcome(d, a) PROVE CatchInv'
      BY Zenon, <2>7, InviteStep
    <2>8. CASE saveState(d) \/ catchUpSave(d)
      BY Zenon, <2>8, CatchSave
    <2>9. CASE giveUp(d) \/ ackWelcome(d)
      <3>1. /\ op[d].pc \in {"await", "ack"} /\ UNCHANGED <<state, cursor, feed, epoch, late, cut>> /\ mail' \subseteq mail
            /\ op' = [op EXCEPT ![d] = Idle]
        BY Zenon, <2>9 DEF giveUp, ackWelcome, Finish, server, store
      <3>2. op' = [op EXCEPT ![d] = op'[d]] /\ op'[d].pc \in Resting /\ op'[d].pc # "claim" /\ op[d].pc \in Resting
        BY Zenon, <2>0, <2>a, <3>1 DEF Resting
      <3> QED BY Zenon, <3>1, <3>2, RestStep
    <2>10. ASSUME NEW w \in mail, joinFromWelcome(d, w) PROVE CatchInv'
      BY Zenon, <2>10, CatchJoin
    <2>11. CASE dropKeyPackage(d) \/ unlistKeyPackage(d)
      <3>1. op[d].pc \in {"drop", "unlist"} /\ UNCHANGED <<state, cursor, feed, epoch, mail, late, cut>>
        BY Zenon, <2>11 DEF dropKeyPackage, unlistKeyPackage, server
      <3>2. op' = [op EXCEPT ![d] = op'[d]] /\ op'[d].pc \in {"unlist", "ack"}
        BY <2>0, <2>11 DEF dropKeyPackage, unlistKeyPackage, Goto, Op
      <3>3. op'[d].pc \in Resting /\ op'[d].pc # "claim" /\ op[d].pc \in Resting
        BY Zenon, <3>1, <3>2 DEF Resting
      <3> QED BY Zenon, <3>1, <3>2, <3>3, RestStep
    <2>12. CASE catchUpHandshake(d)
      <3>1. op[d].pc \in Resting /\ UNCHANGED <<state, cursor, feed, epoch, mail, late, cut>>
        BY Zenon, <2>12, <2>a DEF catchUpHandshake, Free, server, store
      <3>2. op' = [op EXCEPT ![d] = op'[d]] /\ op'[d].pc = "catch" /\ op'[d].group = state[d]
        BY Zenon, <2>0, <2>c, <2>12 DEF catchUpHandshake, Begin
      <3> QED BY Zenon, <3>1, <3>2, BeginCatch
    <2>13. CASE catchUpFrame(d)
      BY Zenon, <2>13, CatchOne
    <2>14. CASE fail(d) \/ die(d)
      <3>1. Stop(d)
        BY Zenon, <2>14 DEF fail, die
      <3>2. /\ UNCHANGED <<state, cursor, feed, epoch, mail>> /\ cut \subseteq cut' /\ op' = [op EXCEPT ![d] = Idle]
            /\ Midway(d) => d \in cut'
        BY Zenon, <3>1 DEF Stop, Finish, store
      <3>3. \A g \in late' : g \in late \/ (op[d].pc = "commit" /\ g = op[d].group)
        BY Zenon, <3>1 DEF Stop
      <3>4. op' = [op EXCEPT ![d] = op'[d]] /\ op'[d].pc \in Resting /\ op'[d].pc # "claim"
        BY Zenon, <2>0, <2>a, <3>2
      <3>5. op[d].pc \in Pc
        BY Zenon, <2>0 DEF Op
      <3>6. \/ op[d].pc \in Resting \cup {"commit"}
            \/ op[d].pc = "catch" /\ op[d].group = state[d]
            \/ d \in cut'
        BY Zenon, <3>2, <3>5 DEF Midway, Pc, Resting
      <3> QED BY Zenon, <3>2, <3>3, <3>4, <3>6, RestStep
    <2> QED
      BY ZenonT(40), <1>1, <2>1, <2>2, <2>3, <2>4, <2>5, <2>6, <2>7, <2>8, <2>9, <2>10, <2>11, <2>12, <2>13,
         <2>14 DEF DeviceStep
  <1>2. ASSUME NEW g \in late, lateCommit(g) PROVE CatchInv'
    BY Zenon, <1>2, LateFrame
  <1> QED BY Zenon, <1>0, <1>1, <1>2 DEF Next

LEMMA CatchInit == Init => CatchInv
  <1> SUFFICES ASSUME Init PROVE CatchInv
    BY Zenon
  <1>1. Len(<< >>) = 0 /\ DOMAIN << >> = {}
    OBVIOUS
  <1>2. Idle.pc \in Resting /\ Idle.pc # "insert" /\ Idle.pc # "claim"
    BY Zenon DEF Idle, Resting
  <1>3. 0 <= 0 /\ 0 <= 0 + 1
    OBVIOUS
  <1>4. FeedInv
    BY Zenon, <1>1, <1>2, <1>3 DEF Init, FeedInv
  <1>5. \A d \in Device : op[d] = Idle /\ state[d] = << >> /\ cursor[d] = 0 /\ feed = << >>
    BY Zenon DEF Init
  <1>6. \A d : Reaches(d, Idle, << >>, 0) /\ Keeps(d, Idle, << >>, 0, << >>)
    BY Zenon, <1>1, <1>2, <1>3, Rests
  <1> QED BY Zenon, <1>1, <1>4, <1>5, <1>6 DEF CatchInv

\* A set of numbers that is not empty has a least one.  GroupProofs proves it.
LeastNumber == \A S \in SUBSET Nat : S # {} => \E n \in S : \A m \in S : n <= m

\* Through is the function its recursive definition describes, if there is one.
LEMMA ThroughIs ==
  ASSUME NEW d \in Device, NEW w,
         w = [i \in 0 .. Len(feed) |-> IF i <= cursor[d] THEN state[d] ELSE ApplyFrame(d, w[i - 1], feed[i])]
  PROVE  Through(d) = [i \in 0 .. Len(feed) |-> IF i <= cursor[d] THEN state[d]
                                                ELSE ApplyFrame(d, Through(d)[i - 1], feed[i])]
  BY Zenon DEF Through

\* Going through the rest of the feed from a state of the line, with the
\* cursor not ahead of it: the frames up to the state's own epoch do not
\* apply, each one after it does.  There is no least frame after which the
\* function computes anything else.
LEMMA GoesThrough ==
  ASSUME LeastNumber, TypeOK, OneLine, CatchInv, NEW d \in Device, op[d].pc = "idle", d \notin cut
  PROVE  \A i \in 0 .. Len(feed) : Through(d)[i] = IF i <= Len(state[d]) THEN state[d] ELSE feed[i]
  <1> DEFINE n == Len(feed)
             s == state[d]
             w == [i \in 0 .. n |-> IF i <= Len(s) THEN s ELSE feed[i]]
             t == Through(d)
  <1>1. /\ n \in Nat /\ DOMAIN feed = 1 .. n /\ s \in Seq(Commit) /\ Len(s) \in Nat /\ cursor[d] \in Nat
        /\ line \in Seq(Commit)
    BY Zenon, CatchParts DEF TypeOK
  <1>2. cursor[d] <= Len(s) /\ \A i \in DOMAIN feed : Newest(feed[i]).by = d => i <= Len(s)
    BY Zenon DEF CatchInv, Keeps
  <1>3. IsPrefix(s, line)
    BY Zenon DEF OneLine, Fits
  <1>4. \A i \in DOMAIN feed : feed[i] \in Seq(Commit) /\ Len(feed[i]) = i /\ IsPrefix(feed[i], line)
    BY Zenon, CatchParts DEF CatchInv, FeedInv, OneLine, Fits
  <1> HIDE DEF n, s, t
  <1>5. \A i \in DOMAIN feed : Base(feed[i]) \in Seq(Commit) /\ Len(Base(feed[i])) = i - 1 /\ IsPrefix(Base(feed[i]), line)
    <2> SUFFICES ASSUME NEW i \in DOMAIN feed
                 PROVE  Base(feed[i]) \in Seq(Commit) /\ Len(Base(feed[i])) = i - 1 /\ IsPrefix(Base(feed[i]), line)
      BY Zenon
    <2>1. feed[i] # << >>
      <3>1. Len(<< >>) = 0
        OBVIOUS
      <3>2. i # 0
        BY <1>1
      <3> QED BY Zenon, <1>4, <3>1, <3>2
    <2> QED BY Zenon, <1>1, <1>4, <2>1, BaseOf, PrefixOrder
  <1>6. \A i \in 0 .. n : w[i] = IF i <= Len(s) THEN s ELSE feed[i]
    BY Zenon
  <1> HIDE DEF w
  <1>7. ASSUME NEW i \in 0 .. n, ~(i <= cursor[d])
        PROVE  i - 1 \in 0 .. n /\ ApplyFrame(d, w[i - 1], feed[i]) = w[i]
    <2>1. i \in DOMAIN feed /\ i - 1 \in 0 .. n /\ i \in Nat \ {0}
      BY <1>1, <1>7
    <2>2. CASE i <= Len(s)
      <3>1. i - 1 <= Len(s) /\ i - 1 # Len(s)
        BY <1>1, <2>1, <2>2
      <3>2. w[i - 1] = s /\ w[i] = s /\ Base(feed[i]) # s
        BY Zenon, <1>5, <1>6, <2>1, <2>2, <3>1
      <3> QED BY Zenon, <2>1, <3>2 DEF ApplyFrame, Applies
    <2>3. CASE ~(i <= Len(s))
      <3>1. w[i] = feed[i] /\ Newest(feed[i]).by # d
        BY Zenon, <1>2, <1>6, <2>1, <2>3
      <3>2. w[i - 1] \in Seq(Commit) /\ Len(w[i - 1]) = i - 1 /\ IsPrefix(w[i - 1], line)
        <4>1. CASE i - 1 <= Len(s)
          <5>1. Len(s) = i - 1
            BY <1>1, <2>1, <2>3, <4>1
          <5> QED BY Zenon, <1>1, <1>3, <1>6, <2>1, <4>1, <5>1
        <4>2. CASE ~(i - 1 <= Len(s))
          <5>1. i - 1 \in DOMAIN feed
            BY <1>1, <2>1, <4>2
          <5> QED BY Zenon, <1>4, <1>6, <2>1, <4>2, <5>1
        <4> QED BY Zenon, <4>1, <4>2
      <3>3. Base(feed[i]) = w[i - 1]
        BY Zenon, <1>1, <1>5, <2>1, <3>2, PrefixSame
      <3> QED BY Zenon, <2>1, <3>1, <3>3 DEF ApplyFrame, Applies
    <2> QED BY Zenon, <2>2, <2>3
  <1>8. \A i \in 0 .. n : i <= cursor[d] => w[i] = s
    <2>1. \A i \in 0 .. n : i <= cursor[d] => i <= Len(s)
      BY <1>1, <1>2
    <2> QED BY Zenon, <1>6, <2>1
  <1>9. w = [i \in 0 .. n |-> IF i <= cursor[d] THEN s ELSE ApplyFrame(d, w[i - 1], feed[i])]
    <2>1. w = [i \in 0 .. n |-> w[i]]
      BY Zenon DEF w
    <2>2. \A i \in 0 .. n : w[i] = IF i <= cursor[d] THEN s ELSE ApplyFrame(d, w[i - 1], feed[i])
      BY Zenon, <1>7, <1>8
    <2> QED BY Zenon, <2>1, <2>2
  <1>10. t = [i \in 0 .. n |-> IF i <= cursor[d] THEN s ELSE ApplyFrame(d, t[i - 1], feed[i])]
    BY Zenon, <1>9, ThroughIs DEF n, s, t
  <1>11. \A i \in 0 .. n : t[i] = IF i <= cursor[d] THEN s ELSE ApplyFrame(d, t[i - 1], feed[i])
    BY Zenon, <1>10
  <1>12. \A i \in 0 .. n : t[i] = w[i]
    <2> DEFINE D == {i \in 0 .. n : t[i] # w[i]}
    <2> SUFFICES ASSUME D # {} PROVE FALSE
      BY Zenon
    <2>1. D \in SUBSET Nat
      BY <1>1
    <2> HIDE DEF D
    <2>2. PICK i \in D : \A m \in D : i <= m
      BY Zenon, <2>1 DEF LeastNumber
    <2>3. i \in 0 .. n /\ t[i] # w[i]
      BY Zenon DEF D
    <2>4. ~(i <= cursor[d])
      <3> SUFFICES ASSUME i <= cursor[d] PROVE FALSE
        BY Zenon
      <3>1. t[i] = s /\ w[i] = s
        BY Zenon, <1>8, <1>11, <2>3
      <3> QED BY Zenon, <2>3, <3>1
    <2>5. i - 1 \in 0 .. n /\ ~(i <= i - 1) /\ ApplyFrame(d, w[i - 1], feed[i]) = w[i]
      <3>1. ~(i <= i - 1)
        BY <1>1, <2>3
      <3> QED BY Zenon, <1>7, <2>3, <2>4, <3>1
    <2>6. t[i - 1] = w[i - 1]
      BY Zenon, <2>2, <2>5 DEF D
    <2> QED BY Zenon, <1>11, <2>3, <2>4, <2>5, <2>6
  <1> QED BY Zenon, <1>6, <1>12 DEF n, s, t

\* So it ends with the newest frame.
LEMMA EndsNewest ==
  ASSUME LeastNumber, TypeOK, OneLine, CatchInv
  PROVE  CatchesUp
  <1> SUFFICES ASSUME NEW d \in Device, op[d].pc = "idle", d \notin cut, feed # << >>
               PROVE  Newest(feed) = Through(d)[Len(feed)]
    BY Zenon DEF CatchesUp
  <1>1. /\ Len(feed) \in Nat \ {0} /\ DOMAIN feed = 1 .. Len(feed) /\ state[d] \in Seq(Commit) /\ Len(state[d]) \in Nat
        /\ line \in Seq(Commit)
    <2>1. Len(feed) \in Nat \ {0}
      BY Zenon, CatchParts, SeqNotEmpty
    <2> QED BY Zenon, <2>1, CatchParts DEF TypeOK
  <1>2. Len(feed) \in DOMAIN feed /\ Len(feed) \in 0 .. Len(feed)
    BY <1>1
  <1>3. Through(d)[Len(feed)] = IF Len(feed) <= Len(state[d]) THEN state[d] ELSE feed[Len(feed)]
    BY Zenon, <1>2, GoesThrough
  <1>4. CASE Len(feed) <= Len(state[d])
    <2>1. /\ feed[Len(feed)] \in Seq(Commit) /\ Len(feed[Len(feed)]) = Len(feed)
          /\ IsPrefix(feed[Len(feed)], line) /\ IsPrefix(state[d], line)
      BY Zenon, <1>2, CatchParts DEF CatchInv, FeedInv, OneLine, Fits
    <2>2. Len(state[d]) <= Len(feed)
      BY Zenon DEF CatchInv, Reaches
    <2>3. Len(state[d]) = Len(feed)
      BY <1>1, <1>4, <2>2
    <2>4. feed[Len(feed)] = state[d]
      BY Zenon, <1>1, <2>1, <2>3, PrefixSame
    <2> QED BY Zenon, <1>3, <1>4, <2>4 DEF Newest
  <1>5. CASE ~(Len(feed) <= Len(state[d]))
    BY Zenon, <1>3, <1>5 DEF Newest
  <1> QED BY Zenon, <1>4, <1>5
=============================================================================
