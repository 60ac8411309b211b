----------------------------- MODULE GroupProofs ----------------------------
(***************************************************************************)
(* What Group's properties hold for any number of devices, key packages    *)
(* and failures: the group never forks (with the lemmas of GroupLine), the *)
(* server hands out packages that their devices can open, and every device *)
(* that the newest commit made a member has its state or an invitation,    *)
(* unless a committer was cut off midway.  A device that never was cut off *)
(* reaches the newest commit from the feed.                                *)
(***************************************************************************)
EXTENDS GroupLine

-----------------------------------------------------------------------------
(* Key packages and invitations: who has what they need to get in *)

\* The packages of d that are with the server, or on their way to it.
Upload(d) == IF page[d].at = "upload" THEN page[d].copy ELSE {}
Pool(d)   == offered[d] \cup Upload(d)

\* Package n of d was claimed, and the welcome for it waits or is to be sent.
Sent(d, n) == (\E w \in mail : w.to = d /\ w.package = n) \/ (\E e \in Device : <<d, n>> \in op[e].todo)

\* What an operation on the chat relies on.
Doing(d) ==
  /\ op[d].pc \in {"drop", "unlist", "ack"} =>
       state[d] # << >> /\ op[d].letter \subseteq mail /\ \A w \in op[d].letter : w.to = d
  /\ op[d].pc \in {"insert", "welcome", "save", "catch"} => op[d].group # << >>
  /\ op[d].pc = "claim" => state[d] = << >>
  /\ op[d].pc = "commit" => Len(op[d].group) = Len(state[d]) + 1
  /\ op[d].pc = "commit" /\ op[d].for = "add" => state[d] # << >>
  /\ op[d].pc = "save" => op[d].todo = {}

\* A package is with the server, or claimed, never both, and older than those
\* the device makes next; its private half and its index entry are there; the
\* index a top-up read has every entry that the index has.
PoolInv(d) ==
  /\ offered[d] \cap Upload(d) = {}
  /\ \A n \in Pool(d) : n <= made[d]
  /\ \A n \in Package : Sent(d, n) => n <= made[d] /\ n \notin Pool(d)
  /\ d \notin clash => Pool(d) \subseteq localKeyPackages(d)
  /\ d \notin clash /\ page[d].at = "topup" => index[d] \subseteq page[d].copy
  /\ state[d] = << >> => d \notin clash /\ \A n \in Package : Sent(d, n) => n \in localKeyPackages(d)

\* The group states anybody can start from.
Shared ==
  {state[e] : e \in Device} \cup {feed[i] : i \in DOMAIN feed} \cup {w.group : w \in mail}
    \cup {op[e].group : e \in {x \in Device : op[x].pc \in {"welcome", "save", "catch"}}}

Inserting == {d \in Device : op[d].pc = "insert"}

\* A device that has been let in, or will be.
Invited(x) ==
  \/ state[x] # << >>
  \/ \E w \in mail : w.to = x
  \/ \E d \in Device : op[d].pc \in {"welcome", "save"} /\ (x = d \/ \E a \in op[d].todo : a[1] = x)

\* The newcomers of a commit are its author and those it invites.
Newcomers(d) ==
  op[d].pc \in {"commit", "insert"} =>
    \A x \in listMembers(op[d].group) :
      x \in listMembers(Base(op[d].group)) \/ x = d \/ \E a \in op[d].todo : a[1] = x

\* While no committer was cut off: one commit at a time has its epoch and is
\* not in the feed, and nobody has its state; the members before it, or all of
\* them when there is none, are invited.
ReachInv ==
  cut = {} =>
    /\ \A d \in Inserting : /\ op[d].group = line
                            /\ \A e \in Inserting : e = d
                            /\ \A g \in Shared : Len(g) < Len(line)
    /\ \A x \in listMembers(IF Inserting = {} THEN line ELSE Base(line)) : Invited(x)

\* A welcome holds a state.
LettersInv == \A w \in mail : w.group # << >>

EntryInv == ReachInv /\ LettersInv /\ \A d \in Device : Doing(d) /\ PoolInv(d) /\ Newcomers(d)

\* The parts of the operations that are begun.
LEMMA OpParts ==
  /\ Idle.pc = "idle" /\ Idle.todo = {} /\ Idle.letter = {} /\ Idle.group = << >>
  /\ \A x : LET o == [Idle EXCEPT !.pc = x] IN o.pc = x /\ o.todo = {}
  BY Zenon DEF Idle

\* The parts of TypeOK that the next lemmas use.
LEMMA Parts ==
  ASSUME TypeOK
  PROVE  /\ op \in [Device -> Op] /\ state \in [Device -> Seq(Commit)] /\ mail \subseteq Welcome
         /\ \A e \in Device : /\ op[e].group \in Seq(Commit) /\ op[e].todo \subseteq Device \X Package
                              /\ op[e].letter \subseteq Welcome /\ op[e].copy \subseteq Package
                              /\ op[e].pc \in Pc /\ op[e].for \in {"send", "add"}
                              /\ state[e] \in Seq(Commit)
         /\ \A w \in mail : w.to \in Device /\ w.package \in Package /\ w.group \in Seq(Commit)
         /\ feed \in Seq(Seq(Commit)) /\ \A i \in DOMAIN feed : feed[i] \in Seq(Commit)
  <1>1. /\ op \in [Device -> Op] /\ state \in [Device -> Seq(Commit)] /\ mail \subseteq Welcome
        /\ feed \in Seq(Seq(Commit))
    BY Zenon DEF TypeOK
  <1>2. ASSUME NEW e \in Device
        PROVE  /\ op[e].group \in Seq(Commit) /\ op[e].todo \subseteq Device \X Package
               /\ op[e].letter \subseteq Welcome /\ op[e].copy \subseteq Package
               /\ op[e].pc \in Pc /\ op[e].for \in {"send", "add"} /\ state[e] \in Seq(Commit)
    <2>1. op[e] \in Op
      BY Zenon, <1>1
    <2>2. op[e].group \in Seq(Commit) /\ op[e].pc \in Pc /\ op[e].for \in {"send", "add"}
      BY Zenon, <2>1 DEF Op
    <2>3. op[e].todo \in SUBSET (Device \X Package) /\ op[e].letter \in SUBSET Welcome /\ op[e].copy \in SUBSET Package
      BY Zenon, <2>1 DEF Op
    <2> QED BY Zenon, <1>1, <2>2, <2>3
  <1>3. \A w \in mail : w.to \in Device /\ w.package \in Package /\ w.group \in Seq(Commit)
    BY Zenon, <1>1 DEF Welcome
  <1>4. \A i \in DOMAIN feed : feed[i] \in Seq(Commit)
    BY <1>1, SeqElement
  <1> QED BY Zenon, <1>1, <1>2, <1>3, <1>4

\* A device's step leaves what the others are doing, and their states, alone.
LEMMA OnlyOwn ==
  ASSUME TypeOK, NEW d \in Device, DeviceStep(d)
  PROVE  \A e \in Device \ {d} : op'[e] = op[e] /\ state'[e] = state[e]
  <1>0. op \in [Device -> Op] /\ state \in [Device -> Seq(Commit)]
    BY Zenon, Parts
  <1>1. (\E o : op' = [op EXCEPT ![d] = o]) => \A e \in Device \ {d} : op'[e] = op[e]
    BY Zenon, <1>0
  <1>2. op' = op \/ \E o : op' = [op EXCEPT ![d] = o]
    BY ZenonT(60), <1>0 DEF DeviceStep, bootstrap, topUpKeyPackages, uploadKeyPackages, initiateChat, claimBoth,
       addDeviceToChat, PublishCommit, InsertCommit, PublishWelcome, saveState, giveUp, joinFromWelcome,
       dropKeyPackage, unlistKeyPackage, ackWelcome, catchUpHandshake, catchUpFrame, catchUpSave,
       fail, die, Stop, Begin, Finish, Goto
  <1>3. state' = state \/ \E g : state' = [state EXCEPT ![d] = g]
    BY Zenon, <1>0 DEF DeviceStep, bootstrap, topUpKeyPackages, uploadKeyPackages, initiateChat, claimBoth,
       addDeviceToChat, PublishCommit, InsertCommit, PublishWelcome, saveState, giveUp, joinFromWelcome,
       dropKeyPackage, unlistKeyPackage, ackWelcome, catchUpHandshake, catchUpFrame, catchUpSave,
       fail, die, Stop, store
  <1> QED BY Zenon, <1>0, <1>1, <1>2, <1>3

\* The members of a prefix are members.
LEMMA MembersOfPrefix ==
  ASSUME NEW s \in Seq(Commit), NEW t \in Seq(Commit), IsPrefix(s, t)
  PROVE  listMembers(s) \subseteq listMembers(t)
  <1>1. Len(s) <= Len(t) /\ \A i \in 1 .. Len(s) : s[i] = t[i]
    BY PrefixByElement
  <1>2. DOMAIN s = 1 .. Len(s) /\ DOMAIN t = 1 .. Len(t) /\ Len(s) \in Nat /\ Len(t) \in Nat
    OBVIOUS
  <1>3. \A i \in DOMAIN s : i \in DOMAIN t /\ s[i] = t[i]
    BY <1>1, <1>2
  <1> QED BY Zenon, <1>3 DEF listMembers

\* A commit adds its author and those it is for.
LEMMA MembersOfCommit ==
  ASSUME NEW s \in Seq(Commit), NEW c \in Commit
  PROVE  \A x \in listMembers(Append(s, c)) : x \in listMembers(s) \/ x = c.by \/ \E a \in c.adds : a[1] = x
  <1> DEFINE t == Append(s, c)
  <1>1. Len(t) = Len(s) + 1 /\ t[Len(s) + 1] = c /\ \A i \in 1 .. Len(s) : t[i] = s[i]
    BY SeqAppend
  <1>2. DOMAIN s = 1 .. Len(s) /\ DOMAIN t = 1 .. Len(t) /\ Len(s) \in Nat
    BY SeqAppend
  <1> HIDE DEF t
  <1>3. \A i \in DOMAIN t : t[i] = c \/ (i \in DOMAIN s /\ t[i] = s[i])
    BY <1>1, <1>2
  <1>4. \A x \in listMembers(t) : x \in listMembers(s) \/ x = c.by \/ \E a \in c.adds : a[1] = x
    <2> SUFFICES ASSUME NEW x \in listMembers(t)
                 PROVE  x \in listMembers(s) \/ x = c.by \/ \E a \in c.adds : a[1] = x
      BY Zenon
    <2>1. PICK i \in DOMAIN t : x \in Added(t[i]) \cup {t[i].by}
      BY Zenon DEF listMembers
    <2>2. CASE t[i] = c
      BY Zenon, <2>1, <2>2 DEF Added
    <2>3. CASE i \in DOMAIN s /\ t[i] = s[i]
      BY Zenon, <2>1, <2>3 DEF listMembers
    <2> QED BY Zenon, <1>3, <2>2, <2>3
  <1> QED BY Zenon, <1>4 DEF t

-----------------------------------------------------------------------------
(* What each part of the invariant depends on *)

\* The others rely on their welcomes and their states only.
LEMMA DoingFrame ==
  ASSUME TypeOK, NEW d \in Device, \A e \in Device : Doing(e),
         \A e \in Device \ {d} : op'[e] = op[e] /\ state'[e] = state[e],
         \A w \in mail : w.to # d => w \in mail',
         Doing(d)'
  PROVE  \A e \in Device : Doing(e)'
  <1> SUFFICES ASSUME NEW e \in Device, e # d PROVE Doing(e)'
    BY Zenon
  <1>1. op'[e] = op[e] /\ state'[e] = state[e] /\ Doing(e)
    BY Zenon
  <1>2. op[e].pc \in {"drop", "unlist", "ack"} => op[e].letter \subseteq mail'
    <2> SUFFICES ASSUME op[e].pc \in {"drop", "unlist", "ack"}, NEW w \in op[e].letter PROVE w \in mail'
      BY Zenon
    <2>1. w \in mail /\ w.to = e
      BY Zenon, <1>1 DEF Doing
    <2> QED BY Zenon, <2>1
  <1> QED BY Zenon, <1>1, <1>2 DEF Doing

\* A step that leaves the pools and the indexes of a device alone, and
\* claims nothing of it.
LEMMA PoolSame ==
  ASSUME NEW e \in Device, PoolInv(e), offered'[e] = offered[e], keys'[e] = keys[e], index'[e] = index[e],
         made'[e] = made[e], e \in clash' <=> e \in clash, page'[e] = page[e] \/ page'[e] = Off,
         state'[e] = << >> => state[e] = << >>,
         \A n \in Package : Sent(e, n)' => Sent(e, n)
  PROVE  PoolInv(e)'
  <1>0. PoolInv(e) /\ Off.at = "off"
    BY Zenon DEF Off
  <1>1. /\ offered'[e] = offered[e] /\ made'[e] = made[e] /\ (e \in clash' <=> e \in clash)
        /\ index'[e] = index[e] /\ localKeyPackages(e)' = localKeyPackages(e)
    BY Zenon DEF localKeyPackages
  <1>2. Upload(e)' \subseteq Upload(e) /\ Pool(e)' \subseteq Pool(e)
    BY Zenon, <1>0, <1>1 DEF Upload, Pool
  <1>3. page'[e].at = "topup" => page'[e] = page[e]
    BY Zenon, <1>0
  <1>4. \A n \in Package : Sent(e, n)' => Sent(e, n)
    BY Zenon
  <1>5. state'[e] = << >> => state[e] = << >>
    BY Zenon
  <1> DEFINE us == Upload(e)'
             ps == Pool(e)'
             lk == localKeyPackages(e)'
             sn(n) == Sent(e, n)'
  <1>6. /\ us \subseteq Upload(e) /\ ps \subseteq Pool(e) /\ lk = localKeyPackages(e)
        /\ \A n \in Package : sn(n) => Sent(e, n)
    BY Zenon, <1>1, <1>2, <1>4
  <1> HIDE DEF us, ps, lk, sn
  <1>7. /\ offered[e] \cap us = {}
        /\ \A n \in ps : n <= made[e]
        /\ \A n \in Package : sn(n) => n <= made[e] /\ n \notin ps
        /\ e \notin clash => ps \subseteq lk
        /\ e \notin clash /\ page[e].at = "topup" => index[e] \subseteq page[e].copy
        /\ state[e] = << >> => e \notin clash /\ \A n \in Package : sn(n) => n \in lk
    BY Zenon, <1>0, <1>6 DEF PoolInv
  <1> QED BY Zenon, <1>1, <1>3, <1>5, <1>7 DEF PoolInv, us, ps, lk, sn

\* ... of everyone.
LEMMA PoolFrame ==
  ASSUME \A e \in Device : PoolInv(e), UNCHANGED <<offered, keys, index, made, clash>>,
         \A e \in Device : page'[e] = page[e] \/ page'[e] = Off,
         \A e \in Device : state'[e] = << >> => state[e] = << >>,
         \A e \in Device, n \in Package : Sent(e, n)' => Sent(e, n)
  PROVE  \A e \in Device : PoolInv(e)'
  <1> SUFFICES ASSUME NEW e \in Device PROVE PoolInv(e)'
    BY Zenon
  <1>1. offered'[e] = offered[e] /\ keys'[e] = keys[e] /\ index'[e] = index[e] /\ made'[e] = made[e]
    BY Zenon
  <1> QED BY Zenon, <1>1, PoolSame

\* What has been sent, after a step of d that may send what it has to do.
LEMMA SentFrame ==
  ASSUME TypeOK, NEW d \in Device, \A e \in Device \ {d} : op'[e] = op[e], op'[d].todo \subseteq op[d].todo,
         \A w \in mail' : w \in mail \/ <<w.to, w.package>> \in op[d].todo
  PROVE  \A e \in Device, n \in Package : Sent(e, n)' => Sent(e, n)
  <1> SUFFICES ASSUME NEW e \in Device, NEW n \in Package, Sent(e, n)' PROVE Sent(e, n)
    BY Zenon
  <1>1. CASE \E w \in mail' : w.to = e /\ w.package = n
    BY Zenon, <1>1 DEF Sent
  <1>2. CASE \E f \in Device : <<e, n>> \in op'[f].todo
    BY Zenon, <1>2 DEF Sent
  <1> QED BY Zenon, <1>1, <1>2 DEF Sent

\* A device stays invited as long as nobody's work is cut off.
LEMMA InvitedFrame ==
  ASSUME NEW d \in Device, \A e \in Device \ {d} : op'[e] = op[e] /\ state'[e] = state[e],
         state[d] # << >> => state'[d] # << >>,
         \A w \in mail : w \in mail' \/ (w.to = d /\ state'[d] # << >>),
         op[d].pc \in {"welcome", "save"} =>
           \/ state'[d] # << >> /\ op[d].todo = {}
           \/ op'[d].pc \in {"welcome", "save"} /\ \A a \in op[d].todo : a \in op'[d].todo \/ \E w \in mail' : w.to = a[1]
  PROVE  \A x \in Device : Invited(x) => Invited(x)'
  <1> SUFFICES ASSUME NEW x \in Device, Invited(x) PROVE Invited(x)'
    BY Zenon
  <1>1. CASE state[x] # << >>
    BY Zenon, <1>1 DEF Invited
  <1>2. CASE \E w \in mail : w.to = x
    BY Zenon, <1>2 DEF Invited
  <1>3. ASSUME NEW e \in Device, op[e].pc \in {"welcome", "save"}, x = e \/ \E a \in op[e].todo : a[1] = x
        PROVE  Invited(x)'
    <2>1. CASE e # d
      BY Zenon, <1>3, <2>1 DEF Invited
    <2>2. CASE e = d /\ state'[d] # << >> /\ op[d].todo = {}
      BY Zenon, <1>3, <2>2 DEF Invited
    <2>3. CASE e = d /\ op'[d].pc \in {"welcome", "save"}
               /\ \A a \in op[d].todo : a \in op'[d].todo \/ \E w \in mail' : w.to = a[1]
      <3>1. CASE x = d
        BY Zenon, <2>3, <3>1 DEF Invited
      <3>2. ASSUME NEW a \in op[d].todo, a[1] = x PROVE Invited(x)'
        <4>1. CASE a \in op'[d].todo
          BY Zenon, <2>3, <3>2, <4>1 DEF Invited
        <4>2. CASE \E w \in mail' : w.to = a[1]
          BY Zenon, <3>2, <4>2 DEF Invited
        <4> QED BY Zenon, <2>3, <4>1, <4>2
      <3> QED BY Zenon, <1>3, <2>3, <3>1, <3>2
    <2> QED BY Zenon, <1>3, <2>1, <2>2, <2>3
  <1> QED BY Zenon, <1>1, <1>2, <1>3 DEF Invited

\* A step that neither takes an epoch nor inserts a commit.
LEMMA ReachFrame ==
  ASSUME ReachInv, line' = line, cut \subseteq cut', Shared' \subseteq Shared, listMembers(line) \subseteq Device,
         listMembers(Base(line)) \subseteq Device,
         cut' = {} => \A e \in Device : /\ op'[e].pc = "insert" <=> op[e].pc = "insert"
                                        /\ op[e].pc = "insert" => op'[e].group = op[e].group,
         cut' = {} => \A x \in Device : Invited(x) => Invited(x)'
  PROVE  ReachInv'
  <1> SUFFICES ASSUME cut' = {}
               PROVE  /\ \A d \in Inserting' : /\ op'[d].group = line
                                               /\ \A e \in Inserting' : e = d
                                               /\ \A g \in Shared' : Len(g) < Len(line)
                      /\ \A x \in listMembers(IF Inserting' = {} THEN line ELSE Base(line)) : Invited(x)'
    BY Zenon DEF ReachInv
  <1>1. cut = {}
    BY Zenon
  <1>2. Inserting' = Inserting /\ \A d \in Inserting : op'[d].group = op[d].group
    BY Zenon DEF Inserting
  <1>3. \A d \in Inserting : op[d].group = line /\ (\A e \in Inserting : e = d) /\ \A g \in Shared : Len(g) < Len(line)
    BY Zenon, <1>1 DEF ReachInv
  <1>4. \A x \in listMembers(IF Inserting = {} THEN line ELSE Base(line)) : Invited(x)
    BY Zenon, <1>1 DEF ReachInv
  <1>5. \A d \in Inserting' : /\ op'[d].group = line
                              /\ \A e \in Inserting' : e = d
                              /\ \A g \in Shared' : Len(g) < Len(line)
    BY Zenon, <1>2, <1>3
  <1>6. listMembers(IF Inserting = {} THEN line ELSE Base(line)) \subseteq Device
    BY Zenon
  <1>7. \A x \in listMembers(IF Inserting' = {} THEN line ELSE Base(line)) : Invited(x)'
    BY Zenon, <1>2, <1>4, <1>6
  <1> QED BY Zenon, <1>5, <1>7

-----------------------------------------------------------------------------
(* Steps that leave most alone *)

Everything == Counting /\ TypeOK /\ Within /\ OneLine /\ EntryInv

\* Members are devices.
LEMMA MembersType ==
  ASSUME NEW g \in Seq(Commit)
  PROVE  listMembers(g) \subseteq Device
  <1>1. ASSUME NEW i \in DOMAIN g PROVE g[i].by \in Device /\ Added(g[i]) \subseteq Device
    <2>1. g[i] \in Commit
      BY SeqElement
    <2>2. g[i].by \in Device /\ g[i].adds \subseteq Device \X Package
      BY Zenon, <2>1 DEF Commit
    <2> QED BY Zenon, <2>2 DEF Added
  <1> QED BY Zenon, <1>1 DEF listMembers

\* The base of any state is a state, and shares its members.
LEMMA BaseMembers ==
  ASSUME NEW g \in Seq(Commit)
  PROVE  Base(g) \in Seq(Commit) /\ listMembers(Base(g)) \subseteq listMembers(g)
  <1>1. CASE g # << >>
    BY Zenon, <1>1, BaseOf, MembersOfPrefix
  <1>2. CASE g = << >>
    <2>1. Base(<< >>) = << >>
      BY DEF Base
    <2> QED BY Zenon, <1>2, <2>1
  <1> QED BY Zenon, <1>1, <1>2

\* A step of d that begins no commit and takes no epoch: what it leaves behind
\* was there before, and it leaves nobody out.
LEMMA ReachQuiet ==
  ASSUME Everything, NEW d \in Device,
         \A e \in Device \ {d} : op'[e] = op[e] /\ state'[e] = state[e],
         line' = line, feed' = feed, cut \subseteq cut',
         \A w \in mail : w \in mail' \/ (w.to = d /\ state'[d] # << >>),
         \A w \in mail' : w \in mail \/ (op[d].pc = "welcome" /\ w.group = op[d].group),
         state[d] # << >> => state'[d] # << >>, state'[d] \in Shared,
         op'[d].pc \in {"welcome", "save", "catch"} => op'[d].group \in Shared,
         cut' = {} => op[d].pc # "insert" /\ op'[d].pc # "insert",
         cut' = {} /\ op[d].pc \in {"welcome", "save"} =>
           \/ state'[d] # << >> /\ op[d].todo = {}
           \/ op'[d].pc \in {"welcome", "save"} /\ \A a \in op[d].todo : a \in op'[d].todo \/ \E w \in mail' : w.to = a[1]
  PROVE  ReachInv'
  <1>1. Shared' \subseteq Shared
    <2> SUFFICES ASSUME NEW g \in Shared' PROVE g \in Shared
      BY Zenon
    <2>1. ASSUME NEW e \in Device, g = state'[e] PROVE g \in Shared
      <3>1. CASE e = d
        BY Zenon, <2>1, <3>1
      <3>2. CASE e # d
        <4>1. g = state[e]
          BY Zenon, <2>1, <3>2
        <4> QED BY Zenon, <4>1 DEF Shared
      <3> QED BY Zenon, <3>1, <3>2
    <2>2. CASE \E i \in DOMAIN feed : g = feed[i]
      BY Zenon, <2>2 DEF Shared
    <2>3. CASE \E w \in mail' : g = w.group
      BY ZenonT(40), <2>3 DEF Shared
    <2>4. ASSUME NEW e \in Device, op'[e].pc \in {"welcome", "save", "catch"}, g = op'[e].group PROVE g \in Shared
      <3>1. CASE e = d
        BY Zenon, <2>4, <3>1
      <3>2. CASE e # d
        <4>1. op[e].pc \in {"welcome", "save", "catch"} /\ g = op[e].group
          BY Zenon, <2>4, <3>2
        <4> QED BY Zenon, <4>1 DEF Shared
      <3> QED BY Zenon, <3>1, <3>2
    <2> QED BY ZenonT(40), <2>1, <2>2, <2>3, <2>4 DEF Shared
  <1>2. line \in Seq(Commit) /\ ReachInv
    BY Zenon DEF Everything, TypeOK, EntryInv
  <1>3. listMembers(line) \subseteq Device /\ listMembers(Base(line)) \subseteq Device
    BY Zenon, <1>2, MembersType, BaseMembers
  <1>4. cut' = {} => \A x \in Device : Invited(x) => Invited(x)'
    BY Zenon, InvitedFrame
  <1>5. cut' = {} => \A e \in Device : /\ op'[e].pc = "insert" <=> op[e].pc = "insert"
                                       /\ op[e].pc = "insert" => op'[e].group = op[e].group
    BY Zenon
  <1> QED BY Zenon, <1>1, <1>2, <1>3, <1>4, <1>5, ReachFrame

\* ... and touches no package.
LEMMA Quiet ==
  ASSUME Everything, NEW d \in Device,
         \A e \in Device \ {d} : op'[e] = op[e] /\ state'[e] = state[e],
         line' = line, feed' = feed, cut \subseteq cut', UNCHANGED <<offered, keys, index, made, clash>>,
         page' = page \/ page' = [page EXCEPT ![d] = Off],
         \A w \in mail : w \in mail' \/ (w.to = d /\ state'[d] # << >>),
         \A w \in mail' : w \in mail \/ (op[d].pc = "welcome" /\ w.group = op[d].group /\ <<w.to, w.package>> \in op[d].todo),
         state[d] # << >> => state'[d] # << >>, state'[d] \in Shared,
         op'[d].pc \in {"welcome", "save", "catch"} => op'[d].group \in Shared,
         op'[d].todo \subseteq op[d].todo, op'[d].pc \notin {"commit", "insert"},
         cut' = {} => op[d].pc # "insert",
         cut' = {} /\ op[d].pc \in {"welcome", "save"} =>
           \/ state'[d] # << >> /\ op[d].todo = {}
           \/ op'[d].pc \in {"welcome", "save"} /\ \A a \in op[d].todo : a \in op'[d].todo \/ \E w \in mail' : w.to = a[1],
         Doing(d)'
  PROVE  EntryInv'
  <1>1. ReachInv'
    BY Zenon, ReachQuiet
  <1>2. \A e \in Device : Doing(e)'
    BY Zenon, DoingFrame DEF Everything, EntryInv
  <1>3. \A e \in Device, n \in Package : Sent(e, n)' => Sent(e, n)
    BY Zenon, SentFrame DEF Everything
  <1>4. \A e \in Device : page'[e] = page[e] \/ page'[e] = Off
    BY Zenon DEF Everything, TypeOK
  <1>5. \A e \in Device : state'[e] = << >> => state[e] = << >>
    BY Zenon
  <1>6. \A e \in Device : PoolInv(e)'
    BY Zenon, <1>3, <1>4, <1>5, PoolFrame DEF Everything, EntryInv
  <1>7. \A e \in Device : Newcomers(e)'
    <2>1. ASSUME NEW e \in Device \ {d} PROVE Newcomers(e)'
      <3>1. op'[e] = op[e] /\ Newcomers(e)
        BY Zenon DEF Everything, EntryInv
      <3> QED BY Zenon, <3>1 DEF Newcomers
    <2>2. Newcomers(d)'
      BY Zenon DEF Newcomers
    <2> QED BY Zenon, <2>1, <2>2
  <1>8. LettersInv'
    <2>1. LettersInv /\ (op[d].pc = "welcome" => op[d].group # << >>)
      BY Zenon DEF Everything, EntryInv, Doing
    <2> QED BY Zenon, <2>1 DEF LettersInv
  <1> QED BY Zenon, <1>1, <1>2, <1>6, <1>7, <1>8 DEF EntryInv

\* Where the shared states are.
LEMMA SharedHas ==
  /\ \A e \in Device : state[e] \in Shared
  /\ \A i \in DOMAIN feed : feed[i] \in Shared
  /\ \A w \in mail : w.group \in Shared
  /\ \A e \in Device : op[e].pc \in {"welcome", "save", "catch"} => op[e].group \in Shared
  <1>1. \A e \in Device : state[e] \in Shared
    BY Zenon DEF Shared
  <1>2. \A i \in DOMAIN feed : feed[i] \in Shared
    BY Zenon DEF Shared
  <1>3. \A w \in mail : w.group \in Shared
    BY Zenon DEF Shared
  <1>4. \A e \in Device : op[e].pc \in {"welcome", "save", "catch"} => op[e].group \in Shared
    BY Zenon DEF Shared
  <1> QED BY Zenon, <1>1, <1>2, <1>3, <1>4

-----------------------------------------------------------------------------
(* One lemma per step *)

\* The operations that hold the lock for a moment and write nothing.
LEMMA InitiateStep ==
  ASSUME Everything, NEW d \in Device, DeviceStep(d), initiateChat(d)
  PROVE  EntryInv'
  <1>0. op \in [Device -> Op] /\ op[d] = Idle /\ op[d].pc = "idle" /\ state[d] = << >>
    BY Zenon, Parts, OpParts DEF Everything, initiateChat, Free
  <1>1. PICK x \in {"claim", "await"} : op'[d] = [Idle EXCEPT !.pc = x]
    BY Zenon, <1>0 DEF initiateChat, Begin
  <1>2. op'[d].pc = x /\ op'[d].todo = {}
    BY Zenon, <1>1, OpParts
  <1>3. UNCHANGED <<mail, line, feed, cut, offered, keys, index, made, clash, page, state>>
    BY Zenon DEF initiateChat, server, store
  <1>4. Doing(d)'
    BY Zenon, <1>0, <1>2, <1>3 DEF Doing
  <1>5. \A e \in Device \ {d} : op'[e] = op[e] /\ state'[e] = state[e]
    BY Zenon, OnlyOwn DEF Everything
  <1>6. state'[d] \in Shared /\ (state[d] # << >> => state'[d] # << >>)
    BY Zenon, <1>3, SharedHas
  <1>7. op[d].pc \notin {"welcome", "save", "insert"} /\ op'[d].pc \notin {"welcome", "save", "catch", "commit", "insert"}
    BY Zenon, <1>0, <1>2
  <1> QED BY Zenon, <1>2, <1>3, <1>4, <1>5, <1>6, <1>7, Quiet

\* An operation that ends with nothing done: nobody waited for, or cut off.
LEMMA EndStep ==
  ASSUME Everything, NEW d \in Device, DeviceStep(d), giveUp(d) \/ fail(d) \/ die(d)
  PROVE  EntryInv'
  <1>0. op \in [Device -> Op] /\ Finish(d)
    BY Zenon, Parts DEF Everything, giveUp, fail, die, Stop
  <1>1. op'[d] = Idle
    BY Zenon, <1>0 DEF Finish
  <1>2. op'[d].pc = "idle" /\ op'[d].todo = {}
    BY Zenon, <1>1, OpParts
  <1>3. UNCHANGED <<mail, line, feed, offered, keys, index, made, clash, state>>
    BY Zenon DEF giveUp, fail, die, Stop, server, store
  <1>4. page' = page \/ page' = [page EXCEPT ![d] = Off]
    BY Zenon DEF giveUp, fail, die
  <1>5. cut \subseteq cut' /\ (cut' = {} => op[d].pc \notin {"insert", "welcome", "save"})
    <2>1. CASE giveUp(d)
      BY Zenon, <2>1 DEF giveUp
    <2>2. CASE Stop(d)
      BY Zenon, <2>2 DEF Stop, Midway
    <2> QED BY Zenon, <2>1, <2>2 DEF fail, die
  <1>6. Doing(d)'
    BY Zenon, <1>2 DEF Doing
  <1>7. \A e \in Device \ {d} : op'[e] = op[e] /\ state'[e] = state[e]
    BY Zenon, OnlyOwn DEF Everything
  <1>8. state'[d] \in Shared /\ (state[d] # << >> => state'[d] # << >>)
    BY Zenon, <1>3, SharedHas
  <1>9. op'[d].pc \notin {"welcome", "save", "catch", "commit", "insert"}
    BY Zenon, <1>2
  <1> QED BY Zenon, <1>2, <1>3, <1>4, <1>5, <1>6, <1>7, <1>8, <1>9, Quiet

\* A catch-up is begun: by itself, or by a device whose commit came too late.
LEMMA CatchUpStep ==
  ASSUME Everything, NEW d \in Device, DeviceStep(d), op[d].pc \notin {"welcome", "save", "insert"},
         state[d] # << >>, Begin(d, [Idle EXCEPT !.pc = "catch", !.group = state[d], !.upto = Len(feed)]),
         UNCHANGED <<mail, line, feed, cut, offered, keys, index, made, clash, page, state>>
  PROVE  EntryInv'
  <1>0. op \in [Device -> Op]
    BY Zenon, Parts DEF Everything
  <1>1. op'[d] = [Idle EXCEPT !.pc = "catch", !.group = state[d], !.upto = Len(feed)]
    BY Zenon, <1>0 DEF Begin
  <1> DEFINE o == [Idle EXCEPT !.pc = "catch", !.group = state[d], !.upto = Len(feed)]
  <1>3. o.pc = "catch" /\ o.todo = {} /\ o.group = state[d]
    BY Zenon DEF Idle
  <1>2. op'[d].pc = "catch" /\ op'[d].todo = {} /\ op'[d].group = state[d]
    BY Zenon, <1>1, <1>3
  <1>4. Doing(d)'
    BY Zenon, <1>2 DEF Doing
  <1>5. \A e \in Device \ {d} : op'[e] = op[e] /\ state'[e] = state[e]
    BY Zenon, OnlyOwn DEF Everything
  <1>6. state'[d] \in Shared /\ op'[d].group \in Shared
    BY Zenon, <1>2, SharedHas
  <1>7. op'[d].pc \notin {"commit", "insert"}
    BY Zenon, <1>2
  <1> QED BY Zenon, <1>2, <1>4, <1>5, <1>6, <1>7, Quiet

\* A frame is gone through: the group built is a state of the feed or the one
\* before, and never nothing.
LEMMA FrameStep ==
  ASSUME Everything, NEW d \in Device, DeviceStep(d), catchUpFrame(d)
  PROVE  EntryInv'
  <1> DEFINE f == feed[cursor[d] + 1]
             g == ApplyFrame(d, op[d].group, f)
  <1>0. op \in [Device -> Op] /\ op[d].pc = "catch" /\ op[d] \in Op
    BY Zenon, Parts DEF Everything, catchUpFrame
  <1>1. cursor[d] + 1 \in DOMAIN feed
    <2>1. cursor[d] \in Nat /\ Len(feed) \in Nat /\ op[d].upto <= Len(feed) /\ DOMAIN feed = 1 .. Len(feed)
      BY DEF Everything, TypeOK, Within
    <2>2. op[d].upto \in Nat /\ cursor[d] < op[d].upto
      BY Zenon, <1>0 DEF catchUpFrame, Op
    <2> QED BY <2>1, <2>2
  <1>2. f \in Shared /\ op[d].group \in Shared /\ op[d].group # << >>
    <2>1. f \in Shared /\ op[d].group \in Shared
      BY Zenon, <1>0, <1>1, SharedHas
    <2>2. op[d].group # << >>
      BY Zenon, <1>0 DEF Everything, EntryInv, Doing
    <2> QED BY Zenon, <2>1, <2>2
  <1>3. g \in Shared /\ g # << >>
    <2>1. Base(<< >>) = << >>
      BY DEF Base
    <2> HIDE DEF f
    <2> QED BY Zenon, <1>2, <2>1 DEF ApplyFrame, Applies
  <1>4. op' = [op EXCEPT ![d].group = g]
    BY Zenon DEF catchUpFrame
  <1> HIDE DEF g, f
  <1>5. op'[d].pc = "catch" /\ op'[d].todo = op[d].todo /\ op'[d].group = g
    BY Zenon, <1>0, <1>4 DEF Op
  <1>6. UNCHANGED <<mail, line, feed, cut, offered, keys, index, made, clash, page, state>>
    BY Zenon DEF catchUpFrame, server
  <1>7. Doing(d)'
    BY Zenon, <1>3, <1>5 DEF Doing
  <1>8. \A e \in Device \ {d} : op'[e] = op[e] /\ state'[e] = state[e]
    BY Zenon, OnlyOwn DEF Everything
  <1>9. state'[d] \in Shared /\ (state[d] # << >> => state'[d] # << >>)
    BY Zenon, <1>6, SharedHas
  <1>10. op'[d].pc \notin {"commit", "insert"} /\ op[d].pc \notin {"welcome", "save", "insert"}
    BY Zenon, <1>0, <1>5
  <1> QED BY Zenon, <1>3, <1>5, <1>6, <1>7, <1>8, <1>9, <1>10, Quiet

\* The group that was built or caught up with is saved.
LEMMA SaveStep ==
  ASSUME Everything, NEW d \in Device, DeviceStep(d), saveState(d) \/ catchUpSave(d)
  PROVE  EntryInv'
  <1>0. op \in [Device -> Op] /\ op[d].pc \in {"save", "catch"} /\ Finish(d)
        /\ state \in [Device -> Seq(Commit)] /\ state' = [state EXCEPT ![d] = op[d].group]
    BY Zenon, Parts DEF Everything, saveState, catchUpSave
  <1>1. op'[d] = Idle /\ state'[d] = op[d].group
    BY Zenon, <1>0 DEF Finish
  <1>2. op'[d].pc = "idle" /\ op'[d].todo = {}
    BY Zenon, <1>1, OpParts
  <1>3. UNCHANGED <<mail, line, feed, cut, offered, keys, index, made, clash, page>>
    BY Zenon DEF saveState, catchUpSave, server
  <1>4. Doing(d) /\ Doing(d)'
    BY Zenon, <1>2 DEF Everything, EntryInv, Doing
  <1>5. state'[d] # << >> /\ (op[d].pc = "save" => op[d].todo = {})
    BY Zenon, <1>0, <1>1, <1>4 DEF Doing
  <1>6. \A e \in Device \ {d} : op'[e] = op[e] /\ state'[e] = state[e]
    BY Zenon, OnlyOwn DEF Everything
  <1>7. state'[d] \in Shared
    BY Zenon, <1>0, <1>1, SharedHas
  <1>8. op'[d].pc \notin {"welcome", "save", "catch", "commit", "insert"} /\ op[d].pc # "insert" /\ op[d].pc # "welcome"
    BY Zenon, <1>0, <1>2
  <1> QED BY Zenon, <1>2, <1>3, <1>4, <1>5, <1>6, <1>7, <1>8, Quiet

\* An invitation goes out.
LEMMA WelcomeStep ==
  ASSUME Everything, NEW d \in Device, DeviceStep(d), NEW a \in op[d].todo, PublishWelcome(d, a)
  PROVE  EntryInv'
  <1> DEFINE v == [to |-> a[1], package |-> a[2], group |-> op[d].group]
  <1>0. op \in [Device -> Op] /\ op[d] \in Op /\ op[d].pc = "welcome" /\ mail' = mail \cup {v}
        /\ a \in Device \X Package
    BY Zenon, Parts DEF Everything, PublishWelcome
  <1>1. op'[d].todo = op[d].todo \ {a} /\ op'[d].group = op[d].group
        /\ op'[d].pc = IF op[d].todo = {a} THEN "save" ELSE "welcome"
    BY Zenon, <1>0 DEF PublishWelcome, Op
  <1>2. op'[d].pc \in {"save", "welcome"} /\ (op'[d].pc = "save" => op'[d].todo = {}) /\ op'[d].todo \subseteq op[d].todo
    BY Zenon, <1>1
  <1>3. v.to = a[1] /\ v.group = op[d].group /\ <<v.to, v.package>> = a
    BY <1>0
  <1>4. UNCHANGED <<line, feed, cut, offered, keys, index, made, clash, page, state>>
    BY Zenon DEF PublishWelcome, store
  <1> HIDE DEF v
  <1>5. Doing(d) /\ op'[d].group # << >>
    BY Zenon, <1>0, <1>1 DEF Everything, EntryInv, Doing
  <1>6. Doing(d)'
    BY Zenon, <1>2, <1>5 DEF Doing
  <1>7. \A e \in Device \ {d} : op'[e] = op[e] /\ state'[e] = state[e]
    BY Zenon, OnlyOwn DEF Everything
  <1>8. state'[d] \in Shared /\ op'[d].group \in Shared /\ (state[d] # << >> => state'[d] # << >>)
    BY Zenon, <1>0, <1>1, <1>4, SharedHas
  <1>9. \A b \in op[d].todo : b \in op'[d].todo \/ \E w \in mail' : w.to = b[1]
    BY Zenon, <1>0, <1>1, <1>3
  <1>10. \A w \in mail' : w \in mail \/ (op[d].pc = "welcome" /\ w.group = op[d].group /\ <<w.to, w.package>> \in op[d].todo)
    BY Zenon, <1>0, <1>3
  <1>11. op'[d].pc \notin {"commit", "insert"} /\ op[d].pc # "insert" /\ op'[d].pc \in {"welcome", "save"}
    BY Zenon, <1>0, <1>2
  <1>12. \A w \in mail : w \in mail'
    BY Zenon, <1>0
  <1> QED BY Zenon, <1>2, <1>4, <1>6, <1>7, <1>8, <1>9, <1>10, <1>11, <1>12, Quiet

\* A welcome is taken up: it can be opened by a device without a state, so
\* whoever passes it over has one.
LEMMA JoinStep ==
  ASSUME Everything, NEW d \in Device, DeviceStep(d), NEW w \in mail, joinFromWelcome(d, w)
  PROVE  EntryInv'
  <1>0. op \in [Device -> Op] /\ state \in [Device -> Seq(Commit)] /\ w.to = d /\ w.package \in Package
    BY Zenon, Parts DEF Everything, joinFromWelcome
  <1>1. op[d].pc \in {"idle", "await"}
    BY Zenon, OpParts DEF joinFromWelcome, Free
  <1>2. state[d] = << >> => w.package \in localKeyPackages(d)
    <2>1. PoolInv(d)
      BY Zenon DEF Everything, EntryInv
    <2>2. Sent(d, w.package)
      BY Zenon, <1>0 DEF Sent
    <2> QED BY Zenon, <1>0, <2>1, <2>2 DEF PoolInv
  <1>3. PICK x \in {"drop", "ack"} : /\ op'[d] = [Idle EXCEPT !.pc = x, !.letter = {w}]
                                     /\ state'[d] = (IF state[d] = << >> THEN w.group ELSE state[d])
    BY Zenon, <1>0, <1>2 DEF joinFromWelcome, Begin
  <1> DEFINE o == [Idle EXCEPT !.pc = x, !.letter = {w}]
  <1>10. o.pc = x /\ o.todo = {} /\ o.letter = {w}
    BY Zenon DEF Idle
  <1>4. op'[d].pc = x /\ op'[d].todo = {} /\ op'[d].letter = {w}
    BY Zenon, <1>3, <1>10
  <1>5. UNCHANGED <<mail, line, feed, cut, offered, keys, index, made, clash, page>>
    BY Zenon DEF joinFromWelcome, server
  <1>6. state'[d] # << >> /\ state'[d] \in Shared
    <2>1. w.group # << >>
      BY Zenon DEF Everything, EntryInv, LettersInv
    <2> QED BY Zenon, <1>3, <2>1, SharedHas
  <1>7. Doing(d)'
    BY Zenon, <1>0, <1>4, <1>5, <1>6 DEF Doing
  <1>8. \A e \in Device \ {d} : op'[e] = op[e] /\ state'[e] = state[e]
    BY Zenon, OnlyOwn DEF Everything
  <1>9. op'[d].pc \notin {"welcome", "save", "catch", "commit", "insert"} /\ op[d].pc \notin {"welcome", "save", "insert"}
    BY Zenon, <1>1, <1>4
  <1> QED BY Zenon, <1>4, <1>5, <1>6, <1>7, <1>8, <1>9, Quiet

\* A welcome is acknowledged by a device that is in.
LEMMA AckStep ==
  ASSUME Everything, NEW d \in Device, DeviceStep(d), ackWelcome(d)
  PROVE  EntryInv'
  <1>0. op \in [Device -> Op] /\ op[d].pc = "ack" /\ Finish(d) /\ mail' = mail \ op[d].letter
    BY Zenon, Parts DEF Everything, ackWelcome
  <1>1. op'[d] = Idle
    BY Zenon, <1>0 DEF Finish
  <1>2. op'[d].pc = "idle" /\ op'[d].todo = {}
    BY Zenon, <1>1, OpParts
  <1>3. UNCHANGED <<line, feed, cut, offered, keys, index, made, clash, page, state>>
    BY Zenon DEF ackWelcome, store
  <1>4. Doing(d) /\ Doing(d)'
    BY Zenon, <1>2 DEF Everything, EntryInv, Doing
  <1>5. state'[d] # << >> /\ \A w \in op[d].letter : w.to = d
    BY Zenon, <1>0, <1>3, <1>4 DEF Doing
  <1>6. (\A w \in mail : w \in mail' \/ (w.to = d /\ state'[d] # << >>)) /\ \A w \in mail' : w \in mail
    BY Zenon, <1>0, <1>5
  <1>7. \A e \in Device \ {d} : op'[e] = op[e] /\ state'[e] = state[e]
    BY Zenon, OnlyOwn DEF Everything
  <1>8. state'[d] \in Shared
    BY Zenon, <1>3, SharedHas
  <1>9. op'[d].pc \notin {"welcome", "save", "catch", "commit", "insert"} /\ op[d].pc \notin {"welcome", "save", "insert"}
    BY Zenon, <1>0, <1>2
  <1> QED BY Zenon, <1>2, <1>3, <1>4, <1>5, <1>6, <1>7, <1>8, <1>9, Quiet

\* The device that joined takes the package off: first its private half, then
\* its entry.  No other package is touched, unless a top-up came in between.
LEMMA DropStep ==
  ASSUME Everything, NEW d \in Device, DeviceStep(d), dropKeyPackage(d) \/ unlistKeyPackage(d)
  PROVE  EntryInv'
  <1> DEFINE used == {w.package : w \in op[d].letter}
  <1>0. /\ op \in [Device -> Op] /\ op[d] \in Op /\ op[d].pc \in {"drop", "unlist"}
        /\ keys \in [Device -> SUBSET Package] /\ index \in [Device -> SUBSET Package]
    BY SMTT(30), Parts DEF Everything, TypeOK, dropKeyPackage, unlistKeyPackage
  <1>1. /\ Doing(d) /\ PoolInv(d) /\ state[d] # << >> /\ op[d].letter \subseteq mail
        /\ \A w \in op[d].letter : w.to = d
    BY Zenon, <1>0 DEF Everything, EntryInv, Doing
  <1>2. /\ op'[d].pc \in {"unlist", "ack"} /\ op'[d].todo = op[d].todo /\ op'[d].letter = op[d].letter
    <2>1. CASE dropKeyPackage(d)
      BY Zenon, <1>0, <2>1 DEF dropKeyPackage, Op
    <2>2. CASE unlistKeyPackage(d)
      BY Zenon, <1>0, <2>2 DEF unlistKeyPackage, Goto, Op
    <2> QED BY Zenon, <2>1, <2>2
  <1>3. UNCHANGED <<mail, line, feed, cut, offered, made, page, state>>
    BY Zenon DEF dropKeyPackage, unlistKeyPackage, server
  <1>4. \A e \in Device \ {d} : op'[e] = op[e] /\ state'[e] = state[e]
    BY Zenon, OnlyOwn DEF Everything
  <1>5. Doing(d)'
    BY Zenon, <1>1, <1>2, <1>3 DEF Doing
  <1>6. \A e \in Device : Doing(e)'
    BY Zenon, <1>3, <1>4, <1>5, DoingFrame DEF Everything, EntryInv
  <1>7. \A n \in used : n \in Package /\ Sent(d, n)
    BY Zenon, <1>1, Parts DEF Sent, Everything
  <1> HIDE DEF used
  <1>8. \A e \in Device, n \in Package : Sent(e, n)' => Sent(e, n)
    BY Zenon, <1>2, <1>3, <1>4, SentFrame DEF Everything
  <1>9. \A n \in Pool(d) : n \notin used
    BY Zenon, <1>1, <1>7 DEF PoolInv
  <1>10. ASSUME NEW e \in Device, e # d PROVE PoolInv(e)'
    <2>1. keys'[e] = keys[e] /\ index'[e] = index[e] /\ (e \in clash' <=> e \in clash)
      BY Zenon, <1>0, <1>10 DEF dropKeyPackage, unlistKeyPackage
    <2>2. PoolInv(e)
      BY Zenon DEF Everything, EntryInv
    <2> QED BY Zenon, <1>3, <1>8, <2>1, <2>2, PoolSame
  <1>11. /\ d \notin clash' => d \notin clash
         /\ d \notin clash' => localKeyPackages(d) \ used \subseteq localKeyPackages(d)'
         /\ d \notin clash' => index'[d] \subseteq index[d]
    <2>1. CASE dropKeyPackage(d)
      <3>1. keys'[d] = keys[d] \ used /\ index' = index /\ clash' = clash
        BY Zenon, <1>0, <2>1 DEF dropKeyPackage, used
      <3> QED BY Zenon, <3>1 DEF localKeyPackages
    <2>2. CASE unlistKeyPackage(d)
      <3>1. index'[d] = op[d].copy \ used /\ keys' = keys /\ clash' = IF index[d] = op[d].copy THEN clash ELSE clash \cup {d}
        BY Zenon, <1>0, <2>2 DEF unlistKeyPackage, used
      <3>2. d \notin clash' => d \notin clash /\ index[d] = op[d].copy
        BY Zenon, <3>1
      <3> QED BY Zenon, <3>1, <3>2 DEF localKeyPackages
    <2> QED BY Zenon, <2>1, <2>2
  <1>12. PoolInv(d)'
    <2>1. Upload(d)' = Upload(d) /\ Pool(d)' = Pool(d)
      BY Zenon, <1>3 DEF Upload, Pool
    <2>2. \A n \in Package : Sent(d, n)' => Sent(d, n)
      BY Zenon, <1>8
    <2> DEFINE sn(n) == Sent(d, n)'
               lk == localKeyPackages(d)'
    <2>3. (\A n \in Package : sn(n) => Sent(d, n)) /\ (d \notin clash' => localKeyPackages(d) \ used \subseteq lk)
      BY Zenon, <1>11, <2>2
    <2> HIDE DEF sn, lk
    <2>4. d \notin clash' => Pool(d) \subseteq lk
      BY Zenon, <1>1, <1>9, <1>11, <2>3 DEF PoolInv
    <2>5. d \notin clash' /\ page[d].at = "topup" => index'[d] \subseteq page[d].copy
      BY Zenon, <1>1, <1>11 DEF PoolInv
    <2>6. /\ offered[d] \cap Upload(d) = {} /\ \A n \in Pool(d) : n <= made[d]
          /\ \A n \in Package : sn(n) => n <= made[d] /\ n \notin Pool(d)
      BY Zenon, <1>1, <2>3 DEF PoolInv
    <2> QED BY Zenon, <1>1, <1>3, <2>1, <2>4, <2>5, <2>6 DEF PoolInv, sn, lk
  <1>13. state'[d] \in Shared /\ state'[d] # << >>
    BY Zenon, <1>1, <1>3, SharedHas
  <1>14. op'[d].pc \notin {"welcome", "save", "catch", "commit", "insert"} /\ op[d].pc \notin {"welcome", "save", "insert"}
    BY Zenon, <1>0, <1>2
  <1>15. ReachInv'
    BY Zenon, <1>3, <1>4, <1>13, <1>14, ReachQuiet
  <1>16. ASSUME NEW e \in Device PROVE Newcomers(e)'
    <2>1. CASE e = d
      BY Zenon, <1>14, <2>1 DEF Newcomers
    <2>2. CASE e # d
      <3>1. op'[e] = op[e] /\ Newcomers(e)
        BY Zenon, <1>4, <2>2 DEF Everything, EntryInv
      <3> QED BY Zenon, <3>1 DEF Newcomers
    <2> QED BY Zenon, <2>1, <2>2
  <1>17. LettersInv'
    BY Zenon, <1>3 DEF Everything, EntryInv, LettersInv
  <1> QED BY Zenon, <1>6, <1>10, <1>12, <1>15, <1>16, <1>17 DEF EntryInv

\* A step that only concerns the pool of d.
LEMMA PoolOnly ==
  ASSUME Everything, NEW d \in Device, UNCHANGED <<op, state, mail, line, feed, cut, clash>>,
         \A e \in Device \ {d} : /\ offered'[e] = offered[e] /\ keys'[e] = keys[e] /\ index'[e] = index[e]
                                 /\ made'[e] = made[e] /\ page'[e] = page[e],
         PoolInv(d)'
  PROVE  EntryInv'
  <1>1. Shared' = Shared /\ Inserting' = Inserting
    BY Zenon DEF Shared, Inserting
  <1>2. \A x : Invited(x)' <=> Invited(x)
    BY Zenon DEF Invited
  <1>3. ReachInv'
    BY Zenon, <1>1, <1>2 DEF Everything, EntryInv, ReachInv
  <1>4. LettersInv' /\ \A e \in Device : Doing(e)' /\ Newcomers(e)'
    BY Zenon DEF Everything, EntryInv, LettersInv, Doing, Newcomers
  <1>5. ASSUME NEW e \in Device \ {d} PROVE PoolInv(e)'
    <2>1. \A n \in Package : Sent(e, n)' => Sent(e, n)
      BY Zenon DEF Sent
    <2>2. PoolInv(e)
      BY Zenon DEF Everything, EntryInv
    <2> QED BY Zenon, <2>1, <2>2, PoolSame
  <1> QED BY Zenon, <1>3, <1>4, <1>5 DEF EntryInv

\* The app starts; it reads the index if it is to top up the pool.
LEMMA BootstrapStep ==
  ASSUME Everything, NEW d \in Device, bootstrap(d)
  PROVE  EntryInv'
  <1>0. page \in [Device -> Page] /\ UNCHANGED <<op, state, mail, line, feed, cut, clash, offered, keys, index, made>>
    BY Zenon DEF Everything, TypeOK, bootstrap, server, store
  <1>1. /\ \A e \in Device \ {d} : page'[e] = page[e]
        /\ page'[d].at = "on" \/ (page'[d].at = "topup" /\ page'[d].copy = index[d])
    BY Zenon, <1>0 DEF bootstrap
  <1>2. PoolInv(d)
    BY Zenon DEF Everything, EntryInv
  <1>3. Upload(d) = {} /\ Upload(d)' = {} /\ Pool(d) = offered[d] /\ Pool(d)' = offered[d]
    BY Zenon, <1>0, <1>1 DEF Upload, Pool, bootstrap
  <1>4. \A n : Sent(d, n)' <=> Sent(d, n)
    BY Zenon, <1>0 DEF Sent
  <1>5. localKeyPackages(d)' = localKeyPackages(d) /\ (page'[d].at = "topup" => index'[d] \subseteq page'[d].copy)
    BY Zenon, <1>0, <1>1 DEF localKeyPackages
  <1>6. PoolInv(d)'
    BY Zenon, <1>0, <1>2, <1>3, <1>4, <1>5 DEF PoolInv
  <1> QED BY Zenon, <1>0, <1>1, <1>6, PoolOnly

\* New packages: newer than any that is out, with their private halves and
\* their entries; no entry is lost.
LEMMA TopUpStep ==
  ASSUME Everything, NEW d \in Device, topUpKeyPackages(d)
  PROVE  EntryInv'
  <1> DEFINE F == Fresh(d)
             n0 == made[d]
  <1>0. /\ page \in [Device -> Page] /\ keys \in [Device -> SUBSET Package] /\ index \in [Device -> SUBSET Package]
        /\ made \in [Device -> 0 .. MaxPackage] /\ MaxPackage \in Nat
        /\ UNCHANGED <<op, state, mail, line, feed, cut, clash, offered>>
        /\ page[d].at = "topup"
    BY Zenon, GroupAssumption DEF Everything, TypeOK, topUpKeyPackages, server
  <1>1. /\ page'[d].at = "upload" /\ page'[d].copy = F /\ keys'[d] = keys[d] \cup F
        /\ index'[d] = page[d].copy \cup F /\ made'[d] = n0 + Cardinality(F)
        /\ \A e \in Device \ {d} : page'[e] = page[e] /\ keys'[e] = keys[e] /\ index'[e] = index[e] /\ made'[e] = made[e]
    BY Zenon, <1>0 DEF topUpKeyPackages
  <1>2. \A n \in F : n > n0 /\ n <= made'[d] /\ n \in Nat
    <2> DEFINE hi == n0 + (PoolTarget - Cardinality(offered[d]))
               lo == n0 + 1
    <2>1. n0 \in Nat /\ Cardinality(offered[d]) \in Nat /\ PoolTarget \in Nat
      <3>1. offered[d] \in SUBSET Package
        BY Zenon DEF Everything, TypeOK
      <3>2. Cardinality(offered[d]) \in Nat
        BY Zenon, <3>1 DEF Everything, Counting
      <3> QED BY <1>0, <3>2, GroupAssumption
    <2>2. F = lo .. hi /\ lo \in Int /\ hi \in Int
      BY <2>1 DEF Fresh
    <2>3. Cardinality(F) = IF lo > hi THEN 0 ELSE hi - lo + 1
      <3> HIDE DEF lo, hi, F
      <3> QED BY Zenon, <2>2 DEF Everything, Counting
    <2> HIDE DEF F
    <2> QED BY SMTT(30), <1>1, <2>1, <2>2, <2>3
  <1>3. n0 \in Nat /\ made'[d] \in Nat /\ n0 <= made'[d]
    <2>1. n0 \in Nat
      BY <1>0
    <2>2. F \subseteq Package
      BY Zenon DEF topUpKeyPackages
    <2>3. Cardinality(F) \in Nat
      BY SMTT(30), <2>2 DEF Everything, Counting
    <2> HIDE DEF F, n0
    <2> QED BY <1>1, <2>1, <2>3
  <1>4. PoolInv(d)
    BY Zenon DEF Everything, EntryInv
  <1>5. Upload(d) = {} /\ Pool(d) = offered[d] /\ Upload(d)' = F /\ Pool(d)' = offered[d] \cup F
    BY Zenon, <1>0, <1>1 DEF Upload, Pool
  <1>6. \A n : Sent(d, n)' <=> Sent(d, n)
    BY Zenon, <1>0 DEF Sent
  <1> HIDE DEF F, n0
  <1>7. d \notin clash => localKeyPackages(d) \cup F \subseteq localKeyPackages(d)'
    <2>1. d \notin clash => index[d] \subseteq page[d].copy
      BY Zenon, <1>0, <1>4 DEF PoolInv
    <2> QED BY Zenon, <1>1, <2>1 DEF localKeyPackages
  <1>8. /\ \A n \in offered[d] : n \in Nat /\ n <= n0 /\ n <= made'[d] /\ n \notin F
        /\ \A n \in Package : Sent(d, n) => n <= n0 /\ n <= made'[d] /\ n \notin offered[d] /\ n \notin F
    <2>1. offered[d] \subseteq Package /\ Package \subseteq Nat
      BY DEF Everything, TypeOK, Package
    <2>2. (\A n \in offered[d] : n <= n0) /\ \A n \in Package : Sent(d, n) => n <= n0 /\ n \notin offered[d]
      BY Zenon, <1>4, <1>5 DEF PoolInv, n0
    <2> DEFINE m == made'[d]
    <2>3. \A n \in Nat : n <= n0 => n <= m /\ n \notin F
      BY <1>2, <1>3
    <2> HIDE DEF m
    <2>4. /\ \A n \in offered[d] : n \in Nat /\ n <= n0 /\ n <= m /\ n \notin F
          /\ \A n \in Package : Sent(d, n) => n <= n0 /\ n <= m /\ n \notin offered[d] /\ n \notin F
      BY Zenon, <2>1, <2>2, <2>3
    <2> QED BY Zenon, <2>4 DEF m
  <1>9. PoolInv(d)'
    <2> DEFINE us == Upload(d)'
               ps == Pool(d)'
               lk == localKeyPackages(d)'
               sn(n) == Sent(d, n)'
    <2>1. us = F /\ ps = offered[d] \cup F /\ (d \notin clash => localKeyPackages(d) \cup F \subseteq lk)
          /\ \A n : sn(n) <=> Sent(d, n)
      BY Zenon, <1>5, <1>6, <1>7
    <2> HIDE DEF us, ps, lk, sn
    <2>2. offered[d] \cap us = {} /\ \A n \in ps : n <= made'[d]
      BY Zenon, <1>2, <1>8, <2>1
    <2>3. \A n \in Package : sn(n) => n <= made'[d] /\ n \notin ps
      BY Zenon, <1>8, <2>1
    <2>4. d \notin clash => ps \subseteq lk
      BY Zenon, <1>4, <1>5, <2>1 DEF PoolInv
    <2>5. state[d] = << >> => d \notin clash /\ \A n \in Package : sn(n) => n \in lk
      BY Zenon, <1>4, <2>1 DEF PoolInv
    <2>6. page'[d].at # "topup"
      BY Zenon, <1>1
    <2> QED BY Zenon, <1>0, <2>2, <2>3, <2>4, <2>5, <2>6 DEF PoolInv, us, ps, lk, sn
  <1> QED BY Zenon, <1>0, <1>1, <1>9, PoolOnly

\* They are with the server.
LEMMA UploadStep ==
  ASSUME Everything, NEW d \in Device, uploadKeyPackages(d)
  PROVE  EntryInv'
  <1>0. /\ page \in [Device -> Page] /\ offered \in [Device -> SUBSET Package] /\ page[d].at = "upload"
        /\ UNCHANGED <<op, state, mail, line, feed, cut, clash, keys, index, made>>
    BY Zenon DEF Everything, TypeOK, uploadKeyPackages, store
  <1>1. /\ \A e \in Device \ {d} : page'[e] = page[e] /\ offered'[e] = offered[e]
        /\ page'[d].at = "on" /\ offered'[d] = offered[d] \cup page[d].copy
    BY Zenon, <1>0 DEF uploadKeyPackages
  <1>2. PoolInv(d)
    BY Zenon DEF Everything, EntryInv
  <1>3. Upload(d)' = {} /\ Pool(d)' = Pool(d)
    BY Zenon, <1>0, <1>1 DEF Upload, Pool
  <1>4. \A n : Sent(d, n)' <=> Sent(d, n)
    BY Zenon, <1>0 DEF Sent
  <1>5. localKeyPackages(d)' = localKeyPackages(d) /\ page'[d].at # "topup"
    BY Zenon, <1>0, <1>1 DEF localKeyPackages
  <1>6. PoolInv(d)'
    BY Zenon, <1>0, <1>2, <1>3, <1>4, <1>5 DEF PoolInv
  <1> QED BY Zenon, <1>0, <1>1, <1>6, PoolOnly

\* A claim takes packages out of the pools of their devices.
LEMMA ClaimTakes ==
  ASSUME Counting, TypeOK, NEW S \in SUBSET Device
  PROVE  /\ \A e \in Device, n \in Package : <<e, n>> \in Picks(S) => n \in offered[e] /\ n \notin Consumed(Picks(S))[e]
         /\ \A e \in Device : Consumed(Picks(S))[e] \subseteq offered[e]
  <1>1. ASSUME NEW x \in Device, offered[x] # {} PROVE Min(offered[x]) \in offered[x]
    <2>1. offered[x] \in SUBSET Package
      BY Zenon DEF TypeOK
    <2> QED BY Zenon, <1>1, <2>1 DEF Counting
  <1>2. ASSUME NEW e \in Device, NEW n \in Package, <<e, n>> \in Picks(S) PROVE n \in offered[e]
    <2>1. PICK x \in S : offered[x] # {} /\ <<e, n>> = <<x, Min(offered[x])>>
      BY Zenon, <1>2 DEF Picks
    <2>2. e = x /\ n = Min(offered[x])
      BY Zenon, <2>1
    <2> QED BY Zenon, <1>1, <2>1, <2>2
  <1>3. \A e \in Device : Consumed(Picks(S))[e] = offered[e] \ {a[2] : a \in {b \in Picks(S) : b[1] = e}}
    BY Zenon DEF Consumed
  <1>4. ASSUME NEW e \in Device, NEW n \in Package, <<e, n>> \in Picks(S) PROVE n \notin Consumed(Picks(S))[e]
    <2>1. <<e, n>>[1] = e /\ <<e, n>>[2] = n
      BY Zenon
    <2>2. n \in {a[2] : a \in {b \in Picks(S) : b[1] = e}}
      BY Zenon, <1>4, <2>1
    <2> QED BY Zenon, <1>3, <2>2
  <1> QED BY Zenon, <1>2, <1>3, <1>4

\* What is claimed was in a pool, so its device can open it.
LEMMA ClaimPool ==
  ASSUME Everything, NEW d \in Device, NEW S \in SUBSET Device, offered' = Consumed(Picks(S)),
         UNCHANGED <<keys, index, made, clash, page, state, mail>>,
         \A e \in Device \ {d} : op'[e] = op[e], op'[d].todo \subseteq Picks(S)
  PROVE  \A e \in Device : PoolInv(e)'
  <1> SUFFICES ASSUME NEW e \in Device PROVE PoolInv(e)'
    BY Zenon
  <1>0. PoolInv(e)
    BY Zenon DEF Everything, EntryInv
  <1>1. ASSUME NEW n \in Package, Sent(e, n)'
        PROVE  Sent(e, n) \/ (n \in offered[e] /\ n \notin offered'[e])
    <2>1. CASE <<e, n>> \in Picks(S)
      BY Zenon, <2>1, ClaimTakes DEF Everything
    <2>2. CASE <<e, n>> \notin Picks(S)
      BY Zenon, <1>1, <2>2 DEF Sent
    <2> QED BY Zenon, <2>1, <2>2
  <1>2. offered'[e] \subseteq offered[e]
    BY Zenon, ClaimTakes DEF Everything
  <1>3. Upload(e)' = Upload(e) /\ Pool(e)' \subseteq Pool(e) /\ localKeyPackages(e)' = localKeyPackages(e)
        /\ Pool(e)' = offered'[e] \cup Upload(e) /\ Pool(e) = offered[e] \cup Upload(e)
    BY Zenon, <1>2 DEF Upload, Pool, localKeyPackages
  <1> DEFINE ps == Pool(e)'
             sn(n) == Sent(e, n)'
             of == offered'[e]
  <1>4. /\ of \subseteq offered[e] /\ ps = of \cup Upload(e) /\ Pool(e) = offered[e] \cup Upload(e)
        /\ \A n \in Package : sn(n) => Sent(e, n) \/ (n \in offered[e] /\ n \notin of)
    BY Zenon, <1>1, <1>2, <1>3
  <1> HIDE DEF ps, sn, of
  <1>5. ps \subseteq Pool(e)
    BY Zenon, <1>4
  <1>6. of \cap Upload(e) = {} /\ (\A n \in ps : n <= made[e]) /\ (e \notin clash => ps \subseteq localKeyPackages(e))
    BY Zenon, <1>0, <1>4, <1>5 DEF PoolInv
  <1>7. ASSUME NEW n \in Package, sn(n)
        PROVE  n <= made[e] /\ n \notin ps /\ (state[e] = << >> => n \in localKeyPackages(e))
    <2>1. CASE Sent(e, n)
      BY Zenon, <1>0, <1>5, <2>1 DEF PoolInv
    <2>2. CASE n \in offered[e] /\ n \notin of
      BY Zenon, <1>0, <1>4, <2>2 DEF PoolInv
    <2> QED BY Zenon, <1>4, <1>7, <2>1, <2>2
  <1>8. (state[e] = << >> => e \notin clash) /\ (e \notin clash /\ page[e].at = "topup" => index[e] \subseteq page[e].copy)
    BY Zenon, <1>0 DEF PoolInv
  <1> QED BY Zenon, <1>3, <1>6, <1>7, <1>8 DEF PoolInv, ps, sn, of

\* A claim with what it is for: nothing, or a commit on the device's state.
LEMMA ClaimStep ==
  ASSUME Everything, NEW d \in Device, DeviceStep(d), NEW S \in SUBSET Device, offered' = Consumed(Picks(S)),
         UNCHANGED <<line, feed, cut, keys, index, made, clash, page, state, mail>>,
         op[d].pc \in {"idle", "claim"}, op'[d].todo \subseteq Picks(S),
         \/ op'[d] = Idle
         \/ /\ op'[d].pc = "commit" /\ op'[d].todo = Picks(S)
            /\ op'[d].group = Append(state[d], [by |-> d, adds |-> Picks(S)])
            /\ op'[d].for = "add" => state[d] # << >>
  PROVE  EntryInv'
  <1> DEFINE c == [by |-> d, adds |-> Picks(S)]
  <1>0. c \in Commit /\ c.by = d /\ c.adds = Picks(S)
    BY Zenon, PicksType DEF Everything, Commit
  <1>1. \A e \in Device \ {d} : op'[e] = op[e] /\ state'[e] = state[e]
    BY Zenon, OnlyOwn DEF Everything
  <1>2. op'[d].pc \in {"idle", "commit"}
    BY Zenon, OpParts
  <1>3. state[d] \in Seq(Commit)
    BY Zenon, Parts DEF Everything
  <1>4. \A e \in Device : PoolInv(e)'
    BY Zenon, <1>1, ClaimPool
  <1> HIDE DEF c
  <1>5. Doing(d)' /\ Newcomers(d)'
    <2>1. CASE op'[d] = Idle
      BY Zenon, <2>1, OpParts DEF Doing, Newcomers
    <2>2. CASE op'[d].pc = "commit" /\ op'[d].todo = Picks(S) /\ op'[d].group = Append(state[d], c)
               /\ (op'[d].for = "add" => state[d] # << >>)
      <3>1. Len(op'[d].group) = Len(state'[d]) + 1
        BY <1>0, <1>3, <2>2, SeqAppend
      <3>2. Doing(d)'
        BY Zenon, <2>2, <3>1 DEF Doing
      <3>6. Base(Append(state[d], c)) = state[d]
        BY Zenon, <1>0, <1>3, BaseOfAppend
      <3>7. \A x \in listMembers(Append(state[d], c)) :
              x \in listMembers(state[d]) \/ x = c.by \/ \E a \in c.adds : a[1] = x
        BY Zenon, <1>0, <1>3, MembersOfCommit
      <3>3. Base(op'[d].group) = state[d]
        BY Zenon, <2>2, <3>6
      <3>4. \A x \in listMembers(op'[d].group) : x \in listMembers(state[d]) \/ x = d \/ \E a \in Picks(S) : a[1] = x
        BY ZenonT(40), <1>0, <2>2, <3>7
      <3>5. Newcomers(d)'
        BY Zenon, <2>2, <3>3, <3>4 DEF Newcomers
      <3> QED BY Zenon, <3>2, <3>5
    <2> QED BY Zenon, <2>1, <2>2 DEF c
  <1>6. \A e \in Device : Doing(e)'
    BY Zenon, <1>1, <1>5, DoingFrame DEF Everything, EntryInv
  <1>7. \A e \in Device : Newcomers(e)'
    <2>1. ASSUME NEW e \in Device \ {d} PROVE Newcomers(e)'
      <3>1. op'[e] = op[e] /\ Newcomers(e)
        BY Zenon, <1>1 DEF Everything, EntryInv
      <3> QED BY Zenon, <3>1 DEF Newcomers
    <2> QED BY Zenon, <1>5, <2>1
  <1>8. op'[d].pc \notin {"welcome", "save", "catch", "insert"} /\ op[d].pc \notin {"welcome", "save", "insert"}
    BY Zenon, <1>2
  <1>9. state'[d] \in Shared /\ (state[d] # << >> => state'[d] # << >>)
    BY Zenon, SharedHas
  <1>10. ReachInv'
    BY Zenon, <1>1, <1>8, <1>9, ReachQuiet
  <1>11. LettersInv'
    BY Zenon DEF Everything, EntryInv, LettersInv
  <1> QED BY Zenon, <1>4, <1>6, <1>7, <1>10, <1>11 DEF EntryInv

\* The packages for a new group; none of the peer's ends the send.
LEMMA ClaimBothStep ==
  ASSUME Everything, NEW d \in Device, DeviceStep(d), claimBoth(d)
  PROVE  EntryInv'
  <1> DEFINE S == Peers(d) \cup Others(d)
             c == [by |-> d, adds |-> Picks(S)]
             o == [Idle EXCEPT !.pc = "commit", !.todo = Picks(S), !.group = <<c>>]
  <1>0. op \in [Device -> Op] /\ S \in SUBSET Device /\ op[d].pc = "claim"
    BY Zenon, Parts DEF Everything, claimBoth, Peers, Others
  <1>1. state[d] = << >>
    BY Zenon, <1>0 DEF Everything, EntryInv, Doing
  <1>2. op'[d] = Idle \/ op'[d] = o
    BY Zenon, <1>0 DEF claimBoth, Begin, Finish
  <1>3. offered' = Consumed(Picks(S)) /\ UNCHANGED <<line, feed, cut, keys, index, made, clash, page, state, mail>>
    BY Zenon DEF claimBoth, store
  <1>4. c \in Commit
    BY Zenon, <1>0, PicksType DEF Everything, Commit
  <1>5. o.pc = "commit" /\ o.todo = Picks(S) /\ o.group = <<c>> /\ o.for = "send"
    <2> HIDE DEF S, c
    <2> QED BY Zenon DEF Idle
  <1> HIDE DEF o, S
  <1>6. <<c>> = Append(<< >>, c)
    <2> HIDE DEF c
    <2> QED OBVIOUS
  <1>7. CASE op'[d] = Idle
    <2>1. op'[d].todo \subseteq Picks(S) /\ op[d].pc \in {"idle", "claim"}
      BY Zenon, <1>0, <1>7, OpParts
    <2> QED BY Zenon, <1>0, <1>3, <1>7, <2>1, ClaimStep
  <1>8. CASE op'[d] = o
    <2>1. /\ op'[d].todo \subseteq Picks(S) /\ op[d].pc \in {"idle", "claim"}
          /\ op'[d].pc = "commit" /\ op'[d].todo = Picks(S) /\ op'[d].for # "add"
      BY Zenon, <1>0, <1>5, <1>8
    <2>2. op'[d].group = Append(state[d], c)
      BY Zenon, <1>1, <1>5, <1>6, <1>8
    <2> QED BY Zenon, <1>0, <1>3, <2>1, <2>2, ClaimStep
  <1> QED BY Zenon, <1>2, <1>7, <1>8

\* The package of one more device.
LEMMA AddStep ==
  ASSUME Everything, NEW d \in Device, DeviceStep(d), NEW x \in Device, addDeviceToChat(d, x)
  PROVE  EntryInv'
  <1> DEFINE S == {x}
             c == [by |-> d, adds |-> Picks(S)]
             g == Append(state[d], c)
             o == [Idle EXCEPT !.pc = "commit", !.for = "add", !.todo = Picks(S), !.group = g]
  <1>0. op \in [Device -> Op] /\ S \in SUBSET Device /\ op[d] = Idle /\ state[d] # << >>
    BY Zenon, Parts DEF Everything, addDeviceToChat, Free
  <1>1. op'[d] = o /\ offered' = Consumed(Picks(S))
        /\ UNCHANGED <<line, feed, cut, keys, index, made, clash, page, state, mail>>
    BY Zenon, <1>0 DEF addDeviceToChat, Begin, store
  <1>2. o.pc = "commit" /\ o.todo = Picks(S) /\ o.group = g
    <2> HIDE DEF S, g
    <2> QED BY Zenon DEF Idle
  <1> HIDE DEF o, S
  <1>3. op[d].pc \in {"idle", "claim"} /\ op'[d].todo \subseteq Picks(S)
    BY Zenon, <1>0, <1>1, <1>2, OpParts
  <1>4. op'[d].pc = "commit" /\ op'[d].todo = Picks(S) /\ op'[d].group = Append(state[d], c)
    BY Zenon, <1>1, <1>2
  <1> QED BY Zenon, <1>0, <1>1, <1>3, <1>4, ClaimStep

-----------------------------------------------------------------------------
(* The epoch's turn *)

\* All that is shared is on the line, so no longer than it.
LEMMA SharedFits ==
  ASSUME TypeOK, OneLine, NEW g \in Shared
  PROVE  g \in Seq(Commit) /\ IsPrefix(g, line) /\ Len(g) <= Len(line)
  <1>1. g \in Seq(Commit) /\ IsPrefix(g, line)
    <2>1. CASE \E e \in Device : g = state[e]
      BY Zenon, <2>1, Parts DEF OneLine, Fits
    <2>2. CASE \E i \in DOMAIN feed : g = feed[i]
      BY Zenon, <2>2, Parts DEF OneLine, Fits
    <2>3. CASE \E w \in mail : g = w.group
      BY Zenon, <2>3, Parts DEF OneLine, Fits
    <2>4. ASSUME NEW e \in Device, op[e].pc \in {"welcome", "save", "catch"}, g = op[e].group
          PROVE  g \in Seq(Commit) /\ IsPrefix(g, line)
      <3>1. OpFits(op[e], line) /\ op[e].group \in Seq(Commit)
        BY Zenon, Parts DEF OneLine, Fits
      <3> QED BY Zenon, <2>4, <3>1 DEF OpFits
    <2> QED BY ZenonT(40), <2>1, <2>2, <2>3, <2>4 DEF Shared
  <1> QED BY Zenon, <1>1 DEF IsPrefix

\* A commit takes its epoch.  Nobody else has one that is not in the feed yet:
\* such a commit is longer than any state that this one could be built on.
LEMMA WinStep ==
  ASSUME Everything, NEW d \in Device, DeviceStep(d), op[d].pc = "commit",
         AdvanceEpoch(Len(op[d].group)), line' = op[d].group, Goto(d, "insert"),
         UNCHANGED <<feed, mail, cut, offered, keys, index, made, clash, page, state>>
  PROVE  EntryInv'
  <1>0. /\ op \in [Device -> Op] /\ op[d] \in Op /\ op[d].group \in Seq(Commit) /\ line \in Seq(Commit)
        /\ Len(line) = epoch /\ epoch < Len(op[d].group) /\ state[d] \in Seq(Commit)
    BY Zenon, Parts DEF Everything, TypeOK, OneLine, AdvanceEpoch
  <1>1. op'[d].pc = "insert" /\ op'[d].group = op[d].group /\ op'[d].todo = op[d].todo
    BY Zenon, <1>0 DEF Goto, Op
  <1>2. \A e \in Device \ {d} : op'[e] = op[e] /\ state'[e] = state[e]
    BY Zenon, OnlyOwn DEF Everything
  <1>3. op[d].group # << >> /\ IsPrefix(Base(op[d].group), line) /\ Len(op[d].group) = Len(state[d]) + 1
    BY Zenon DEF Everything, OneLine, Fits, OpFits, Offer, EntryInv, Doing
  <1>4. Base(op[d].group) = line
    BY Zenon, <1>0, <1>3, Extends
  <1>5. cut = {} => Inserting = {}
    <2> SUFFICES ASSUME cut = {}, NEW e \in Inserting PROVE FALSE
      BY Zenon
    <2>1. Len(state[d]) < Len(line)
      BY Zenon, SharedHas DEF Everything, EntryInv, ReachInv
    <2> QED BY <1>0, <1>3, <2>1
  <1>6. Inserting = {} => Inserting' = {d}
    BY Zenon, <1>1, <1>2 DEF Inserting
  <1>7. Shared' \subseteq Shared
    <2>1. ASSUME NEW e \in Device, op'[e].pc \in {"welcome", "save", "catch"} PROVE op'[e].group \in Shared
      <3>1. e # d
        BY Zenon, <1>1, <2>1
      <3>2. op'[e] = op[e]
        BY Zenon, <1>2, <3>1
      <3> QED BY Zenon, <2>1, <3>2, SharedHas
    <2>2. (\A e \in Device : state'[e] \in Shared) /\ (\A i \in DOMAIN feed' : feed'[i] \in Shared)
          /\ \A w \in mail' : w.group \in Shared
      BY Zenon, SharedHas
    <2> QED BY ZenonT(40), <2>1, <2>2 DEF Shared
  <1>8. \A g \in Shared' : Len(g) < Len(line')
    <2> SUFFICES ASSUME NEW g \in Shared' PROVE Len(g) < Len(op[d].group)
      BY Zenon
    <2>1. g \in Seq(Commit) /\ Len(g) <= Len(line)
      BY Zenon, <1>7, SharedFits DEF Everything
    <2>2. Len(g) \in Nat /\ Len(line) \in Nat /\ Len(op[d].group) \in Nat
      BY <1>0, <2>1
    <2> QED BY <1>0, <2>1, <2>2
  <1>9. \A x \in Device : Invited(x) => Invited(x)'
    BY Zenon, <1>2, InvitedFrame
  <1>10. ReachInv'
    <2> SUFFICES ASSUME cut = {} PROVE ReachInv'
      BY Zenon DEF ReachInv
    <2>1. \A x \in listMembers(line) : Invited(x)
      BY Zenon, <1>5 DEF Everything, EntryInv, ReachInv
    <2>2. listMembers(line) \subseteq Device
      BY Zenon, <1>0, MembersType
    <2>3. Inserting' = {d} /\ Inserting' # {} /\ Base(line') = line
      BY Zenon, <1>4, <1>5, <1>6
    <2>4. \A x \in listMembers(Base(line')) : Invited(x)'
      BY Zenon, <1>9, <2>1, <2>2, <2>3
    <2>5. \A e \in Inserting' : op'[e].group = line' /\ \A f \in Inserting' : f = e
      BY Zenon, <1>1, <2>3
    <2> QED BY Zenon, <1>8, <2>3, <2>4, <2>5 DEF ReachInv
  <1>11. Doing(d)'
    BY Zenon, <1>1, <1>3 DEF Doing
  <1>12. \A e \in Device : Doing(e)'
    BY Zenon, <1>2, <1>11, DoingFrame DEF Everything, EntryInv
  <1>13. \A e \in Device, n \in Package : Sent(e, n)' => Sent(e, n)
    BY Zenon, <1>1, <1>2, SentFrame DEF Everything
  <1>14. \A e \in Device : PoolInv(e)'
    BY Zenon, <1>13, PoolFrame DEF Everything, EntryInv
  <1>15. ASSUME NEW e \in Device PROVE Newcomers(e)'
    <2>0. Newcomers(e)
      BY Zenon DEF Everything, EntryInv
    <2>1. CASE e = d
      BY Zenon, <1>1, <2>0, <2>1 DEF Newcomers
    <2>2. CASE e # d
      <3>1. op'[e] = op[e]
        BY Zenon, <1>2, <2>2
      <3> QED BY Zenon, <2>0, <3>1 DEF Newcomers
    <2> QED BY Zenon, <2>1, <2>2
  <1>16. LettersInv'
    BY Zenon DEF Everything, EntryInv, LettersInv
  <1> QED BY Zenon, <1>10, <1>12, <1>14, <1>15, <1>16 DEF EntryInv

\* A commit is published, or comes too late.
LEMMA PublishStep ==
  ASSUME Everything, NEW d \in Device, DeviceStep(d), PublishCommit(d)
  PROVE  EntryInv'
  <1>0. op \in [Device -> Op] /\ op[d].pc = "commit"
        /\ UNCHANGED <<feed, mail, cut, offered, keys, index, made, clash, page, state>>
    BY Zenon, Parts DEF Everything, PublishCommit, store
  <1>1. CASE AdvanceEpoch(Len(op[d].group)) /\ line' = op[d].group /\ Goto(d, "insert")
    BY Zenon, <1>0, <1>1, WinStep
  <1>2. CASE op[d].for = "add" /\ line' = line
             /\ Begin(d, [Idle EXCEPT !.pc = "catch", !.group = state[d], !.upto = Len(feed)])
    <2>1. state[d] # << >> /\ op[d].pc \notin {"welcome", "save", "insert"}
      BY Zenon, <1>0, <1>2 DEF Everything, EntryInv, Doing
    <2> QED BY Zenon, <1>0, <1>2, <2>1, CatchUpStep
  <1>3. CASE line' = line /\ Begin(d, [Idle EXCEPT !.pc = "await"])
    <2>1. op'[d] = [Idle EXCEPT !.pc = "await"]
      BY Zenon, <1>0, <1>3 DEF Begin
    <2>2. op'[d].pc = "await" /\ op'[d].todo = {}
      BY Zenon, <2>1, OpParts
    <2>3. Doing(d)'
      BY Zenon, <2>2 DEF Doing
    <2>4. \A e \in Device \ {d} : op'[e] = op[e] /\ state'[e] = state[e]
      BY Zenon, OnlyOwn DEF Everything
    <2>5. state'[d] \in Shared /\ (state[d] # << >> => state'[d] # << >>)
      BY Zenon, <1>0, SharedHas
    <2>6. op[d].pc \notin {"welcome", "save", "insert"} /\ op'[d].pc \notin {"welcome", "save", "catch", "commit", "insert"}
      BY Zenon, <1>0, <2>2
    <2> QED BY Zenon, <1>0, <1>3, <2>2, <2>3, <2>4, <2>5, <2>6, Quiet
  <1> QED BY Zenon, <1>1, <1>2, <1>3 DEF PublishCommit

\* The commit is in the feed: from here on its author invites.
LEMMA InsertStep ==
  ASSUME Everything, NEW d \in Device, DeviceStep(d), InsertCommit(d)
  PROVE  EntryInv'
  <1>0. op \in [Device -> Op] /\ op[d] \in Op /\ op[d].pc = "insert" /\ Goto(d, "welcome")
        /\ UNCHANGED <<mail, line, cut, offered, keys, index, made, clash, page, state>>
    BY Zenon, Parts DEF Everything, InsertCommit, store
  <1>1. op'[d].pc = "welcome" /\ op'[d].group = op[d].group /\ op'[d].todo = op[d].todo
    BY Zenon, <1>0 DEF Goto, Op
  <1>2. \A e \in Device \ {d} : op'[e] = op[e] /\ state'[e] = state[e]
    BY Zenon, OnlyOwn DEF Everything
  <1>3. \A x \in Device : Invited(x) => Invited(x)'
    <2>1. op[d].pc \notin {"welcome", "save"}
      BY Zenon, <1>0
    <2> QED BY Zenon, <1>0, <1>2, <2>1, InvitedFrame
  <1>4. ReachInv'
    <2> SUFFICES ASSUME cut = {} PROVE ReachInv'
      BY Zenon, <1>0 DEF ReachInv
    <2>1. d \in Inserting
      BY Zenon, <1>0 DEF Inserting
    <2>2. op[d].group = line /\ (\A e \in Inserting : e = d) /\ \A x \in listMembers(Base(line)) : Invited(x)
      BY Zenon, <2>1 DEF Everything, EntryInv, ReachInv
    <2>3. Inserting' = {}
      <3> SUFFICES ASSUME NEW e \in Device, op'[e].pc = "insert" PROVE FALSE
        BY Zenon DEF Inserting
      <3>1. CASE e = d
        BY Zenon, <1>1, <3>1
      <3>2. CASE e # d
        BY Zenon, <1>2, <2>2, <3>2 DEF Inserting
      <3> QED BY Zenon, <3>1, <3>2
    <2>4. ASSUME NEW x \in listMembers(line) PROVE Invited(x)'
      <3>1. x \in Device
        BY Zenon, MembersType DEF Everything, TypeOK
      <3>2. x \in listMembers(Base(line)) \/ x = d \/ \E a \in op[d].todo : a[1] = x
        BY Zenon, <1>0, <2>2 DEF Everything, EntryInv, Newcomers
      <3>3. CASE x \in listMembers(Base(line))
        BY Zenon, <1>3, <2>2, <3>1, <3>3
      <3>4. CASE x = d \/ \E a \in op[d].todo : a[1] = x
        BY Zenon, <1>1, <3>4 DEF Invited
      <3> QED BY Zenon, <3>2, <3>3, <3>4
    <2> QED BY Zenon, <1>0, <2>3, <2>4 DEF ReachInv
  <1>5. Doing(d)'
    <2>1. op[d].group # << >>
      BY Zenon, <1>0 DEF Everything, EntryInv, Doing
    <2> QED BY Zenon, <1>1, <2>1 DEF Doing
  <1>6. \A e \in Device : Doing(e)'
    BY Zenon, <1>0, <1>2, <1>5, DoingFrame DEF Everything, EntryInv
  <1>7. \A e \in Device, n \in Package : Sent(e, n)' => Sent(e, n)
    BY Zenon, <1>0, <1>1, <1>2, SentFrame DEF Everything
  <1>8. \A e \in Device : PoolInv(e)'
    BY Zenon, <1>0, <1>7, PoolFrame DEF Everything, EntryInv
  <1>9. ASSUME NEW e \in Device PROVE Newcomers(e)'
    <2>1. CASE e = d
      BY Zenon, <1>1, <2>1 DEF Newcomers
    <2>2. CASE e # d
      <3>1. op'[e] = op[e] /\ Newcomers(e)
        BY Zenon, <1>2, <2>2 DEF Everything, EntryInv
      <3> QED BY Zenon, <3>1 DEF Newcomers
    <2> QED BY Zenon, <2>1, <2>2
  <1>10. LettersInv'
    BY Zenon, <1>0 DEF Everything, EntryInv, LettersInv
  <1> QED BY Zenon, <1>4, <1>6, <1>8, <1>9, <1>10 DEF EntryInv

\* A commit nobody waits for concerns nobody, or has cut its author off.
LEMMA LateStep ==
  ASSUME Everything, NEW g \in late, lateCommit(g)
  PROVE  EntryInv'
  <1>0. UNCHANGED <<op, state, mail, offered, keys, index, made, clash, page>>
    BY Zenon DEF lateCommit, store
  <1>1. LettersInv' /\ \A e \in Device : Doing(e)' /\ Newcomers(e)'
    BY Zenon, <1>0 DEF Everything, EntryInv, LettersInv, Doing, Newcomers
  <1>2. \A e \in Device, n \in Package : Sent(e, n)' => Sent(e, n)
    BY Zenon, <1>0 DEF Sent
  <1>3. \A e \in Device : PoolInv(e)'
    BY Zenon, <1>0, <1>2, PoolFrame DEF Everything, EntryInv
  <1>4. ReachInv'
    <2>1. CASE cut' # {}
      BY Zenon, <2>1 DEF ReachInv
    <2>2. CASE UNCHANGED <<line, feed, cut>>
      <3>1. Shared' = Shared /\ Inserting' = Inserting
        BY Zenon, <1>0, <2>2 DEF Shared, Inserting
      <3>2. \A x : Invited(x)' <=> Invited(x)
        BY Zenon, <1>0 DEF Invited
      <3> QED BY Zenon, <1>0, <2>2, <3>1, <3>2 DEF Everything, EntryInv, ReachInv
    <2> QED BY Zenon, <2>1, <2>2 DEF lateCommit
  <1> QED BY Zenon, <1>1, <1>3, <1>4 DEF EntryInv

-----------------------------------------------------------------------------
(* The theorems *)

\* No group, no package, nobody to invite.
LEMMA EntryInit == Init => EntryInv
  <1> SUFFICES ASSUME Init PROVE EntryInv
    BY Zenon
  <1>1. \A e \in Device : op[e] = Idle /\ state[e] = << >> /\ page[e] = Off /\ offered[e] = {} /\ index[e] = {}
    BY Zenon DEF Init
  <1>2. mail = {} /\ line = << >> /\ clash = {} /\ Off.at = "off"
    BY Zenon DEF Init, Off
  <1>3. \A e \in Device : Doing(e) /\ Newcomers(e)
    BY Zenon, <1>1, OpParts DEF Doing, Newcomers
  <1>4. \A e \in Device : Pool(e) = {} /\ \A n : ~Sent(e, n)
    BY Zenon, <1>1, <1>2, OpParts DEF Pool, Upload, Sent
  <1>5. ASSUME NEW e \in Device PROVE PoolInv(e)
    <2>1. offered[e] = {} /\ page[e].at # "topup" /\ e \notin clash
      BY Zenon, <1>1, <1>2
    <2> QED BY Zenon, <1>4, <2>1 DEF PoolInv
  <1>6. Inserting = {} /\ listMembers(line) = {}
    <2>1. Inserting = {}
      BY Zenon, <1>1, OpParts DEF Inserting
    <2>2. DOMAIN << >> = {}
      OBVIOUS
    <2> QED BY Zenon, <1>2, <2>1, <2>2 DEF listMembers
  <1>7. ReachInv
    BY Zenon, <1>6 DEF ReachInv
  <1> QED BY Zenon, <1>2, <1>3, <1>5, <1>7 DEF EntryInv, LettersInv

\* Every step keeps the invariant.
LEMMA EntryStep == Everything /\ [Next]_vars => EntryInv'
  <1> SUFFICES ASSUME Everything, [Next]_vars PROVE EntryInv'
    BY Zenon
  <1>1. CASE UNCHANGED vars
    <2>1. UNCHANGED <<op, state, mail, line, feed, cut, clash, offered, keys, index, made, page>>
      BY Zenon, <1>1 DEF vars, server, store
    <2>2. Shared' = Shared /\ Inserting' = Inserting /\ \A x : Invited(x)' <=> Invited(x)
      BY Zenon, <2>1 DEF Shared, Inserting, Invited
    <2>3. ReachInv'
      BY Zenon, <2>1, <2>2 DEF Everything, EntryInv, ReachInv
    <2>4. LettersInv' /\ \A e \in Device : Doing(e)' /\ Newcomers(e)'
      BY Zenon, <2>1 DEF Everything, EntryInv, LettersInv, Doing, Newcomers
    <2>5. \A e \in Device, n \in Package : Sent(e, n)' => Sent(e, n)
      BY Zenon, <2>1 DEF Sent
    <2>6. \A e \in Device : PoolInv(e)'
      BY Zenon, <2>1, <2>5, PoolFrame DEF Everything, EntryInv
    <2> QED BY Zenon, <2>3, <2>4, <2>6 DEF EntryInv
  <1>2. ASSUME NEW d \in Device, DeviceStep(d) PROVE EntryInv'
    <2>1. CASE bootstrap(d) \/ topUpKeyPackages(d) \/ uploadKeyPackages(d)
      BY Zenon, <2>1, BootstrapStep, TopUpStep, UploadStep
    <2>2. CASE initiateChat(d) \/ claimBoth(d) \/ \E x \in Device : addDeviceToChat(d, x)
      BY Zenon, <1>2, <2>2, InitiateStep, ClaimBothStep, AddStep
    <2>3. CASE PublishCommit(d) \/ InsertCommit(d) \/ saveState(d) \/ \E a \in op[d].todo : PublishWelcome(d, a)
      BY Zenon, <1>2, <2>3, PublishStep, InsertStep, SaveStep, WelcomeStep
    <2>4. CASE dropKeyPackage(d) \/ unlistKeyPackage(d) \/ ackWelcome(d) \/ \E w \in mail : joinFromWelcome(d, w)
      BY Zenon, <1>2, <2>4, DropStep, AckStep, JoinStep
    <2>5. CASE catchUpHandshake(d)
      <3>1. op[d] = Idle /\ state[d] # << >>
            /\ UNCHANGED <<mail, line, feed, cut, offered, keys, index, made, clash, page, state>>
        BY Zenon, <2>5 DEF catchUpHandshake, Free, server, store
      <3>2. op[d].pc \notin {"welcome", "save", "insert"}
        BY Zenon, <3>1, OpParts
      <3>3. Begin(d, [Idle EXCEPT !.pc = "catch", !.group = state[d], !.upto = Len(feed)])
        BY Zenon, <2>5 DEF catchUpHandshake
      <3> QED BY Zenon, <1>2, <3>1, <3>2, <3>3, CatchUpStep
    <2>6. CASE catchUpFrame(d) \/ catchUpSave(d)
      BY Zenon, <1>2, <2>6, FrameStep, SaveStep
    <2>7. CASE giveUp(d) \/ fail(d) \/ die(d)
      BY Zenon, <1>2, <2>7, EndStep
    <2> QED BY Zenon, <1>2, <2>1, <2>2, <2>3, <2>4, <2>5, <2>6, <2>7 DEF DeviceStep
  <1> QED BY Zenon, <1>1, <1>2, LateStep DEF Next

-----------------------------------------------------------------------------
(* Counting packages *)

INSTANCE FiniteSetTheorems
INSTANCE WellFoundedInduction

\* A set of numbers that is not empty has a least element, which Min is.
LEMMA Least == LeastNumber
<1> SUFFICES ASSUME NEW S \in SUBSET Nat, S # {} PROVE \E x \in S : \A y \in S : x <= y
  BY Zenon DEF LeastNumber
<1>1. \E x \in S : \A y \in S : ~ (<<y, x>> \in OpToRel(<, Nat))
  BY Zenon, NatLessThanWellFounded, WFMin
<1>2. PICK x \in S : \A y \in S : ~ (<<y, x>> \in OpToRel(<, Nat))
  BY Zenon, <1>1
<1>3. ASSUME NEW y \in S PROVE x <= y
  <2>1. <<y, x>> \notin {ss \in Nat \X Nat : ss[1] < ss[2]}
    BY Zenon, <1>2 DEF OpToRel
  <2>2. ~ (y < x)
    BY Zenon, <2>1
  <2> QED
    BY <2>2
<1> QED
  BY Zenon, <1>3

LEMMA MinInSet == ASSUME NEW S \in SUBSET Nat, S # {} PROVE Min(S) \in S
  BY Zenon, Least DEF LeastNumber, Min

\* Sets of packages are finite, and counted by a natural number.
LEMMA Counted == ASSUME NEW S \in SUBSET Package PROVE Cardinality(S) \in Nat
<1>1. IsFiniteSet(Package)
  BY GroupAssumption, FS_Interval DEF Package
<1> QED
  BY Zenon, <1>1, FS_Subset, FS_CardinalityType

LEMMA Counts == Counting
<1>1. \A S \in SUBSET Package : Cardinality(S) \in Nat
  BY Zenon, Counted
<1>2. \A S \in SUBSET Package : S # {} => Min(S) \in S
  BY MinInSet DEF Package
<1>3. \A m, n \in Int : Cardinality(m .. n) = IF m > n THEN 0 ELSE n - m + 1
  BY Zenon, FS_Interval
<1> QED
  BY Zenon, <1>1, <1>2, <1>3 DEF Counting

-----------------------------------------------------------------------------
(* The theorems *)

\* Every state of the chat's devices and of the server's tables is well typed,
\* whatever the devices do at once and wherever they stop.
THEOREM TypeCorrect == Spec => []TypeOK
<1>1. Init => TypeOK /\ Within
  BY Zenon, TypeInit, LineInit
<1>2. TypeOK /\ Within /\ [Next]_vars => TypeOK' /\ Within'
  BY Zenon, Counts, TypeStep, WithinStep
<1> QED
  BY <1>1, <1>2, PTL DEF Spec

\* For any devices, packages and faults: the group states that devices hold,
\* that the feed carries and that welcomes hand out are prefixes of one
\* sequence of commits.  AdvanceEpoch lets one commit take each epoch, and a
\* commit is built on a state its device holds, so the winner of an epoch
\* continues the line.
THEOREM NeverForks == Spec => []NoFork
<1>1. Init => TypeOK /\ Within /\ OneLine
  BY Zenon, TypeInit, LineInit
<1>2. TypeOK /\ Within /\ OneLine /\ [Next]_vars => TypeOK' /\ Within' /\ OneLine'
  BY SMTT(30), Counts, TypeStep, WithinStep, LineStep
<1>3. OneLine => NoFork
  BY Zenon DEF OneLine, Fits, NoFork, Known
<1> QED
  BY <1>1, <1>2, <1>3, PTL DEF Spec

\* For any devices, packages and failures: what the server hands out, and what
\* a waiting welcome is for, its device can open.  A claim moves a package out
\* of the pool in one statement, a device drops only the package it joined
\* with, and a top-up writes back an index that has every entry, unless a drop
\* crossed it.
THEOREM PackagesOpen == Spec => []PackageOpens
  <1>1. Init => Everything
    BY SMTT(30), Counts, TypeInit, LineInit, EntryInit DEF Everything
  <1>2. Everything /\ [Next]_vars => Everything'
    BY SMTT(30), TypeStep, WithinStep, LineStep, EntryStep DEF Everything
  <1>3. Everything => PackageOpens
    <2> SUFFICES ASSUME Everything, NEW d \in Device \ clash
                 PROVE  /\ offered[d] \subseteq localKeyPackages(d)
                        /\ state[d] = << >> => {w.package : w \in {v \in mail : v.to = d}} \subseteq localKeyPackages(d)
      BY Zenon DEF PackageOpens
    <2>1. PoolInv(d)
      BY Zenon DEF Everything, EntryInv
    <2>2. offered[d] \subseteq localKeyPackages(d)
      BY Zenon, <2>1 DEF PoolInv, Pool
    <2>3. ASSUME state[d] = << >>, NEW w \in mail, w.to = d PROVE w.package \in localKeyPackages(d)
      <3>1. w.package \in Package
        BY Zenon, Parts DEF Everything
      <3>2. Sent(d, w.package)
        BY Zenon, <2>3 DEF Sent
      <3> QED BY Zenon, <2>1, <2>3, <3>1, <3>2 DEF PoolInv
    <2> QED BY Zenon, <2>2, <2>3
  <1> QED BY <1>1, <1>2, <1>3, PTL DEF Spec

\* For any devices, packages and failures: a member of the newest commit in the
\* feed has the state, or an invitation, or its committer is still at it,
\* unless a committer was cut off.
THEOREM NobodyOut == Spec => []NobodyLeftOut
  <1>1. Init => Everything
    BY Counts, TypeInit, LineInit, EntryInit DEF Everything
  <1>2. Everything /\ [Next]_vars => Everything'
    BY TypeStep, WithinStep, LineStep, EntryStep DEF Everything
  <1>3. Everything => NobodyLeftOut
    <2> SUFFICES ASSUME Everything, feed # << >>, cut = {}, NEW x \in listMembers(Newest(feed)) PROVE Invited(x)
      BY Zenon DEF NobodyLeftOut, Invited
    <2> DEFINE g == Newest(feed)
    <2>1. g \in Shared
      <3>1. feed \in Seq(Seq(Commit)) /\ Len(feed) \in DOMAIN feed
        BY SeqNotEmpty DEF Everything, TypeOK
      <3> QED BY Zenon, <3>1, SharedHas DEF Newest
    <2>2. g \in Seq(Commit) /\ IsPrefix(g, line) /\ line \in Seq(Commit)
      BY Zenon, <2>1, SharedFits DEF Everything, TypeOK
    <2>3. CASE Inserting = {}
      <3>1. x \in listMembers(line)
        BY Zenon, <2>2, MembersOfPrefix
      <3> QED BY Zenon, <2>3, <3>1 DEF Everything, EntryInv, ReachInv
    <2>4. ASSUME NEW d \in Inserting PROVE Invited(x)
      <3> HIDE DEF g
      <3>1. Len(g) < Len(line)
        BY Zenon, <2>1, <2>4 DEF Everything, EntryInv, ReachInv
      <3>2. Len(g) \in Nat /\ Len(line) \in Nat /\ line # << >>
        <4>1. Len(g) \in Nat /\ Len(line) \in Nat
          BY <2>2
        <4> QED BY <2>2, <3>1, <4>1
      <3>3. Base(line) \in Seq(Commit) /\ Len(Base(line)) = Len(line) - 1 /\ IsPrefix(Base(line), line)
        BY <2>2, <3>2, BaseOf
      <3>4. IsPrefix(g, Base(line))
        <4> DEFINE b == Base(line)
        <4>1. b \in Seq(Commit) /\ Len(b) = Len(line) - 1 /\ IsPrefix(b, line)
          BY Zenon, <3>3
        <4> HIDE DEF b
        <4>2. \A i \in 1 .. Len(g) : g[i] = line[i]
          BY <2>2, PrefixByElement
        <4>3. \A i \in 1 .. Len(b) : b[i] = line[i]
          BY SMTT(30), <2>2, <4>1, PrefixByElement
        <4>4. Len(g) <= Len(b)
          BY <3>1, <3>2, <4>1
        <4>5. \A i \in 1 .. Len(g) : g[i] = b[i]
          BY SMTT(30), <3>2, <4>1, <4>2, <4>3, <4>4
        <4>6. IsPrefix(g, b)
          BY SMTT(30), <2>2, <4>1, <4>4, <4>5, PrefixByElement
        <4> QED BY Zenon, <4>6 DEF b
      <3>5. x \in listMembers(Base(line))
        BY Zenon, <2>2, <3>3, <3>4, MembersOfPrefix DEF g
      <3> QED BY Zenon, <2>4, <3>5 DEF Everything, EntryInv, ReachInv
    <2> QED BY Zenon, <2>3, <2>4
  <1> QED BY <1>1, <1>2, <1>3, PTL DEF Spec

\* For any devices, packages and failures: a device that was never cut off
\* midway reaches the newest commit of the feed by going through the rest of
\* it.  The frames are numbered by their epochs, the cursor is never ahead of
\* the state that was saved, and the device has the states of its own commits,
\* which it passes over.
THEOREM AlwaysCatchesUp == Spec => []CatchesUp
  <1> DEFINE J == TypeOK /\ Within /\ OneLine /\ CatchInv
  <1>1. Init => J
    BY Zenon, TypeInit, LineInit, CatchInit
  <1>2. J /\ [Next]_vars => J'
    <2> SUFFICES ASSUME J, [Next]_vars PROVE J'
      BY Zenon
    <2>1. TypeOK' /\ OneLine' /\ CatchInv'
      BY Zenon, Counts, TypeStep, LineStep, CatchStep
    <2> QED BY Zenon, <2>1, WithinStep
  <1>3. J => CatchesUp
    BY Zenon, Least, EndsNewest
  <1> HIDE DEF J
  <1> QED BY <1>1, <1>2, <1>3, PTL DEF Spec
=============================================================================
