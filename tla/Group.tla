-------------------------------- MODULE Group --------------------------------
(***************************************************************************)
(* The MLS group behind one private chat: entities/e2ee/chats.ts and       *)
(* session.ts on each device, e2ee.Service on the server.  The server      *)
(* cannot read a commit: all it does is let one commit take each epoch.    *)
(* withChatLock makes a device run one operation on the chat at a time     *)
(* (op); everything between two awaited requests or store writes is one    *)
(* step.  A group state is the sequence of the commits that made it, so    *)
(* its length is its MLS epoch.                                            *)
(***************************************************************************)
EXTENDS Naturals, Sequences, FiniteSets, FiniteSetsExt

CONSTANTS
  Device,     \* the devices of the two users
  UserOf,     \* [Device -> the user it belongs to]
  MaxPackage, \* bound on the key packages a device generates
  PoolMin,    \* session.ts: replenish below this many packages ...
  PoolTarget, \* ... up to this many
  MaxFaults   \* bound on closed pages and failed requests

ASSUME GroupAssumption ==
  /\ MaxPackage \in Nat /\ MaxFaults \in Nat
  /\ PoolMin \in Nat /\ PoolTarget \in Nat

VARIABLES
  epoch,   \* e2ee_group_epochs: the epoch last taken, 0 without a row
  feed,    \* e2ee_group_messages, the commits: a sequence of group states
  mail,    \* e2ee_group_messages, the welcomes not fetched yet
  offered, \* [Device -> e2ee_key_packages not consumed]
  state,   \* [Device -> mls/private/<chat>], << >> when there is none
  cursor,  \* [Device -> hs/<chat>, how much of the feed has been gone through]
  keys,    \* [Device -> kp/<n>: packages whose private half is stored]
  index,   \* [Device -> the pool index entries]
  made,    \* [Device -> number of packages generated]
  page,    \* [Device -> the app's start: off, topping up the pool, or on]
  op,      \* [Device -> the operation that holds the chat's lock]
  late,    \* commits on their way to the server whose sender stopped waiting
  line,    \* history: the newest group state the server let through
  cut,     \* history: devices whose commit or catch-up was cut off midway
  clash,   \* history: devices that dropped a package while topping up
  faults

server == <<epoch, feed, mail, offered, late, line>>
store  == <<state, cursor, keys, index, made>>
vars   == <<server, store, page, op, cut, clash, faults>>

Package == 1 .. MaxPackage
Commit  == [by : Device, adds : SUBSET (Device \X Package)]
Welcome == [to : Device, package : Package, group : Seq(Commit)]
Pc      == {"idle", "claim", "commit", "insert", "welcome", "save", "await",
            "drop", "unlist", "ack", "catch"}

\* for: whether the operation is a first send ("send") or adds a device;
\* group: the state being built; todo: the invitations not sent yet;
\* upto: the feed's length when it was read; copy: the index that was read.
Op   == [pc : Pc, for : {"send", "add"}, group : Seq(Commit),
         todo : SUBSET (Device \X Package), upto : Nat,
         letter : SUBSET Welcome, copy : SUBSET Package]
Idle == [pc |-> "idle", for |-> "send", group |-> << >>, todo |-> {}, upto |-> 0,
         letter |-> {}, copy |-> {}]
Page == [at : {"off", "topup", "upload", "on"}, copy : SUBSET Package]
Off  == [at |-> "off", copy |-> {}]

TypeOK ==
  /\ epoch \in Nat
  /\ feed \in Seq(Seq(Commit))
  /\ mail \subseteq Welcome
  /\ offered \in [Device -> SUBSET Package]
  /\ state \in [Device -> Seq(Commit)]
  /\ cursor \in [Device -> Nat]
  /\ keys \in [Device -> SUBSET Package]
  /\ index \in [Device -> SUBSET Package]
  /\ made \in [Device -> 0 .. MaxPackage]
  /\ page \in [Device -> Page]
  /\ op \in [Device -> Op]
  /\ late \subseteq Seq(Commit)
  /\ line \in Seq(Commit)
  /\ cut \subseteq Device /\ clash \subseteq Device
  /\ faults \in Nat

Init ==
  /\ epoch = 0 /\ feed = << >> /\ mail = {}
  /\ offered = [d \in Device |-> {}]
  /\ state = [d \in Device |-> << >>]
  /\ cursor = [d \in Device |-> 0]
  /\ keys = [d \in Device |-> {}]
  /\ index = [d \in Device |-> {}]
  /\ made = [d \in Device |-> 0]
  /\ page = [d \in Device |-> Off]
  /\ op = [d \in Device |-> Idle]
  /\ late = {} /\ line = << >>
  /\ cut = {} /\ clash = {} /\ faults = 0

-----------------------------------------------------------------------------
(* Group states *)

\* The newest commit of a state, the state it was made from, and whether the
\* state t can be reached from s.
Newest(s)      == s[Len(s)]
Base(s)        == SubSeq(s, 1, Len(s) - 1)
IsPrefix(s, t) == Len(s) <= Len(t) /\ SubSeq(t, 1, Len(s)) = s

Added(c) == {a[1] : a \in c.adds}

\* listMembers: the device that made the group and those its commits added.
listMembers(g) == UNION {Added(g[i]) \cup {g[i].by} : i \in DOMAIN g}

\* processIncoming: a commit applies to the state it was made from only.
Applies(frame, g) == Base(frame) = g

\* One handshake frame at device d: its own commits are passed over.
ApplyFrame(d, g, frame) ==
  IF Newest(frame).by # d /\ Applies(frame, g) THEN frame ELSE g

\* localKeyPackages: index entries whose private half is there.
localKeyPackages(d) == index[d] \cap keys[d]

Running(d) == page[d].at # "off"
Free(d)    == Running(d) /\ op[d] = Idle

Goto(d, pc) == op' = [op EXCEPT ![d].pc = pc]
Finish(d)   == op' = [op EXCEPT ![d] = Idle]
Begin(d, o) == op' = [op EXCEPT ![d] = o]

-----------------------------------------------------------------------------
(* Starting the app: bootstrap, replenishKeyPackages, topUpKeyPackages *)

\* registerDevice, then the count; a pool that is full enough is left alone.
\* From here on the session is set, so socket events find it.
bootstrap(d) ==
  /\ page[d].at = "off"
  /\ page' = [page EXCEPT ![d] =
                IF Cardinality(offered[d]) >= PoolMin THEN [at |-> "on", copy |-> {}]
                ELSE [at |-> "topup", copy |-> index[d]]]
  /\ UNCHANGED <<server, store, op, cut, clash, faults>>

Fresh(d) == made[d] + 1 .. made[d] + (PoolTarget - Cardinality(offered[d]))

\* The private halves are put, then the index that was read at the start is
\* written back with the new entries.
topUpKeyPackages(d) ==
  /\ page[d].at = "topup"
  /\ Fresh(d) \subseteq Package
  /\ keys' = [keys EXCEPT ![d] = @ \cup Fresh(d)]
  /\ index' = [index EXCEPT ![d] = page[d].copy \cup Fresh(d)]
  /\ made' = [made EXCEPT ![d] = @ + Cardinality(Fresh(d))]
  /\ page' = [page EXCEPT ![d] = [at |-> "upload", copy |-> Fresh(d)]]
  /\ UNCHANGED <<server, state, cursor, op, cut, clash, faults>>

uploadKeyPackages(d) ==
  /\ page[d].at = "upload"
  /\ offered' = [offered EXCEPT ![d] = @ \cup page[d].copy]
  /\ page' = [page EXCEPT ![d] = [at |-> "on", copy |-> {}]]
  /\ UNCHANGED <<epoch, feed, mail, late, line, store, op, cut, clash, faults>>

-----------------------------------------------------------------------------
(* Building the group: encryptForChat with no state, initiateChat *)

\* A commit in the feed means the group exists: wait to be let in.
initiateChat(d) ==
  /\ Free(d)
  /\ state[d] = << >>
  /\ Begin(d, [Idle EXCEPT !.pc = IF feed = << >> THEN "claim" ELSE "await"])
  /\ UNCHANGED <<server, store, page, cut, clash, faults>>

\* ClaimKeyPackages for one device: the oldest package left, if any.
Picks(S) == {<<d, Min(offered[d])>> : d \in {x \in S : offered[x] # {}}}

Consumed(picks) == [d \in Device |-> offered[d] \ {a[2] : a \in {b \in picks : b[1] = d}}]

Peers(d)  == {x \in Device : UserOf[x] # UserOf[d]}
Others(d) == {x \in Device : UserOf[x] = UserOf[d] /\ x # d}

\* One package of every device of both sides; with none from the peer the send
\* is refused, and the packages of the sender's own devices stay spent.
claimBoth(d) ==
  LET picks == Picks(Peers(d) \cup Others(d)) IN
  /\ op[d].pc = "claim"
  /\ offered' = Consumed(picks)
  /\ IF Picks(Peers(d)) = {} THEN Finish(d)
     ELSE Begin(d, [Idle EXCEPT !.pc = "commit", !.todo = picks,
                                !.group = << [by |-> d, adds |-> picks] >>])
  /\ UNCHANGED <<epoch, feed, mail, late, line, store, page, cut, clash, faults>>

\* addDeviceToChat up to the commit, on an announcement or from
\* syncChatDevices; a device that has no package is passed over.
addDeviceToChat(d, x) ==
  LET picks == Picks({x}) IN
  /\ Free(d)
  /\ x # d
  /\ state[d] # << >> /\ x \notin listMembers(state[d])
  /\ picks # {}
  /\ offered' = Consumed(picks)
  /\ Begin(d, [Idle EXCEPT !.pc = "commit", !.for = "add", !.todo = picks,
                           !.group = Append(state[d], [by |-> d, adds |-> picks])])
  /\ UNCHANGED <<epoch, feed, mail, late, line, store, page, cut, clash, faults>>

\* Mutant of AdvanceEpoch: an epoch that is taken is given away again.
AdvanceEpochAgain(e) == epoch <= e /\ epoch' = e

\* UPDATE ... WHERE epoch < the commit's: one statement.
AdvanceEpoch(e) == epoch < e /\ epoch' = e

\* PublishHandshake of the commit, the epoch's turn.  EPOCH_CONFLICT: a device
\* being added catches up, a first send waits to be let in.
PublishCommit(d) ==
  LET o == op[d] IN
  /\ o.pc = "commit"
  /\ \/ /\ AdvanceEpoch(Len(o.group))
        /\ line' = o.group
        /\ Goto(d, "insert")
     \/ /\ epoch >= Len(o.group)
        /\ Begin(d, IF o.for = "add"
                    THEN [Idle EXCEPT !.pc = "catch", !.group = state[d], !.upto = Len(feed)]
                    ELSE [Idle EXCEPT !.pc = "await"])
        /\ UNCHANGED <<epoch, line>>
  /\ UNCHANGED <<feed, mail, offered, late, store, page, cut, clash, faults>>

\* PublishHandshake of the commit, InsertGroupMessage.
InsertCommit(d) ==
  /\ op[d].pc = "insert"
  /\ feed' = Append(feed, op[d].group)
  /\ Goto(d, "welcome")
  /\ UNCHANGED <<epoch, mail, offered, late, line, store, page, cut, clash, faults>>

\* Mutant of PublishWelcome: the state is saved after the first invitation.
PublishWelcomeOnce(d, a) ==
  /\ op[d].pc = "welcome" /\ a \in op[d].todo
  /\ mail' = mail \cup {[to |-> a[1], package |-> a[2], group |-> op[d].group]}
  /\ op' = [op EXCEPT ![d].pc = "save", ![d].todo = {}]
  /\ UNCHANGED <<epoch, feed, offered, late, line, store, page, cut, clash, faults>>

\* PublishHandshake of the welcome: a row for each recipient.
PublishWelcome(d, a) ==
  /\ op[d].pc = "welcome" /\ a \in op[d].todo
  /\ mail' = mail \cup {[to |-> a[1], package |-> a[2], group |-> op[d].group]}
  /\ op' = [op EXCEPT ![d].pc = IF op[d].todo = {a} THEN "save" ELSE "welcome",
                      ![d].todo = @ \ {a}]
  /\ UNCHANGED <<epoch, feed, offered, late, line, store, page, cut, clash, faults>>

saveState(d) ==
  /\ op[d].pc = "save"
  /\ state' = [state EXCEPT ![d] = op[d].group]
  /\ Finish(d)
  /\ UNCHANGED <<server, cursor, keys, index, made, page, cut, clash, faults>>

-----------------------------------------------------------------------------
(* Joining from a welcome *)

\* awaitJoin runs out of tries: deviceNotInChatText.
giveUp(d) ==
  /\ op[d].pc = "await"
  /\ Finish(d)
  /\ UNCHANGED <<server, store, page, cut, clash, faults>>

\* joinFromWelcome, called for each welcome of processWelcomes, or by
\* adoptPeerChat while awaitJoin holds the lock: nothing to do with a state of
\* one's own, or without the package the welcome is addressed to.
joinFromWelcome(d, w) ==
  /\ Free(d) \/ op[d].pc = "await"
  /\ w \in mail /\ w.to = d
  /\ IF state[d] = << >> /\ w.package \in localKeyPackages(d)
     THEN /\ state' = [state EXCEPT ![d] = w.group]
          /\ Begin(d, [Idle EXCEPT !.pc = "drop", !.letter = {w}])
     ELSE /\ state' = state
          /\ Begin(d, [Idle EXCEPT !.pc = "ack", !.letter = {w}])
  /\ UNCHANGED <<server, cursor, keys, index, made, page, cut, clash, faults>>

\* dropKeyPackage removes the private half and reads the index ...
dropKeyPackage(d) ==
  /\ op[d].pc = "drop"
  /\ keys' = [keys EXCEPT ![d] = @ \ {w.package : w \in op[d].letter}]
  /\ op' = [op EXCEPT ![d].pc = "unlist", ![d].copy = index[d]]
  /\ UNCHANGED <<server, state, cursor, index, made, page, cut, clash, faults>>

\* Mutant of unlistKeyPackage: the index is emptied.
unlistAll(d) ==
  /\ op[d].pc = "unlist"
  /\ index' = [index EXCEPT ![d] = {}]
  /\ Goto(d, "ack")
  /\ UNCHANGED <<server, state, cursor, keys, made, page, cut, clash, faults>>

\* ... and writes it back without the entry, over whatever a top-up wrote in
\* between; clash records that this happened, or that a top-up is under way
\* with an older copy.
unlistKeyPackage(d) ==
  /\ op[d].pc = "unlist"
  /\ index' = [index EXCEPT ![d] = op[d].copy \ {w.package : w \in op[d].letter}]
  /\ Goto(d, "ack")
  /\ clash' = IF index[d] = op[d].copy THEN clash ELSE clash \cup {d}
  /\ UNCHANGED <<server, state, cursor, keys, made, page, cut, faults>>

\* ackWelcome, whatever came of the welcome.
ackWelcome(d) ==
  /\ op[d].pc = "ack"
  /\ mail' = mail \ op[d].letter
  /\ Finish(d)
  /\ UNCHANGED <<epoch, feed, offered, late, line, store, page, cut, clash, faults>>

-----------------------------------------------------------------------------
(* catchUpHandshake: on an e2ee.handshake event, on opening the chat, on a    *)
(* message of a later epoch, after EPOCH_CONFLICT                             *)

catchUpHandshake(d) ==
  /\ Free(d)
  /\ state[d] # << >>
  /\ cursor[d] < Len(feed)
  /\ Begin(d, [Idle EXCEPT !.pc = "catch", !.group = state[d], !.upto = Len(feed)])
  /\ UNCHANGED <<server, store, page, cut, clash, faults>>

\* One frame; the cursor is put before the state is saved.
catchUpFrame(d) ==
  /\ op[d].pc = "catch" /\ cursor[d] < op[d].upto
  /\ op' = [op EXCEPT ![d].group = ApplyFrame(d, @, feed[cursor[d] + 1])]
  /\ cursor' = [cursor EXCEPT ![d] = @ + 1]
  /\ UNCHANGED <<server, state, keys, index, made, page, cut, clash, faults>>

\* Mutant of catchUpSave: the cursor has moved, the state is not saved.
catchUpSaveNot(d) ==
  /\ op[d].pc = "catch" /\ cursor[d] >= op[d].upto
  /\ Finish(d)
  /\ UNCHANGED <<server, store, page, cut, clash, faults>>

catchUpSave(d) ==
  /\ op[d].pc = "catch" /\ cursor[d] >= op[d].upto
  /\ state' = [state EXCEPT ![d] = op[d].group]
  /\ Finish(d)
  /\ UNCHANGED <<server, cursor, keys, index, made, page, cut, clash, faults>>

-----------------------------------------------------------------------------
(* Failures *)

\* What is lost for good when device d stops now: an epoch taken by a commit
\* that is not saved, or frames gone through but not saved.
Midway(d) ==
  \/ op[d].pc \in {"insert", "welcome", "save"}
  \/ op[d].pc = "catch" /\ op[d].group # state[d]

\* The operation of d stops here, unsaved; a commit that was sent may still be
\* on its way.
Stop(d) ==
  /\ faults < MaxFaults
  /\ faults' = faults + 1
  /\ cut' = IF Midway(d) THEN cut \cup {d} ELSE cut
  /\ late' \in {late, late \cup (IF op[d].pc = "commit" THEN {op[d].group} ELSE {})}
  /\ Finish(d)
  /\ UNCHANGED <<epoch, feed, mail, offered, line, store, clash>>

\* A request fails or its answer is lost: the operation throws.
fail(d) ==
  /\ op[d].pc \in {"claim", "commit", "insert", "welcome", "await"}
  /\ Stop(d)
  /\ UNCHANGED page

\* The page is closed or the app killed, at any moment.
die(d) ==
  /\ Running(d)
  /\ Stop(d)
  /\ page' = [page EXCEPT ![d] = Off]

\* A commit nobody waits for arrives: it takes its epoch like any other, and the
\* handler, whose context ended with the connection, inserts it or stops first.
lateCommit(g) ==
  /\ late' = late \ {g}
  /\ \/ /\ AdvanceEpoch(Len(g))
        /\ line' = g
        /\ feed' \in {feed, Append(feed, g)}
        /\ cut' = cut \cup {Newest(g).by}
     \/ /\ epoch >= Len(g)
        /\ UNCHANGED <<epoch, line, feed, cut>>
  /\ UNCHANGED <<mail, offered, store, page, op, clash, faults>>

-----------------------------------------------------------------------------
DeviceStep(d) ==
  \/ bootstrap(d) \/ topUpKeyPackages(d) \/ uploadKeyPackages(d)
  \/ initiateChat(d) \/ claimBoth(d)
  \/ \E x \in Device : addDeviceToChat(d, x)
  \/ PublishCommit(d) \/ InsertCommit(d)
  \/ \E a \in op[d].todo : PublishWelcome(d, a)
  \/ saveState(d)
  \/ giveUp(d) \/ \E w \in mail : joinFromWelcome(d, w)
  \/ dropKeyPackage(d) \/ unlistKeyPackage(d) \/ ackWelcome(d)
  \/ catchUpHandshake(d) \/ catchUpFrame(d) \/ catchUpSave(d)
  \/ fail(d) \/ die(d)

Next == (\E d \in Device : DeviceStep(d)) \/ (\E g \in late : lateCommit(g))

Spec == Init /\ [][Next]_vars

-----------------------------------------------------------------------------
(* Properties *)

\* Every group state there is, on a device, in the feed or in a welcome.
Known == {state[d] : d \in Device} \cup {feed[i] : i \in DOMAIN feed} \cup {w.group : w \in mail}

\* The group never forks: every state anybody holds or can be given is a
\* prefix of one sequence of commits, whoever commits at the same moment and
\* whatever is cut off midway.
NoFork == \A g \in Known : IsPrefix(g, line)

\* The state of d after the frames of the feed up to the i-th.
Through(d) ==
  LET after[i \in 0 .. Len(feed)] ==
        IF i <= cursor[d] THEN state[d] ELSE ApplyFrame(d, after[i - 1], feed[i])
  IN  after

\* A device that was never cut off midway can read what the others send: going
\* through the rest of the feed takes it to the newest commit there.
CatchesUp ==
  \A d \in Device :
    state[d] # << >> /\ op[d].pc = "idle" /\ d \notin cut /\ feed # << >> =>
      Newest(feed) = Through(d)[Len(feed)]

\* Nobody is added and left outside: a device of the newest group has a state,
\* or its welcome is waiting or about to be sent, unless a committer was cut
\* off.
NobodyLeftOut ==
  \A x \in IF feed = << >> THEN {} ELSE listMembers(Newest(feed)) :
    \/ state[x] # << >>
    \/ \E w \in mail : w.to = x
    \/ \E d \in Device : op[d].pc \in {"welcome", "save"} /\ (x = d \/ \E a \in op[d].todo : a[1] = x)
    \/ cut # {}

\* A package the server hands out, or that a waiting welcome is for, can be
\* opened by its device, unless a top-up and a drop crossed on its index.
PackageOpens ==
  \A d \in Device \ clash :
    /\ offered[d] \subseteq localKeyPackages(d)
    /\ state[d] = << >> => {w.package : w \in {v \in mail : v.to = d}} \subseteq localKeyPackages(d)
=============================================================================
