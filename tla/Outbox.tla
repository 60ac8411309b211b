------------------------------- MODULE Outbox -------------------------------
(***************************************************************************)
(* What the scheduled-send service promises its users: a message put off   *)
(* for later is sent at most once, with the content last saved, or it is   *)
(* cancelled or dropped and never sent.  Scheduled implements this.        *)
(***************************************************************************)
EXTENDS Sequences

CONSTANTS Row, Content

VARIABLES
  item,   \* [Row -> [state, content]]
  posted  \* [Row -> Seq(Content)], the chat messages born from a row

vars == <<item, posted>>

State == {"none", "pending", "sent", "canceled", "dropped"}

Init ==
  /\ item \in [Row -> [state : {"none"}, content : Content]]
  /\ posted = [r \in Row |-> <<>>]

\* A user puts a message off for later.
Create(r, b) ==
  /\ item[r].state = "none"
  /\ item' = [item EXCEPT ![r] = [state |-> "pending", content |-> b]]
  /\ UNCHANGED posted

\* Its sender saves another content.
Edit(r, b) ==
  /\ item[r].state = "pending"
  /\ item' = [item EXCEPT ![r] = [state |-> "pending", content |-> b]]
  /\ UNCHANGED posted

\* Its sender takes it back.
Drop(r, b) ==
  /\ item[r].state = "pending"
  /\ item' = [item EXCEPT ![r] = [state |-> "dropped", content |-> b]]
  /\ UNCHANGED posted

\* The rows of S are sent and those of C given up, in one step.
Settle(S, C, b) ==
  /\ \A r \in S \cup C : item[r].state = "pending"
  /\ S \cap C = {}
  /\ item' = [r \in Row |-> IF r \in S THEN [state |-> "sent", content |-> b]
                            ELSE IF r \in C THEN [state |-> "canceled", content |-> b]
                            ELSE item[r]]
  /\ posted' = [r \in Row |-> IF r \in S THEN Append(posted[r], item[r].content) ELSE posted[r]]

Next ==
  \/ \E r \in Row, b \in Content : Create(r, b) \/ Edit(r, b) \/ Drop(r, b)
  \/ \E S, C \in SUBSET Row, b \in Content : Settle(S, C, b)

Spec == Init /\ [][Next]_vars
=============================================================================
