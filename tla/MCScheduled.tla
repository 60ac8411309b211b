---------------------------- MODULE MCScheduled -----------------------------
(* Instance of Scheduled for TLC: two replicas, two rows that may share an *)
(* upload.                                                                 *)
EXTENDS Scheduled

CONSTANTS r1, r2

\* The first row carries the upload, with or without a text; the second has a
\* text, with or without the upload.
Contents ==
  /\ r1 \in Pending => rows[r1].atts # {}
  /\ r2 \in Pending => rows[r2].body # None

\* The account and a chat do not both close.
OneClosure == active \/ \A c \in Chat : gate[c] = "open"

Bounded == Contents /\ OneClosure
=============================================================================
