------------------------------ MODULE Refresh -------------------------------
(***************************************************************************)
(* Renewing a session: the refresh-token rotation of the server            *)
(* (Service.Refresh in backend/internal/auth/service.go and its two        *)
(* statements on the session row) and the client that spends the tokens    *)
(* (refreshSession in frontend/src/shared/api/client.ts).  One session of  *)
(* one account; its client runs in one or more tabs that share one cookie  *)
(* jar, or in the one page of the native shell, which holds the token      *)
(* itself.  A page shares one exchange between its concurrent requests.    *)
(* Tokens are numbered in the order they are made.                         *)
(***************************************************************************)
EXTENDS Naturals

CONSTANTS
  Flight,      \* exchanges that may be under way at a time
  TabOf,       \* [Flight -> the tab it is made by]
  MaxToken,    \* bound on the tokens made
  MaxFaults,   \* bound on lost calls and database errors
  NoToken

ASSUME RefreshAssumption ==
  /\ MaxToken \in Nat \ {0} /\ MaxFaults \in Nat
  /\ NoToken \notin Nat

VARIABLES
  native,  \* isNative()
  row,     \* the session row: the token whose hash it holds, its state
  made,    \* the newest token made
  jar,     \* the token the client holds, NoToken when it has none
  fly,     \* [Flight -> state of an exchange]
  calm,    \* whether no two tabs have had exchanges under way at a time and no
           \* answer has been lost; neither side keeps it
  limited, \* whether a native exchange was turned away by a rate limit; likewise
  faults

refreshVars == <<native, row, made, jar, fly, calm, limited, faults>>

\* pc is where the exchange stands: "read", "revoke" and "rotate" are the next
\* statement of the server, the others are an answer on its way: "limited" is
\* the 429 of a rate limit, "error" a 5xx.
Pc == {"idle", "read", "revoke", "rotate", "ok", "refused", "limited", "error"}

RefreshTypeOK ==
  /\ native \in BOOLEAN
  /\ row \in [token : Nat, state : {"live", "expired", "ended", "reused"}]
  /\ made \in 1 .. MaxToken
  /\ jar \in Nat \cup {NoToken}
  /\ fly \in [Flight -> [pc : Pc, token : Nat \cup {NoToken}]]
  /\ \A f \in Flight : fly[f].pc = "idle" => fly[f].token = NoToken
  /\ calm \in BOOLEAN /\ limited \in BOOLEAN
  /\ faults \in 0 .. MaxFaults

Idle == [pc |-> "idle", token |-> NoToken]

\* A login has opened the session and handed out its first token.
RefreshInit ==
  /\ native \in BOOLEAN
  /\ row = [token |-> 1, state |-> "live"]
  /\ made = 1 /\ jar = 1
  /\ fly = [f \in Flight |-> Idle]
  /\ calm = TRUE /\ limited = FALSE /\ faults = 0

At(f, pc) == fly[f].pc = pc
Goto(f, pc) == fly' = [fly EXCEPT ![f].pc = pc]

\* Mutant: every request that meets a 401 makes an exchange of its own.
InFlightNot(tab) == FALSE

\* refreshInFlight of a page; the native shell has only one.
InFlight(tab) == \E f \in Flight : (native \/ TabOf[f] = tab) /\ ~At(f, "idle")

\* An exchange of another tab is under way.
OtherTab(tab) == \E f \in Flight : ~native /\ TabOf[f] # tab /\ ~At(f, "idle")

Fault == faults < MaxFaults /\ faults' = faults + 1

-----------------------------------------------------------------------------
(* The exchange *)

\* A request got a 401, or a socket was refused.  The token sent is the one
\* held at that moment.
refreshSession(f) ==
  /\ At(f, "idle") /\ ~InFlight(TabOf[f])
  /\ fly' = [fly EXCEPT ![f] = [pc |-> "read", token |-> jar]]
  /\ calm' = (calm /\ ~OtherTab(TabOf[f]))
  /\ UNCHANGED <<native, row, made, jar, limited, faults>>

\* The limiter of /auth/refresh, or nginx in front of it, turns the request away.
Limit(f) ==
  /\ At(f, "read") /\ Goto(f, "limited")
  /\ limited' = (limited \/ native)
  /\ UNCHANGED <<native, row, made, jar, calm, faults>>

\* No token, an inactive session, a stale token of a live one, or a good one.
GetByID(f) ==
  /\ At(f, "read")
  /\ Goto(f, CASE fly[f].token = NoToken \/ row.state # "live" -> "refused"
               [] row.state = "live" /\ fly[f].token \notin {NoToken, row.token} -> "revoke"
               [] OTHER -> "rotate")
  /\ UNCHANGED <<native, row, made, jar, calm, limited, faults>>

\* revoked_at is set.
Revoked == row.state \in {"ended", "reused"}

\* Reuse detection; the error of the statement is ignored, and so is a
\* session that has been revoked meanwhile.
Revoke(f) ==
  /\ At(f, "revoke")
  /\ row' = IF Revoked THEN row ELSE [row EXCEPT !.state = "reused"]
  /\ Goto(f, "refused")
  /\ UNCHANGED <<native, made, jar, calm, limited, faults>>

\* The UPDATE requires a row that is not revoked; otherwise the answer is a
\* server error.  A session that expired since it was read is live again.
Rotate(f) ==
  /\ At(f, "rotate") /\ made < MaxToken
  /\ made' = made + 1
  /\ \/ /\ ~Revoked
        /\ row' = [token |-> made + 1, state |-> "live"]
        /\ fly' = [fly EXCEPT ![f] = [pc |-> "ok", token |-> made + 1]]
     \/ /\ Revoked
        /\ Goto(f, "error")
        /\ UNCHANGED row
  /\ UNCHANGED <<native, jar, calm, limited, faults>>

\* The statement fails: a server error, and nothing written.
DbError(f) ==
  /\ Fault
  /\ fly[f].pc \in {"read", "rotate"}
  /\ Goto(f, "error")
  /\ UNCHANGED <<native, row, made, jar, calm, limited>>

Answer == {"ok", "refused", "limited", "error"}

\* Mutant: a server error drops the token as a refusal does.
ReceiveDrops(f) ==
  /\ fly[f].pc \in Answer
  /\ jar' = IF At(f, "ok") THEN fly[f].token ELSE NoToken
  /\ fly' = [fly EXCEPT ![f] = Idle]
  /\ UNCHANGED <<native, row, made, calm, limited, faults>>

\* "ok" stores the new token.  A refusal clears the cookie, and every other 4xx
\* has the native client drop its token; a 5xx leaves it alone.
Receive(f) ==
  /\ fly[f].pc \in Answer
  /\ jar' = CASE At(f, "ok") -> fly[f].token
              [] At(f, "refused") \/ (At(f, "limited") /\ native) -> NoToken
              [] OTHER -> jar
  /\ fly' = [fly EXCEPT ![f] = Idle]
  /\ UNCHANGED <<native, row, made, calm, limited, faults>>

\* The call fails at the client: before the server acted on it, or
\* after it.  The outcome is "unreachable" and the token is kept.
Unreachable(f) ==
  /\ Fault
  /\ fly[f].pc \in {"read"} \cup Answer
  /\ calm' = (calm /\ ~At(f, "ok"))
  /\ fly' = [fly EXCEPT ![f] = Idle]
  /\ UNCHANGED <<native, row, made, jar, limited>>

-----------------------------------------------------------------------------
(* The session ends otherwise: Logout, LogoutAll, ChangePassword in another
   session, an administrator's change; or its time is up. *)

End ==
  /\ ~Revoked
  /\ row' = [row EXCEPT !.state = "ended"]
  /\ UNCHANGED <<native, made, jar, fly, calm, limited, faults>>

Expire ==
  /\ row.state = "live"
  /\ row' = [row EXCEPT !.state = "expired"]
  /\ UNCHANGED <<native, made, jar, fly, calm, limited, faults>>

RefreshNext ==
  \/ \E f \in Flight : \/ refreshSession(f) \/ Limit(f) \/ GetByID(f) \/ Revoke(f) \/ Rotate(f)
                       \/ DbError(f) \/ Receive(f) \/ Unreachable(f)
  \/ End \/ Expire

RefreshSpec == RefreshInit /\ [][RefreshNext]_refreshVars

-----------------------------------------------------------------------------
(* Properties *)

\* Presenting a stale token is treated as theft; the client of the session
\* never does it, so reuse detection never ends the session of a client
\* whose token nobody else has (client.ts, refreshSession).  Two cases are
\* excepted, in which it does: tabs that renew at the same time, and an answer
\* that is lost after the server has rotated the token.
NoSelfLogout == calm => row.state # "reused"

\* A client that dropped its token did so because the session is over: a
\* server error, a lost request and, in a browser, a rate limit never cost a live
\* session.  A native client that was turned away by a rate limit is excepted:
\* it takes the 429 for a refusal and drops the token of a live session.
DroppedWhenOver == calm /\ ~limited /\ jar = NoToken => row.state # "live"

\* A session that was ended, by a sign-out or by reuse detection, stays so,
\* whatever exchange was under way.
EndedForGood == [][Revoked => row'.state = row.state]_refreshVars
=============================================================================
