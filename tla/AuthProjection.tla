---------------------------- MODULE AuthProjection ----------------------------
(***************************************************************************)
(* The projection of the authentication tables into an isolated Redis      *)
(* namespace during a run: one consumer per origin (src/scripts/           *)
(* cdc_auth368.py, b-integration376-auth.py), the handoff between the two  *)
(* (b-integration376-control.py), and what its audit compares              *)
(* (audit-cdc-auth368.py).                                                 *)
(*                                                                         *)
(* The source's consumer writes each change to the target's tables and to  *)
(* Redis.  From the handoff on the application writes to the target, and   *)
(* the target's consumer projects what follows the boundary.               *)
(*                                                                         *)
(* A row is numbered by the write that made it, and its sid is that number *)
(* too; a hash is the sid and the number of the write that made it.  An    *)
(* expiry is the instant it stands for: conversion between zones and the   *)
(* encryption of the events are left out.                                  *)
(* MySQL, Debezium and Redis are modelled by what these scripts rely on.   *)
(***************************************************************************)
EXTENDS Naturals, Sequences, Functions

CONSTANTS
  Users, Contexts, \* as natural numbers
  MaxWrites,       \* writes of the application
  MaxTime,         \* last instant
  MaxRestarts      \* restarts of a connector's task

ASSUME AuthAssumption ==
  /\ Users \subseteq Nat /\ Contexts \subseteq Nat
  /\ {MaxWrites, MaxTime, MaxRestarts} \subseteq Nat

Origins == {"source", "target"}
Rows == {"login_sessions", "csrf_tokens"} \X (1..MaxWrites)   \* table, primary key
NoRow == [sid |-> 0]
Never == MaxTime + 2

VARIABLES
  table,       \* origin -> the rows of login_sessions and csrf_tokens
  log,         \* origin -> the changes in its binary log
  read,        \* origin -> how much of the log its connector has read
  topic,       \* origin -> the changes it produced, as positions in the log
  committed,   \* origin -> offset of the consumer's group
  at,          \* origin -> where its consumer is with the next event
  now,         \* origin -> time its consumer read
  affected,    \* origin -> users whose index it has yet to settle
  redis,       \* key -> value and expiry
  clock, writes, restarts,
  phase,       \* of the handoff
  boundary     \* auth-handoff.json

dbVars == <<table, log, writes>>
streamVars == <<read, topic, restarts>>
consumerVars == <<committed, at, now, affected>>
handoffVars == <<phase, boundary>>
authVars == <<dbVars, streamVars, consumerVars, redis, clock, handoffVars>>

Init ==
  /\ table = [o \in Origins |-> [p \in Rows |-> NoRow]]
  /\ log = [o \in Origins |-> <<>>] /\ topic = log
  /\ read = [o \in Origins |-> 0] /\ committed = read /\ now = read
  /\ at = [o \in Origins |-> "poll"]
  /\ affected = [o \in Origins |-> {}]
  /\ redis = <<>>
  /\ clock = 0 /\ writes = 0 /\ restarts = 0
  /\ phase = "serving" /\ boundary = 0

-----------------------------------------------------------------------------
(* Redis: keys of the namespace, and the commands the projection sends. *)

Session(sid) == <<"session", sid>>
Refresh(hash) == <<"refresh", hash>>
Index(user) == <<"user-sessions", user>>
Csrf(context) == <<"csrf", context>>

Del(r, keys) == Restrict(r, DOMAIN r \ keys)
Put(r, key, v, t) ==
  [k \in DOMAIN r \cup {key} |-> IF k = key THEN [value |-> v, end |-> t] ELSE r[k]]
Alive(r, t) == Restrict(r, {key \in DOMAIN r : r[key].end > t})

Members(r, user) == IF Index(user) \in DOMAIN r THEN r[Index(user)].value ELSE <<>>

(* A new sorted set has no expiry, an old one keeps its own. *)
ZAdd(r, user, sid, t) ==
  LET old == Members(r, user)
  IN Put(r, Index(user), [s \in DOMAIN old \cup {sid} |-> IF s = sid THEN t ELSE old[s]],
         IF Index(user) \in DOMAIN r THEN r[Index(user)].end ELSE Never)

(* A sorted set without members is gone. *)
ZRem(r, user, sids) ==
  LET kept == Restrict(Members(r, user), DOMAIN Members(r, user) \ sids)
  IN IF DOMAIN kept = {} THEN Del(r, {Index(user)})
                         ELSE Put(r, Index(user), kept, r[Index(user)].end)

(* INDEX_EXPIRY_LUA *)
SettleIndex(r, user, t) ==
  LET q == ZRem(r, user, {sid \in DOMAIN Members(r, user) : Members(r, user)[sid] <= t})
      ends == {Members(q, user)[sid] : sid \in DOMAIN Members(q, user)}
  IN IF ends = {} THEN q
     ELSE Put(q, Index(user), Members(q, user), CHOOSE t1 \in ends : \A t2 \in ends : t2 <= t1)

-----------------------------------------------------------------------------
(* apply_change: what one MULTI does. *)

ForgetSession(r, old, new) ==
  LET q == Del(r, {Refresh(old.hash)})
  IN IF new = NoRow \/ new.sid # old.sid
     THEN ZRem(Del(q, {Session(old.sid)}), old.user, {old.sid})
     ELSE IF new.user # old.user THEN ZRem(q, old.user, {old.sid}) ELSE q

StoreSession(r, new, t) ==
  IF new.end <= t
  THEN ZRem(Del(r, {Session(new.sid), Refresh(new.hash)}), new.user, {new.sid})
  ELSE LET s == Put(r, Session(new.sid), [user |-> new.user, hash |-> new.hash], new.end)
       IN ZAdd(Put(s, Refresh(new.hash), new.sid, new.end), new.user, new.sid, new.end)

\* Faulty: what the old row leaves behind is removed last.
ApplySessionForgetsLast(r, e, t) ==
  LET q == IF e.after = NoRow THEN r ELSE StoreSession(r, e.after, t)
  IN IF e.before = NoRow THEN q ELSE ForgetSession(q, e.before, e.after)

ApplySession(r, e, t) ==
  LET q == IF e.before = NoRow THEN r ELSE ForgetSession(r, e.before, e.after)
  IN IF e.after = NoRow THEN q ELSE StoreSession(q, e.after, t)

ApplyToken(r, e, t) ==
  LET forgets == e.before # NoRow /\ (e.after = NoRow \/ e.after.context # e.before.context)
      q == IF forgets THEN Del(r, {Csrf(e.before.context)}) ELSE r
  IN IF e.after = NoRow THEN q
     ELSE IF e.after.end <= t THEN Del(q, {Csrf(e.after.context)})
     ELSE Put(q, Csrf(e.after.context), e.after.value, e.after.end)

IsCsrf(p) == p[1] = "csrf_tokens"

Apply(r, e, t) == IF IsCsrf(e.row) THEN ApplyToken(r, e, t) ELSE ApplySession(r, e, t)

UsersOf(e) ==
  IF IsCsrf(e.row) THEN {} ELSE {row.user : row \in {e.before, e.after} \ {NoRow}}

-----------------------------------------------------------------------------
(* The application: sessions begin, are refreshed and end; so do CSRF tokens. *)

Authority == IF phase = "open" THEN "target" ELSE "source"

(* A statement that changes nothing is not logged. *)
Logged(l, p, old, new) ==
  IF old = new THEN l ELSE Append(l, [row |-> p, before |-> old, after |-> new])

Write(p, new) ==
  LET o == Authority
  IN /\ phase \in {"serving", "open"}
     /\ writes < MaxWrites /\ writes' = writes + 1
     /\ new # table[o][p]
     /\ table' = [table EXCEPT ![o][p] = new]
     /\ log' = [log EXCEPT ![o] = Logged(@, p, table[o][p], new)]
     /\ UNCHANGED <<streamVars, consumerVars, redis, clock, handoffVars>>

Ends == clock..MaxTime + 1   \* a row may be made to end at once
Later == Ends \ {clock}

LogIn ==
  LET n == writes + 1
  IN \E user \in Users, end \in Later :
       Write(<<"login_sessions", n>>,
             [sid |-> n, user |-> user, hash |-> <<n, n>>, end |-> end])

IssueToken ==
  LET n == writes + 1
      t == table[Authority]
      taken == {t[p].context : p \in {q \in Rows : IsCsrf(q) /\ t[q] # NoRow}}
  IN \E context \in Contexts \ taken, end \in Later :
       Write(<<"csrf_tokens", n>>, [context |-> context, value |-> n, end |-> end])

RenewToken ==
  \E p \in Rows, end \in Ends :
    LET old == table[Authority][p]
    IN /\ IsCsrf(p) /\ old # NoRow
       /\ Write(p, [old EXCEPT !.value = writes + 1, !.end = end])

(* The hash is replaced, or only the expiry. *)
RefreshSession ==
  \E p \in Rows, user \in Users, end \in Ends :
    LET old == table[Authority][p]
    IN /\ ~IsCsrf(p) /\ old # NoRow
       /\ \E hash \in {old.hash, <<old.sid, writes + 1>>} :
            Write(p, [old EXCEPT !.user = user, !.hash = hash, !.end = end])

Remove == \E p \in Rows : Write(p, NoRow)

Application == LogIn \/ IssueToken \/ RenewToken \/ RefreshSession \/ Remove

(* Keys expire while the programs are between two commands. *)
TimePasses ==
  /\ clock < MaxTime /\ clock' = clock + 1
  /\ redis' = Alive(redis, clock')
  /\ UNCHANGED <<dbVars, streamVars, consumerVars, handoffVars>>

-----------------------------------------------------------------------------
(* The connectors, one partition each. *)

Running(o) == o = "target" \/ phase \in {"serving", "fenced"}

Produce(o) ==
  /\ Running(o) /\ read[o] < Len(log[o])
  /\ read' = [read EXCEPT ![o] = @ + 1]
  /\ topic' = [topic EXCEPT ![o] = Append(@, read'[o])]
  /\ UNCHANGED <<restarts, dbVars, consumerVars, redis, clock, handoffVars>>

(* A task that dies is started again from what it flushed last. *)
TaskRestarts(o) ==
  /\ Running(o) /\ restarts < MaxRestarts /\ restarts' = restarts + 1
  /\ \E flushed \in 0..(read[o] - 1) : read' = [read EXCEPT ![o] = flushed]
  /\ UNCHANGED <<topic, dbVars, consumerVars, redis, clock, handoffVars>>

-----------------------------------------------------------------------------
(* The consumers. *)

Polled(o) == committed[o] < Len(topic[o])
Event(o) == log[o][topic[o][committed[o] + 1]]
Position(o) == topic[o][committed[o] + 1]
Step(o, from, to) == at[o] = from /\ at' = [at EXCEPT ![o] = to]

BoundaryKnown == phase \in {"promised", "open"}
AfterBoundary(o) == BoundaryKnown /\ Position(o) > boundary

(* "Target writes before handoff are Source mirrors already projected by Source." *)
Skip ==
  /\ at["target"] = "poll" /\ Polled("target")
  /\ ~AfterBoundary("target")
  /\ committed' = [committed EXCEPT !["target"] = @ + 1]
  /\ UNCHANGED <<dbVars, streamVars, at, now, affected, redis, clock, handoffVars>>

\* Faulty: a row that is there already is left alone.
InsertedOnly(t, e) ==
  IF e.after # NoRow /\ t[e.row] # NoRow THEN t ELSE [t EXCEPT ![e.row] = e.after]

(* INSERT ... ON DUPLICATE KEY UPDATE, or DELETE. *)
Upserted(t, e) == [t EXCEPT ![e.row] = e.after]

(* The event goes to the target's tables, then the time is read for Redis. *)
Mirror ==
  /\ Polled("source") /\ Step("source", "poll", "timed")
  /\ now' = [now EXCEPT !["source"] = clock]
  /\ LET e == Event("source")
     IN /\ table' = [table EXCEPT !["target"] = Upserted(@, e)]
        /\ log' = [log EXCEPT !["target"] =
                     Logged(@, e.row, table["target"][e.row], table'["target"][e.row])]
  /\ UNCHANGED <<writes, streamVars, committed, affected, redis, clock, handoffVars>>

Take ==
  /\ Polled("target") /\ AfterBoundary("target") /\ Step("target", "poll", "timed")
  /\ now' = [now EXCEPT !["target"] = clock]
  /\ UNCHANGED <<dbVars, streamVars, committed, affected, redis, clock, handoffVars>>

(* One transaction; a key given an expiry that has passed is deleted. *)
Execute(o) ==
  /\ Step(o, "timed", "applied")
  /\ redis' = Alive(Apply(redis, Event(o), now[o]), clock)
  /\ affected' = [affected EXCEPT ![o] = UsersOf(Event(o))]
  /\ UNCHANGED <<dbVars, streamVars, committed, now, clock, handoffVars>>

(* The script that settles an index is a command of its own. *)
Settle(o) ==
  /\ at[o] = "applied"
  /\ \E user \in affected[o] :
       /\ redis' = Alive(SettleIndex(redis, user, now[o]), clock)
       /\ affected' = [affected EXCEPT ![o] = @ \ {user}]
  /\ UNCHANGED <<dbVars, streamVars, committed, at, now, clock, handoffVars>>

Commit(o) ==
  /\ affected[o] = {} /\ Step(o, "applied", "poll")
  /\ committed' = [committed EXCEPT ![o] = @ + 1]
  /\ now' = [now EXCEPT ![o] = 0]
  /\ UNCHANGED <<dbVars, streamVars, affected, redis, clock, handoffVars>>

(* A consumer that fails or is killed is started again from its group's offset. *)
Crash(o) ==
  /\ at[o] # "poll" /\ at' = [at EXCEPT ![o] = "poll"]
  /\ now' = [now EXCEPT ![o] = 0] /\ affected' = [affected EXCEPT ![o] = {}]
  /\ UNCHANGED <<dbVars, streamVars, committed, redis, clock, handoffVars>>

Consumer ==
  \/ Skip \/ Mirror \/ Take
  \/ \E o \in Origins : Execute(o) \/ Settle(o) \/ Commit(o) \/ Crash(o)

-----------------------------------------------------------------------------
(* The handoff, as far as authentication takes part in it. *)

Hand(from, to) == phase = from /\ phase' = to
handKeeps == <<dbVars, streamVars, consumerVars, redis, clock>>

FenceSource == Hand("serving", "fenced") /\ UNCHANGED <<boundary, handKeeps>>

(* The marker arrived; the connector flushed all it read, and is stopped. *)
StopConnector ==
  /\ Hand("fenced", "stopped")
  /\ read["source"] = Len(log["source"])
  /\ UNCHANGED <<boundary, handKeeps>>

\* Faulty: the group's lag is not looked at.
WriteBoundaryEarly ==
  /\ Hand("stopped", "promised")
  /\ boundary' = Len(log["target"])
  /\ UNCHANGED handKeeps

(* The proof: the group is at the end of its topic.  The boundary is written before the *)
(* promotion is promised, let alone begun.                                              *)
WriteBoundary ==
  /\ Hand("stopped", "promised")
  /\ committed["source"] = Len(topic["source"])
  /\ boundary' = Len(log["target"])
  /\ UNCHANGED handKeeps

OpenTarget == Hand("promised", "open") /\ UNCHANGED <<boundary, handKeeps>>

Handoff == FenceSource \/ StopConnector \/ WriteBoundary \/ OpenTarget

-----------------------------------------------------------------------------
Next ==
  \/ Application \/ TimePasses \/ Consumer \/ Handoff
  \/ \E o \in Origins : Produce(o) \/ TaskRestarts(o)

AuthSpec == Init /\ [][Next]_authVars

-----------------------------------------------------------------------------
Login(p) == [sid : {p[2]}, user : Users, hash : {p[2]} \X Nat, end : Nat]
Token == [context : Contexts, value : Nat, end : Nat]
RowOf(p) == {NoRow} \cup IF IsCsrf(p) THEN Token ELSE Login(p)

Changes ==
  UNION {[row : {p}, before : RowOf(p), after : RowOf(p)] : p \in Rows}

(* Rows hold what their writes made, and whatever is read, produced or consumed is *)
(* there: a connector within its log, a consumer within its topic.                 *)
AuthTypeOK ==
  /\ table \in [Origins -> [Rows -> UNION {RowOf(p) : p \in Rows}]]
  /\ \A o \in Origins, p \in Rows : table[o][p] \in RowOf(p)
  /\ log \in [Origins -> Seq(Changes)]
  /\ read \in [Origins -> Nat] /\ \A o \in Origins : read[o] <= Len(log[o])
  /\ topic \in [Origins -> Seq(Nat \ {0})]
  /\ \A o \in Origins : \A i \in 1..Len(topic[o]) : topic[o][i] <= Len(log[o])
  /\ committed \in [Origins -> Nat] /\ at \in [Origins -> {"poll", "timed", "applied"}]
  /\ \A o \in Origins : /\ committed[o] <= Len(topic[o])
                        /\ at[o] # "poll" => committed[o] < Len(topic[o])
  /\ now \in [Origins -> 0..MaxTime] /\ affected \in [Origins -> SUBSET Users]
  /\ clock \in 0..MaxTime /\ writes \in 0..MaxWrites /\ restarts \in 0..MaxRestarts
  /\ phase \in {"serving", "fenced", "stopped", "promised", "open"} /\ boundary \in Nat

CaughtUp(o) ==
  /\ read[o] = Len(log[o])
  /\ committed[o] = Len(topic[o])

LiveRows(o) == {p \in Rows : table[o][p] # NoRow /\ table[o][p].end > clock}

(* The entries the audit expects beside the indexes. *)
Expected(o) ==
  UNION {LET row == table[o][p]
         IN IF IsCsrf(p)
            THEN {<<Csrf(row.context), row.value, row.end>>}
            ELSE {<<Session(row.sid), [user |-> row.user, hash |-> row.hash], row.end>>,
                  <<Refresh(row.hash), row.sid, row.end>>} : p \in LiveRows(o)}

Entries == {<<key, redis[key].value, redis[key].end>> :
              key \in {k \in DOMAIN redis : k[1] # "user-sessions"}}

LiveSessions(user) ==
  {<<table[Authority][p].sid, table[Authority][p].end>> :
     p \in {q \in LiveRows(Authority) :
              ~IsCsrf(q) /\ table[Authority][q].user = user}}

(* At lag 0 the namespace is the tables the application writes: sessions, refresh  *)
(* and CSRF tokens with their expiries, none missing, none left over; and no index *)
(* names a session that has ended otherwise than by its expiry.                    *)
Projected ==
  CaughtUp(Authority) =>
    /\ Entries = Expected(Authority)
    /\ \A user \in Users : \A sid \in DOMAIN Members(redis, user) :
         LET end == Members(redis, user)[sid]
         IN end > clock => <<sid, end>> \in LiveSessions(user)

(* At lag 0 of the source's consumer, until the target takes over, the target has *)
(* the source's rows, whatever was delivered twice and wherever the consumer died. *)
TargetMirrors ==
  phase # "open" /\ CaughtUp("source") => table["target"] = table["source"]

(* A session in Redis has the refresh token it names, at every moment: between two *)
(* commands, after a crash, and while old events are delivered once more.          *)
SessionHasToken ==
  \A key \in DOMAIN redis :
    key[1] = "session" =>
      LET token == Refresh(redis[key].value.hash)
      IN /\ token \in DOMAIN redis
         /\ redis[token].value = key[2] /\ redis[token].end = redis[key].end

(* "The index expires with its latest active member" (cdc_auth368.py:140). *)
IndexExpiresWithLatest ==
  CaughtUp(Authority) =>
    \A user \in Users :
      LET ends == {s[2] : s \in LiveSessions(user)}
      IN ends # {} =>
           /\ Index(user) \in DOMAIN redis
           /\ redis[Index(user)].end \in ends
           /\ \A end \in ends : end <= redis[Index(user)].end
=============================================================================
