------------------------- MODULE AuthProjectionProofs -------------------------
(***************************************************************************)
(* Proofs about AuthProjection, for any users and browser contexts and any *)
(* number of writes, ticks of the clock and restarts of a connector.       *)
(***************************************************************************)
EXTENDS AuthProjection, WellFoundedInduction, TLAPS

-----------------------------------------------------------------------------
(* Redis: what the commands keep of sessions and their tokens.              *)

Pairs(r) == \A key \in DOMAIN r : key = <<key[1], key[2]>>

\* The session of a key has its token, and its hash was made for it.
Tokened(r, key) ==
  /\ Refresh(r[key].value.hash) \in DOMAIN r
  /\ r[Refresh(r[key].value.hash)].value = key[2]
  /\ r[Refresh(r[key].value.hash)].end = r[key].end
  /\ r[key].value.hash[1] = key[2]

\* It is so for every session but, perhaps, one.
TokenedBut(r, sid) ==
  \A key \in DOMAIN r : key[1] = "session" /\ key[2] # sid => Tokened(r, key)

AllTokened(r) ==
  \A key \in DOMAIN r : key[1] = "session" => Tokened(r, key)

Sound(r) == Pairs(r) /\ AllTokened(r)
SoundBut(r, sid) == Pairs(r) /\ TokenedBut(r, sid)

\* Removing keys, putting one.
LEMMA DelFacts ==
  ASSUME NEW r, NEW keys
  PROVE  /\ DOMAIN Del(r, keys) = DOMAIN r \ keys
         /\ \A key \in DOMAIN Del(r, keys) : Del(r, keys)[key] = r[key]
  BY DEF Del, Restrict

LEMMA PutFacts ==
  ASSUME NEW r, NEW k, NEW v, NEW t
  PROVE  /\ DOMAIN Put(r, k, v, t) = DOMAIN r \cup {k}
         /\ Put(r, k, v, t)[k] = [value |-> v, end |-> t]
         /\ \A key \in DOMAIN r : key # k => Put(r, k, v, t)[key] = r[key]
  BY DEF Put

\* Indexes and CSRF tokens are other keys: what is done to them is neutral.
Other(key) == key = <<key[1], key[2]>> /\ key[1] \in {"user-sessions", "csrf"}

SessionsKept(r, q) ==
  /\ Pairs(r) => Pairs(q)
  /\ \A key : key[1] \notin {"user-sessions", "csrf"} =>
       /\ key \in DOMAIN q <=> key \in DOMAIN r
       /\ key \in DOMAIN r => q[key] = r[key]

LEMMA OtherKeys ==
  ASSUME NEW x
  PROVE  Other(Index(x)) /\ Other(Csrf(x))
  BY DEF Other, Index, Csrf

LEMMA PutOther ==
  ASSUME NEW r, NEW q, SessionsKept(r, q), NEW k, Other(k), NEW v, NEW t
  PROVE  SessionsKept(r, Put(q, k, v, t))
<1>1. DOMAIN Put(q, k, v, t) = DOMAIN q \cup {k}
  BY PutFacts
<1>2. Pairs(q) => Pairs(Put(q, k, v, t))
  BY <1>1 DEF Pairs, Other
<1>3. ASSUME NEW key, key[1] \notin {"user-sessions", "csrf"}
      PROVE  /\ key \in DOMAIN Put(q, k, v, t) <=> key \in DOMAIN q
             /\ key \in DOMAIN q => Put(q, k, v, t)[key] = q[key]
  <2>1. \A l \in DOMAIN q : l # k => Put(q, k, v, t)[l] = q[l]
    BY DEF Put
  <2>2. key # k
    BY <1>3 DEF Other
  <2> QED
    BY <1>1, <2>1, <2>2
<1> QED
  BY <1>2, <1>3 DEF SessionsKept

LEMMA DelOther ==
  ASSUME NEW r, NEW q, SessionsKept(r, q), NEW k, Other(k)
  PROVE  SessionsKept(r, Del(q, {k}))
<1>1. DOMAIN Del(q, {k}) = DOMAIN q \ {k}
  BY DelFacts
<1>2. Pairs(q) => Pairs(Del(q, {k}))
  BY <1>1 DEF Pairs
<1>3. ASSUME NEW key, key[1] \notin {"user-sessions", "csrf"}
      PROVE  /\ key \in DOMAIN Del(q, {k}) <=> key \in DOMAIN q
             /\ key \in DOMAIN q => Del(q, {k})[key] = q[key]
  <2>1. \A l \in DOMAIN Del(q, {k}) : Del(q, {k})[l] = q[l]
    BY DelFacts
  <2>2. key # k
    BY <1>3 DEF Other
  <2> QED
    BY <1>1, <2>1, <2>2
<1> QED
  BY <1>2, <1>3 DEF SessionsKept

LEMMA Untouched == \A r : SessionsKept(r, r)
  BY DEF SessionsKept

LEMMA ZAddNeutral ==
  ASSUME NEW r, NEW user, NEW sid, NEW t
  PROVE  SessionsKept(r, ZAdd(r, user, sid, t))
  BY PutOther, OtherKeys, Untouched DEF ZAdd

LEMMA ZRemNeutral ==
  ASSUME NEW r, NEW user, NEW sids
  PROVE  SessionsKept(r, ZRem(r, user, sids))
  BY PutOther, DelOther, OtherKeys, Untouched DEF ZRem

LEMMA SettleNeutral ==
  ASSUME NEW r, NEW user, NEW t
  PROVE  SessionsKept(r, SettleIndex(r, user, t))
<1> DEFINE q == ZRem(r, user, {sid \in DOMAIN Members(r, user) : Members(r, user)[sid] <= t})
           ends == {Members(q, user)[sid] : sid \in DOMAIN Members(q, user)}
           last == CHOOSE t1 \in ends : \A t2 \in ends : t2 <= t1
<1>1. SessionsKept(r, q)
  BY ZRemNeutral
<1>2. SettleIndex(r, user, t) \in {q, Put(q, Index(user), Members(q, user), last)}
  BY DEF SettleIndex
<1> HIDE DEF q, last
<1> QED
  BY <1>1, <1>2, PutOther, OtherKeys

LEMMA TokenNeutral ==
  ASSUME NEW r, NEW e, NEW t
  PROVE  SessionsKept(r, ApplyToken(r, e, t))
<1> DEFINE q == IF e.before # NoRow /\ (e.after = NoRow \/ e.after.context # e.before.context)
                THEN Del(r, {Csrf(e.before.context)}) ELSE r
<1>1. SessionsKept(r, q)
  BY DelOther, OtherKeys, Untouched
<1>2. ApplyToken(r, e, t) \in {q, Del(q, {Csrf(e.after.context)}),
                                 Put(q, Csrf(e.after.context), e.after.value, e.after.end)}
  BY DEF ApplyToken
<1> HIDE DEF q
<1> QED
  BY <1>1, <1>2, PutOther, DelOther, OtherKeys

LEMMA KeptIsSound ==
  ASSUME NEW r, NEW q, SessionsKept(r, q)
  PROVE  /\ Sound(r) => Sound(q)
         /\ \A sid : SoundBut(r, sid) => SoundBut(q, sid)
<1>1. \A hash : Refresh(hash)[1] = "refresh"
  BY DEF Refresh
<1>2. ASSUME NEW key \in DOMAIN q, key[1] = "session"
      PROVE  key \in DOMAIN r /\ (Tokened(r, key) => Tokened(q, key))
  BY <1>1, <1>2 DEF Tokened, SessionsKept
<1> QED
  BY <1>2 DEF Sound, SoundBut, AllTokened, TokenedBut, SessionsKept

\* Sessions and tokens expire together.
LEMMA ExpiryKeeps ==
  ASSUME NEW r, NEW t, Sound(r)
  PROVE  Sound(Alive(r, t))
<1> DEFINE q == Alive(r, t)
<1>1. /\ DOMAIN q = {key \in DOMAIN r : r[key].end > t}
      /\ \A key \in DOMAIN q : q[key] = r[key]
  BY DEF Alive, Restrict
<1> HIDE DEF q
<1>2. ASSUME NEW key \in DOMAIN q, key[1] = "session"
      PROVE  Tokened(q, key)
  <2>1. Tokened(r, key)
    BY <1>1, <1>2 DEF Sound, AllTokened
  <2> DEFINE token == Refresh(r[key].value.hash)
  <2>2. token \in DOMAIN q
    BY <1>1, <2>1 DEF Tokened
  <2> QED
    BY <1>1, <2>1, <2>2 DEF Tokened
<1>3. Pairs(q)
  BY <1>1 DEF Sound, Pairs
<1> QED
  BY <1>2, <1>3 DEF Sound, AllTokened, q

-----------------------------------------------------------------------------
(* A change of a session, applied to sound keys, leaves them sound.         *)

LEMMA KeyFacts ==
  ASSUME NEW x, NEW y
  PROVE  /\ Session(x)[1] = "session" /\ Session(x)[2] = x
         /\ Refresh(x)[1] = "refresh" /\ Refresh(x)[2] = x
         /\ Session(x) = <<Session(x)[1], Session(x)[2]>>
         /\ Refresh(x) = <<Refresh(x)[1], Refresh(x)[2]>>
         /\ Session(x) # Refresh(y)
         /\ Refresh(x) = Refresh(y) => x = y
  BY DEF Session, Refresh

LEMMA RowFacts ==
  ASSUME NEW p, ~IsCsrf(p), NEW row \in RowOf(p), row # NoRow
  PROVE  row \in Login(p) /\ row.sid = p[2] /\ row.hash[1] = p[2]
  BY DEF RowOf, Login

\* Deleting a token of sid, or its session, disturbs no other session.
LEMMA DelSound ==
  ASSUME NEW r, NEW sid, SoundBut(r, sid), NEW keys,
         \A k \in keys : k = Session(sid) \/ \E hash : hash[1] = sid /\ k = Refresh(hash)
  PROVE  /\ SoundBut(Del(r, keys), sid)
         /\ Session(sid) \in keys => Sound(Del(r, keys))
<1> DEFINE q == Del(r, keys)
<1>1. /\ DOMAIN q = DOMAIN r \ keys
      /\ \A key \in DOMAIN q : q[key] = r[key]
  BY DEF Del, Restrict
<1> HIDE DEF q
<1>2. Pairs(q)
  BY <1>1 DEF SoundBut, Pairs
<1>3. ASSUME NEW key \in DOMAIN q, key[1] = "session", key[2] # sid
      PROVE  Tokened(q, key)
  <2>1. key \in DOMAIN r /\ Tokened(r, key)
    BY <1>1, <1>3 DEF SoundBut, TokenedBut
  <2> DEFINE token == Refresh(r[key].value.hash)
  <2>2. token \notin keys
    <3>1. token # Session(sid)
      BY KeyFacts
    <3>2. ASSUME NEW hash, hash[1] = sid, token = Refresh(hash)
          PROVE  FALSE
      <4>1. r[key].value.hash = hash
        BY <3>2, KeyFacts
      <4> QED
        BY <4>1, <3>2, <2>1, <1>3 DEF Tokened
    <3> QED
      BY <3>1, <3>2
  <2>3. token \in DOMAIN q
    BY <1>1, <2>1, <2>2 DEF Tokened
  <2> QED
    BY <1>1, <2>1, <2>3 DEF Tokened
<1>4. ASSUME Session(sid) \in keys, NEW key \in DOMAIN q, key[1] = "session"
      PROVE  key[2] # sid
  BY <1>1, <1>2, <1>4 DEF Pairs, Session
<1> QED
  BY <1>2, <1>3, <1>4 DEF Sound, SoundBut, AllTokened, TokenedBut, q

\* A session put with its token.
LEMMA PutSound ==
  ASSUME NEW r, NEW sid, SoundBut(r, sid), NEW user, NEW hash, hash[1] = sid, NEW t
  PROVE  Sound(Put(Put(r, Session(sid), [user |-> user, hash |-> hash], t),
                   Refresh(hash), sid, t))
<1> DEFINE v == [user |-> user, hash |-> hash]
           s == Put(r, Session(sid), v, t)
           q == Put(s, Refresh(hash), sid, t)
<1>1. /\ DOMAIN s = DOMAIN r \cup {Session(sid)}
      /\ s[Session(sid)] = [value |-> v, end |-> t]
      /\ \A key \in DOMAIN r : key # Session(sid) => s[key] = r[key]
  BY DEF Put
<1> HIDE DEF s
<1>2. /\ DOMAIN q = DOMAIN s \cup {Refresh(hash)}
      /\ q[Refresh(hash)] = [value |-> sid, end |-> t]
      /\ \A key \in DOMAIN s : key # Refresh(hash) => q[key] = s[key]
  BY DEF Put
<1> HIDE DEF q
<1>3. Pairs(q)
  BY <1>1, <1>2, KeyFacts DEF SoundBut, Pairs
<1>4. ASSUME NEW key \in DOMAIN q, key[1] = "session"
      PROVE  Tokened(q, key)
  <2>1. key # Refresh(hash) /\ key \in DOMAIN s /\ q[key] = s[key]
    BY <1>2, <1>4, KeyFacts
  <2>2. CASE key[2] = sid
    <3>1. key = Session(sid)
      BY <1>3, <1>4, <2>2 DEF Pairs, Session
    <3>2. q[key].value.hash = hash /\ q[key].end = t
      BY <3>1, <2>1, <1>1
    <3>3. /\ Refresh(hash) \in DOMAIN q
          /\ q[Refresh(hash)].value = sid /\ q[Refresh(hash)].end = t
      BY <1>2
    <3> QED
      BY <3>2, <3>3, <2>2 DEF Tokened
  <2>3. CASE key[2] # sid
    <3>1. key # Session(sid)
      BY <2>3, KeyFacts
    <3>2. key \in DOMAIN r /\ Tokened(r, key) /\ q[key] = r[key]
      BY <1>1, <2>1, <2>3, <3>1, <1>4 DEF SoundBut, TokenedBut
    <3> DEFINE token == Refresh(r[key].value.hash)
    <3>3. token # Session(sid)
      BY KeyFacts
    <3>4. token # Refresh(hash)
      <4>1. SUFFICES ASSUME token = Refresh(hash) PROVE FALSE
        OBVIOUS
      <4>2. r[key].value.hash = hash
        BY <4>1, KeyFacts
      <4> QED
        BY <4>2, <3>2, <2>3 DEF Tokened
    <3>5. token \in DOMAIN q /\ q[token] = r[token]
      BY <1>1, <1>2, <3>2, <3>3, <3>4 DEF Tokened
    <3> QED
      BY <3>2, <3>5 DEF Tokened
  <2> QED
    BY <2>2, <2>3
<1> QED
  BY <1>3, <1>4 DEF Sound, AllTokened, q, s

LEMMA SoundIsSoundBut == \A r, sid : Sound(r) => SoundBut(r, sid)
  BY DEF Sound, SoundBut, AllTokened, TokenedBut

\* What the old row leaves behind is gone; its session may wait for a new token.
LEMMA ForgetSound ==
  ASSUME NEW r, Sound(r), NEW p, ~IsCsrf(p),
         NEW old \in RowOf(p), old # NoRow, NEW new \in RowOf(p)
  PROVE  LET q == ForgetSession(r, old, new)
         IN SoundBut(q, p[2]) /\ (new = NoRow => Sound(q))
<1> DEFINE q == Del(r, {Refresh(old.hash)})
           s == Del(q, {Session(old.sid)})
<1>1. old.sid = p[2] /\ old.hash[1] = p[2] /\ (new # NoRow => new.sid = p[2])
  BY RowFacts
<1>2. SoundBut(q, p[2])
  <2>1. \A k \in {Refresh(old.hash)} : \E hash : hash[1] = p[2] /\ k = Refresh(hash)
    BY <1>1
  <2>2. SoundBut(r, p[2])
    BY SoundIsSoundBut
  <2> QED
    BY <2>1, <2>2, DelSound
<1> HIDE DEF q
<1>3. Sound(s)
  <2>1. \A k \in {Session(old.sid)} : k = Session(p[2])
    BY <1>1
  <2>2. Session(p[2]) \in {Session(old.sid)}
    BY <1>1
  <2> QED
    BY <1>2, <2>1, <2>2, DelSound
<1> HIDE DEF s
<1>4. CASE new = NoRow
  <2>1. ForgetSession(r, old, new) = ZRem(s, old.user, {old.sid})
    BY <1>4 DEF ForgetSession, q, s
  <2>2. Sound(ZRem(s, old.user, {old.sid}))
    BY <1>3, ZRemNeutral, KeptIsSound
  <2> QED
    BY <2>1, <2>2, SoundIsSoundBut
<1>5. CASE new # NoRow
  <2>1. ForgetSession(r, old, new) \in {q, ZRem(q, old.user, {old.sid})}
    BY <1>1, <1>5 DEF ForgetSession, q
  <2>2. SoundBut(ZRem(q, old.user, {old.sid}), p[2])
    BY <1>2, ZRemNeutral, KeptIsSound
  <2> QED
    BY <1>2, <1>5, <2>1, <2>2
<1> QED
  BY <1>4, <1>5

LEMMA StoreSound ==
  ASSUME NEW r, NEW p, ~IsCsrf(p), SoundBut(r, p[2]),
         NEW new \in RowOf(p), new # NoRow, NEW t
  PROVE  Sound(StoreSession(r, new, t))
<1>1. new.sid = p[2] /\ new.hash[1] = p[2]
  BY RowFacts
<1>2. CASE new.end <= t
  <2> DEFINE keys == {Session(new.sid), Refresh(new.hash)}
  <2>1. \A k \in keys : k = Session(p[2]) \/ \E hash : hash[1] = p[2] /\ k = Refresh(hash)
    BY <1>1
  <2>2. Session(p[2]) \in keys
    BY <1>1
  <2> HIDE DEF keys
  <2>3. Sound(Del(r, keys))
    BY <2>1, <2>2, DelSound
  <2>4. StoreSession(r, new, t) = ZRem(Del(r, keys), new.user, {new.sid})
    BY <1>2 DEF StoreSession, keys
  <2> QED
    BY <2>3, <2>4, ZRemNeutral, KeptIsSound
<1>3. CASE ~(new.end <= t)
  <2> DEFINE s == Put(r, Session(new.sid), [user |-> new.user, hash |-> new.hash], new.end)
             q == Put(s, Refresh(new.hash), new.sid, new.end)
  <2>1. Sound(q)
    BY <1>1, PutSound
  <2>2. StoreSession(r, new, t) = ZAdd(q, new.user, new.sid, new.end)
    BY <1>3 DEF StoreSession
  <2> HIDE DEF q
  <2> QED
    BY <2>1, <2>2, ZAddNeutral, KeptIsSound
<1> QED
  BY <1>2, <1>3

\* One MULTI, on the change of any row.
LEMMA ApplySound ==
  ASSUME NEW r, Sound(r), NEW e, NEW t,
         e.before \in RowOf(e.row), e.after \in RowOf(e.row)
  PROVE  Sound(Apply(r, e, t))
<1>1. CASE IsCsrf(e.row)
  BY <1>1, TokenNeutral, KeptIsSound DEF Apply
<1>2. CASE ~IsCsrf(e.row)
  <2> DEFINE q == IF e.before = NoRow THEN r ELSE ForgetSession(r, e.before, e.after)
  <2>1. SoundBut(q, e.row[2]) /\ (e.after = NoRow => Sound(q))
    <3>1. CASE e.before = NoRow
      BY <3>1, SoundIsSoundBut
    <3>2. CASE e.before # NoRow
      BY <3>2, <1>2, ForgetSound
    <3> QED
      BY <3>1, <3>2
  <2> HIDE DEF q
  <2>2. e.after # NoRow => Sound(StoreSession(q, e.after, t))
    BY <1>2, <2>1, StoreSound
  <2>3. Apply(r, e, t) = IF e.after = NoRow THEN q ELSE StoreSession(q, e.after, t)
    BY <1>2 DEF Apply, ApplySession, q
  <2> QED
    BY <2>1, <2>2, <2>3
<1> QED
  BY <1>1, <1>2

-----------------------------------------------------------------------------
(* Types.                                                                   *)

LEMMA ChangeFacts ==
  ASSUME NEW e \in Changes
  PROVE  e.row \in Rows /\ e.before \in RowOf(e.row) /\ e.after \in RowOf(e.row)
<1>1. PICK p \in Rows : e \in [row : {p}, before : RowOf(p), after : RowOf(p)]
  BY DEF Changes
<1> QED
  BY <1>1

LEMMA ChangeMade ==
  ASSUME NEW p \in Rows, NEW old \in RowOf(p), NEW new \in RowOf(p)
  PROVE  [row |-> p, before |-> old, after |-> new] \in Changes
  BY DEF Changes

LEMMA LoggedFacts ==
  ASSUME NEW l \in Seq(Changes), NEW p \in Rows, NEW old \in RowOf(p), NEW new \in RowOf(p)
  PROVE  /\ Logged(l, p, old, new) \in Seq(Changes)
         /\ Len(Logged(l, p, old, new)) >= Len(l)
         /\ \A i \in 1..Len(l) : Logged(l, p, old, new)[i] = l[i]
<1> DEFINE e == [row |-> p, before |-> old, after |-> new]
<1>1. e \in Changes
  BY ChangeMade
<1> HIDE DEF e
<1>2. CASE old = new
  BY <1>2 DEF Logged
<1>3. CASE old # new
  <2>1. Logged(l, p, old, new) = Append(l, e)
    BY <1>3 DEF Logged, e
  <2> QED
    BY <1>1, <2>1
<1> QED
  BY <1>2, <1>3

\* Every operation of the application writes a row of its own type.
LEMMA ApplicationWrites ==
  ASSUME AuthTypeOK, Application
  PROVE  \E p \in Rows : \E new \in RowOf(p) : Write(p, new)
<1> USE AuthAssumption
<1>1. clock \in Nat /\ writes \in Nat /\ Ends \subseteq Nat
  BY DEF AuthTypeOK, Ends
<1>2. CASE LogIn
  <2> DEFINE p == <<"login_sessions", writes + 1>>
  <2>1. PICK user \in Users, end \in Later :
          Write(p, [sid |-> writes + 1, user |-> user, hash |-> <<writes + 1, writes + 1>>,
                    end |-> end])
    BY <1>2 DEF LogIn
  <2>2. p \in Rows /\ ~IsCsrf(p) /\ p[2] = writes + 1
    BY <1>1, <2>1 DEF Write, Rows, IsCsrf
  <2>3. [sid |-> writes + 1, user |-> user, hash |-> <<writes + 1, writes + 1>>, end |-> end]
          \in RowOf(p)
    BY <1>1, <2>2 DEF RowOf, Login, Later
  <2> QED
    BY <2>1, <2>2, <2>3
<1>3. CASE IssueToken
  <2> DEFINE p == <<"csrf_tokens", writes + 1>>
  <2>1. PICK context \in Contexts, end \in Later :
          Write(p, [context |-> context, value |-> writes + 1, end |-> end])
    BY <1>3 DEF IssueToken
  <2>2. p \in Rows /\ IsCsrf(p)
    BY <1>1, <2>1 DEF Write, Rows, IsCsrf
  <2>3. [context |-> context, value |-> writes + 1, end |-> end] \in RowOf(p)
    BY <1>1, <2>2 DEF RowOf, Token, Later
  <2> QED
    BY <2>1, <2>2, <2>3
<1>4. Authority \in Origins
  BY DEF Authority, Origins
<1>5. CASE RenewToken
  <2>1. PICK p \in Rows, end \in Ends :
          /\ IsCsrf(p) /\ table[Authority][p] # NoRow
          /\ Write(p, [table[Authority][p] EXCEPT !.value = writes + 1, !.end = end])
    BY <1>5 DEF RenewToken
  <2>2. table[Authority][p] \in Token
    BY <1>4, <2>1 DEF AuthTypeOK, RowOf
  <2>3. writes + 1 \in Nat /\ end \in Nat
    BY <1>1
  <2>4. [table[Authority][p] EXCEPT !.value = writes + 1, !.end = end] \in Token
    BY <2>2, <2>3 DEF Token
  <2>5. [table[Authority][p] EXCEPT !.value = writes + 1, !.end = end] \in RowOf(p)
    BY <2>1, <2>4 DEF RowOf
  <2> QED
    BY <2>1, <2>5
<1>6. CASE RefreshSession
  <2>1. PICK p \in Rows, user \in Users, end \in Ends :
          /\ ~IsCsrf(p) /\ table[Authority][p] # NoRow
          /\ \E hash \in {table[Authority][p].hash, <<table[Authority][p].sid, writes + 1>>} :
               Write(p, [table[Authority][p] EXCEPT !.user = user, !.hash = hash, !.end = end])
    BY <1>6 DEF RefreshSession
  <2>2. PICK hash \in {table[Authority][p].hash, <<table[Authority][p].sid, writes + 1>>} :
          Write(p, [table[Authority][p] EXCEPT !.user = user, !.hash = hash, !.end = end])
    BY <2>1
  <2>3. table[Authority][p] \in Login(p)
    BY <1>4, <2>1 DEF AuthTypeOK, RowOf
  <2>4. hash \in {p[2]} \X Nat
    BY <1>1, <2>2, <2>3 DEF Login
  <2>5. [table[Authority][p] EXCEPT !.user = user, !.hash = hash, !.end = end] \in RowOf(p)
    BY <1>1, <2>1, <2>3, <2>4 DEF RowOf, Login
  <2> QED
    BY <2>2, <2>5
<1>7. CASE Remove
  BY <1>7 DEF Remove, RowOf
<1> QED
  BY <1>2, <1>3, <1>5, <1>6, <1>7 DEF Application, LogIn, IssueToken

LEMMA EventFacts ==
  ASSUME AuthTypeOK, NEW o \in Origins, Polled(o)
  PROVE  /\ Position(o) \in 1..Len(log[o])
         /\ Event(o) = log[o][Position(o)] /\ Event(o) \in Changes
<1>1. committed[o] + 1 \in 1..Len(topic[o])
  BY DEF AuthTypeOK, Polled
<1>2. Position(o) \in Nat \ {0} /\ Position(o) <= Len(log[o])
  BY <1>1 DEF AuthTypeOK, Position
<1> QED
  BY SMTT(30), <1>2 DEF AuthTypeOK, Event, Position

LEMMA InitType == Init => AuthTypeOK
  BY AuthAssumption DEF Init, AuthTypeOK, Origins, RowOf

LEMMA WriteType ==
  ASSUME AuthTypeOK, NEW p \in Rows, NEW new \in RowOf(p), Write(p, new)
  PROVE  AuthTypeOK'
<1> DEFINE o == Authority
<1>1. o \in Origins
  BY DEF Authority, Origins
<1>2. table[o][p] \in RowOf(p)
  BY <1>1 DEF AuthTypeOK
<1> DEFINE l == Logged(log[o], p, table[o][p], new)
<1>3. l \in Seq(Changes) /\ Len(l) >= Len(log[o])
  BY <1>1, <1>2, LoggedFacts DEF AuthTypeOK
<1>4. table' = [table EXCEPT ![o][p] = new] /\ log' = [log EXCEPT ![o] = l]
  BY DEF Write
<1> HIDE DEF l
<1>5. /\ table' \in [Origins -> [Rows -> UNION {RowOf(q) : q \in Rows}]]
      /\ \A x \in Origins, q \in Rows : table'[x][q] \in RowOf(q)
  BY <1>1, <1>4 DEF AuthTypeOK
<1>6. /\ log' \in [Origins -> Seq(Changes)]
      /\ \A x \in Origins : Len(log'[x]) >= Len(log[x])
  BY <1>1, <1>3, <1>4 DEF AuthTypeOK
<1>7. /\ \A x \in Origins : read[x] <= Len(log'[x])
      /\ \A x \in Origins : \A i \in 1..Len(topic[x]) : topic[x][i] <= Len(log'[x])
  <2> SUFFICES ASSUME NEW x \in Origins
               PROVE  /\ read[x] <= Len(log'[x])
                      /\ \A i \in 1..Len(topic[x]) : topic[x][i] <= Len(log'[x])
    OBVIOUS
  <2>1. Len(log[x]) \in Nat /\ Len(log'[x]) \in Nat /\ Len(log'[x]) >= Len(log[x])
    BY <1>6 DEF AuthTypeOK
  <2>2. read[x] \in Nat /\ read[x] <= Len(log[x])
    BY DEF AuthTypeOK
  <2>3. \A i \in 1..Len(topic[x]) : topic[x][i] \in Nat /\ topic[x][i] <= Len(log[x])
    BY DEF AuthTypeOK
  <2> QED
    BY <2>1, <2>2, <2>3
<1>8. writes' \in 0..MaxWrites
  BY AuthAssumption DEF AuthTypeOK, Write
<1> QED
  BY <1>5, <1>6, <1>7, <1>8
     DEF AuthTypeOK, Write, streamVars, consumerVars, handoffVars

LEMMA MirrorType ==
  ASSUME AuthTypeOK, Mirror
  PROVE  AuthTypeOK'
<1> DEFINE e == Event("source")
           old == table["target"][e.row]
           l == Logged(log["target"], e.row, old, e.after)
<1>1. {"source", "target"} = Origins
  BY DEF Origins
<1>2. e \in Changes
  BY <1>1, EventFacts DEF Mirror
<1>3. e.row \in Rows /\ e.after \in RowOf(e.row) /\ old \in RowOf(e.row)
  BY <1>1, <1>2, ChangeFacts DEF AuthTypeOK
<1>4. l \in Seq(Changes) /\ Len(l) >= Len(log["target"])
  BY <1>1, <1>3, LoggedFacts DEF AuthTypeOK
<1>5. table' = [table EXCEPT !["target"] = [@ EXCEPT ![e.row] = e.after]]
  BY DEF Mirror, Upserted
<1>6. table'["target"][e.row] = e.after
  BY <1>1, <1>3, <1>5 DEF AuthTypeOK
<1>7. log' = [log EXCEPT !["target"] = l]
  BY <1>6 DEF Mirror
<1> HIDE DEF l, e, old
<1>8. /\ table' \in [Origins -> [Rows -> UNION {RowOf(q) : q \in Rows}]]
      /\ \A x \in Origins, q \in Rows : table'[x][q] \in RowOf(q)
  BY <1>1, <1>3, <1>5 DEF AuthTypeOK
<1>9. /\ log' \in [Origins -> Seq(Changes)]
      /\ \A x \in Origins : Len(log'[x]) >= Len(log[x])
  BY <1>1, <1>4, <1>7 DEF AuthTypeOK
<1>10. /\ \A x \in Origins : read[x] <= Len(log'[x])
       /\ \A x \in Origins : \A i \in 1..Len(topic[x]) : topic[x][i] <= Len(log'[x])
  <2> SUFFICES ASSUME NEW x \in Origins
               PROVE  /\ read[x] <= Len(log'[x])
                      /\ \A i \in 1..Len(topic[x]) : topic[x][i] <= Len(log'[x])
    OBVIOUS
  <2>1. Len(log[x]) \in Nat /\ Len(log'[x]) \in Nat /\ Len(log'[x]) >= Len(log[x])
    BY <1>9 DEF AuthTypeOK
  <2>2. read[x] \in Nat /\ read[x] <= Len(log[x])
    BY DEF AuthTypeOK
  <2>3. \A i \in 1..Len(topic[x]) : topic[x][i] \in Nat /\ topic[x][i] <= Len(log[x])
    BY DEF AuthTypeOK
  <2> QED
    BY <2>1, <2>2, <2>3
<1>11. /\ at' \in [Origins -> {"poll", "timed", "applied"}]
       /\ \A o \in Origins : at'[o] # "poll" => committed[o] < Len(topic[o])
       /\ now' \in [Origins -> 0..MaxTime]
  BY <1>1 DEF AuthTypeOK, Mirror, Step, Polled
<1> QED
  BY <1>8, <1>9, <1>10, <1>11 DEF AuthTypeOK, Mirror, streamVars, handoffVars

LEMMA ProduceType ==
  ASSUME AuthTypeOK, NEW o \in Origins, Produce(o)
  PROVE  AuthTypeOK'
<1>1. /\ read[o] + 1 \in Nat \ {0} /\ read[o] + 1 <= Len(log[o])
      /\ read' = [read EXCEPT ![o] = read[o] + 1]
      /\ topic' = [topic EXCEPT ![o] = Append(topic[o], read[o] + 1)]
  BY DEF AuthTypeOK, Produce
<1>2. topic' \in [Origins -> Seq(Nat \ {0})]
  BY <1>1 DEF AuthTypeOK
<1>3. ASSUME NEW x \in Origins
      PROVE  /\ Len(topic'[x]) >= Len(topic[x])
             /\ \A i \in 1..Len(topic'[x]) : topic'[x][i] <= Len(log[x])
  <2>0. \A i \in 1..Len(topic[x]) : topic[x][i] <= Len(log[x])
    BY DEF AuthTypeOK
  <2>1. CASE x = o
    <3>1. topic'[x] = Append(topic[x], read[o] + 1) /\ topic[x] \in Seq(Nat \ {0})
      BY <1>1, <2>1 DEF AuthTypeOK
    <3>2. read[o] + 1 <= Len(log[x])
      BY <1>1, <2>1
    <3> QED
      BY <2>0, <3>1, <3>2
  <2>2. CASE x # o
    <3>1. topic'[x] = topic[x] /\ Len(topic[x]) \in Nat
      BY <1>1, <2>2 DEF AuthTypeOK
    <3> QED
      BY <2>0, <3>1
  <2> QED
    BY <2>1, <2>2
<1>4. ASSUME NEW x \in Origins
      PROVE  /\ committed[x] <= Len(topic'[x])
             /\ at[x] # "poll" => committed[x] < Len(topic'[x])
  <2>1. /\ Len(topic[x]) \in Nat /\ Len(topic'[x]) \in Nat
        /\ Len(topic'[x]) >= Len(topic[x])
    BY SMTT(30), <1>2, <1>3 DEF AuthTypeOK
  <2>2. /\ committed[x] \in Nat /\ committed[x] <= Len(topic[x])
        /\ at[x] # "poll" => committed[x] < Len(topic[x])
    BY DEF AuthTypeOK
  <2> QED
    BY <2>1, <2>2
<1>5. read' \in [Origins -> Nat] /\ \A x \in Origins : read'[x] <= Len(log[x])
  BY <1>1 DEF AuthTypeOK
<1> QED
  BY <1>2, <1>3, <1>4, <1>5 DEF AuthTypeOK, Produce, dbVars, consumerVars, handoffVars

LEMMA RestartType ==
  ASSUME AuthTypeOK, NEW o \in Origins, TaskRestarts(o)
  PROVE  AuthTypeOK'
<1>1. PICK flushed \in 0..(read[o] - 1) : read' = [read EXCEPT ![o] = flushed]
  BY DEF TaskRestarts
<1>2. read' \in [Origins -> Nat] /\ \A x \in Origins : read'[x] <= Len(log[x])
  BY <1>1 DEF AuthTypeOK
<1>3. restarts' \in 0..MaxRestarts
  BY SMTT(30), AuthAssumption DEF AuthTypeOK, TaskRestarts
<1> QED
  BY <1>2, <1>3 DEF AuthTypeOK, TaskRestarts, dbVars, consumerVars, handoffVars

LEMMA ConsumerType ==
  ASSUME AuthTypeOK, NEW o \in Origins
  PROVE  /\ Skip => AuthTypeOK'
         /\ Take => AuthTypeOK'
         /\ Execute(o) => AuthTypeOK'
         /\ Settle(o) => AuthTypeOK'
         /\ Commit(o) => AuthTypeOK'
         /\ Crash(o) => AuthTypeOK'
<1>0. "target" \in Origins
  BY DEF Origins
<1> USE AuthAssumption
<1>b. /\ committed \in [Origins -> Nat] /\ at \in [Origins -> {"poll", "timed", "applied"}]
      /\ now \in [Origins -> 0..MaxTime] /\ 0 \in 0..MaxTime
      /\ \A x \in Origins : /\ committed[x] \in Nat /\ Len(topic[x]) \in Nat
                            /\ committed[x] <= Len(topic[x])
                            /\ at[x] # "poll" => committed[x] < Len(topic[x])
  BY DEF AuthTypeOK
<1>1. ASSUME Skip PROVE AuthTypeOK'
  <2>1. /\ committed' = [committed EXCEPT !["target"] = committed["target"] + 1]
        /\ at["target"] = "poll" /\ committed["target"] < Len(topic["target"])
        /\ UNCHANGED <<table, log, writes, read, topic, restarts, at, now, affected, clock,
                       phase, boundary>>
    BY <1>1 DEF Skip, Polled, dbVars, streamVars, handoffVars
  <2>2. committed' \in [Origins -> Nat]
    BY <1>0, <1>b, <2>1
  <2>3. ASSUME NEW x \in Origins
        PROVE  /\ committed'[x] <= Len(topic[x])
               /\ at[x] # "poll" => committed'[x] < Len(topic[x])
    BY <1>0, <1>b, <2>1
  <2> QED
    BY <2>1, <2>2, <2>3 DEF AuthTypeOK
<1>2. ASSUME Take PROVE AuthTypeOK'
  BY <1>0, <1>2 DEF AuthTypeOK, Take, Polled, Step, dbVars, streamVars, handoffVars
<1>3. ASSUME Execute(o) PROVE AuthTypeOK'
  <2>1. UsersOf(Event(o)) \in SUBSET Users
    <3>1. Polled(o)
      BY <1>3 DEF Execute, Step, Polled, AuthTypeOK
    <3>2. /\ Event(o).row \in Rows
          /\ Event(o).before \in RowOf(Event(o).row) /\ Event(o).after \in RowOf(Event(o).row)
      BY <3>1, EventFacts, ChangeFacts
    <3> QED
      BY <3>2 DEF UsersOf, RowOf, Login
  <2> QED
    BY <1>3, <2>1 DEF AuthTypeOK, Execute, Step, dbVars, streamVars, handoffVars
<1>4. ASSUME Settle(o) PROVE AuthTypeOK'
  BY <1>4 DEF AuthTypeOK, Settle, dbVars, streamVars, handoffVars
<1>5. ASSUME Commit(o) PROVE AuthTypeOK'
  <2>1. /\ committed' = [committed EXCEPT ![o] = committed[o] + 1]
        /\ at[o] # "poll" /\ at' = [at EXCEPT ![o] = "poll"]
        /\ now' = [now EXCEPT ![o] = 0]
        /\ UNCHANGED <<table, log, writes, read, topic, restarts, affected, clock,
                       phase, boundary>>
    BY <1>5 DEF Commit, Step, dbVars, streamVars, handoffVars
  <2>2. /\ committed' \in [Origins -> Nat] /\ at' \in [Origins -> {"poll", "timed", "applied"}]
        /\ now' \in [Origins -> 0..MaxTime]
    BY <1>b, <2>1
  <2>3. ASSUME NEW x \in Origins
        PROVE  /\ committed'[x] <= Len(topic[x])
               /\ at'[x] # "poll" => committed'[x] < Len(topic[x])
    BY <1>b, <2>1
  <2> QED
    BY <2>1, <2>2, <2>3 DEF AuthTypeOK
<1>6. ASSUME Crash(o) PROVE AuthTypeOK'
  <2>1. /\ at' = [at EXCEPT ![o] = "poll"] /\ now' = [now EXCEPT ![o] = 0]
        /\ affected' = [affected EXCEPT ![o] = {}]
        /\ UNCHANGED <<table, log, writes, read, topic, restarts, committed, clock,
                       phase, boundary>>
    BY <1>6 DEF Crash, dbVars, streamVars, handoffVars
  <2>2. /\ at' \in [Origins -> {"poll", "timed", "applied"}]
        /\ now' \in [Origins -> 0..MaxTime] /\ affected' \in [Origins -> SUBSET Users]
    BY <2>1 DEF AuthTypeOK
  <2>3. \A x \in Origins : at'[x] # "poll" => committed[x] < Len(topic[x])
    BY <2>1 DEF AuthTypeOK
  <2> QED
    BY <2>1, <2>2, <2>3 DEF AuthTypeOK
<1> QED
  BY <1>1, <1>2, <1>3, <1>4, <1>5, <1>6

LEMMA HandoffType ==
  ASSUME AuthTypeOK, Handoff
  PROVE  AuthTypeOK'
<1>0. "target" \in Origins
  BY DEF Origins
<1>1. Len(log["target"]) \in Nat
  BY <1>0 DEF AuthTypeOK
<1> QED
  BY <1>1 DEF AuthTypeOK, Handoff, FenceSource, StopConnector, WriteBoundary, OpenTarget,
              Hand, handKeeps, dbVars, streamVars, consumerVars

LEMMA TimeType ==
  ASSUME AuthTypeOK, TimePasses
  PROVE  AuthTypeOK'
  BY AuthAssumption DEF AuthTypeOK, TimePasses, dbVars, streamVars, consumerVars, handoffVars

LEMMA StutterType ==
  ASSUME AuthTypeOK, UNCHANGED authVars
  PROVE  AuthTypeOK'
  BY DEF AuthTypeOK, authVars, dbVars, streamVars, consumerVars, handoffVars

LEMMA StepType ==
  ASSUME AuthTypeOK, [Next]_authVars
  PROVE  AuthTypeOK'
<1>1. CASE Application
  BY <1>1, ApplicationWrites, WriteType
<1>2. CASE Consumer
  BY <1>2, ConsumerType, MirrorType DEF Consumer, Origins
<1>3. CASE \E o \in Origins : Produce(o) \/ TaskRestarts(o)
  BY <1>3, ProduceType, RestartType
<1> QED
  BY <1>1, <1>2, <1>3, TimeType, HandoffType, StutterType DEF Next

\* Rows have their types, connectors stay within their logs, consumers within their topics.
THEOREM AuthTypesKept == AuthSpec => []AuthTypeOK
<1>1. Init => AuthTypeOK
  BY InitType
<1>2. AuthTypeOK /\ [Next]_authVars => AuthTypeOK'
  BY StepType
<1> QED
  BY <1>1, <1>2, PTL DEF AuthSpec

-----------------------------------------------------------------------------
(* A session in Redis has its token: every command keeps the keys sound.    *)

LEMMA InitSound == Init => Sound(redis)
  BY DEF Init, Sound, Pairs, AllTokened

LEMMA StepSound ==
  ASSUME AuthTypeOK, Sound(redis), [Next]_authVars
  PROVE  Sound(redis')
<1>1. CASE TimePasses
  BY <1>1, ExpiryKeeps DEF TimePasses
<1>2. ASSUME NEW o \in Origins, Execute(o)
      PROVE  Sound(redis')
  <2>1. Polled(o)
    BY <1>2 DEF Execute, Step, Polled, AuthTypeOK
  <2>2. /\ Event(o).before \in RowOf(Event(o).row)
        /\ Event(o).after \in RowOf(Event(o).row)
    BY <2>1, EventFacts, ChangeFacts
  <2>3. Sound(Apply(redis, Event(o), now[o]))
    BY <2>2, ApplySound
  <2> QED
    BY <1>2, <2>3, ExpiryKeeps DEF Execute
<1>3. ASSUME NEW o \in Origins, Settle(o)
      PROVE  Sound(redis')
  <2>1. PICK user : redis' = Alive(SettleIndex(redis, user, now[o]), clock)
    BY <1>3 DEF Settle
  <2>2. Sound(SettleIndex(redis, user, now[o]))
    BY SettleNeutral, KeptIsSound
  <2> QED
    BY <2>1, <2>2, ExpiryKeeps
<1>4. CASE Application
  <2>1. UNCHANGED redis
    BY <1>4, ApplicationWrites DEF Write
  <2> QED
    BY <2>1
<1>5. CASE Handoff
  BY <1>5 DEF Handoff, FenceSource, StopConnector, WriteBoundary, OpenTarget, handKeeps
<1>6. CASE \E o \in Origins : Produce(o) \/ TaskRestarts(o)
  BY <1>6 DEF Produce, TaskRestarts
<1>7. CASE Skip \/ Mirror \/ Take \/ \E o \in Origins : Commit(o) \/ Crash(o)
  BY <1>7 DEF Skip, Mirror, Take, Commit, Crash
<1>8. CASE UNCHANGED authVars
  BY <1>8 DEF authVars
<1> QED
  BY <1>1, <1>2, <1>3, <1>4, <1>5, <1>6, <1>7, <1>8 DEF Next, Consumer

LEMMA SoundHasTokens == Sound(redis) => SessionHasToken
  BY DEF Sound, AllTokened, Tokened, SessionHasToken

\* A session in Redis has the refresh token it names at every moment, whatever was delivered
\* again and wherever a consumer died.
THEOREM SessionsHaveTokens == AuthSpec => []SessionHasToken
<1>1. Init => AuthTypeOK /\ Sound(redis)
  BY InitType, InitSound
<1>2. AuthTypeOK /\ Sound(redis) /\ [Next]_authVars => AuthTypeOK' /\ Sound(redis)'
  BY StepType, StepSound
<1> QED
  BY <1>1, <1>2, SoundHasTokens, PTL DEF AuthSpec
-----------------------------------------------------------------------------
(* Streams: what a connector produces skips nothing, however often it goes back, *)
(* and so a consumer of it skips nothing either.                                 *)

\* s is what a connector produced that is now behind change n.
Gapless(s, n) ==
  /\ Len(s) = 0 => n = 0
  /\ Len(s) > 0 => s[1] = 1 /\ n <= s[Len(s)]
  /\ \A i \in 1..Len(s) - 1 : s[i + 1] <= s[i] + 1

\* How far a consumer got that committed c events of s; it may be past the next one.
Reached(s, c, past) ==
  IF past THEN s[c + 1]
  ELSE IF c < Len(s) THEN s[c + 1] - 1
  ELSE IF c = 0 THEN 0 ELSE s[c]

LEMMA ReachedType ==
  ASSUME NEW s \in Seq(Nat \ {0}), NEW c \in Nat, c <= Len(s),
         NEW past \in BOOLEAN, past => c < Len(s),
         NEW n \in Nat, \A i \in 1..Len(s) : s[i] <= n
  PROVE  Reached(s, c, past) \in Nat /\ Reached(s, c, past) <= n
<1>1. /\ Len(s) \in Nat
      /\ c < Len(s) => s[c + 1] \in Nat \ {0} /\ s[c + 1] <= n
      /\ c # 0 => s[c] \in Nat \ {0} /\ s[c] <= n
  OBVIOUS
<1> QED
  BY <1>1 DEF Reached

LEMMA ReachedLonger ==
  ASSUME NEW s \in Seq(Nat \ {0}), NEW n \in Nat, Gapless(s, n),
         NEW c \in Nat, c <= Len(s), NEW past \in BOOLEAN, past => c < Len(s)
  PROVE  /\ Gapless(Append(s, n + 1), n + 1)
         /\ Reached(Append(s, n + 1), c, past) <= Reached(s, c, past)
<1> DEFINE m == n + 1
           f == Append(s, m)
<1>1. m \in Nat \ {0}
  OBVIOUS
<1> HIDE DEF m
<1>2. /\ Len(f) = Len(s) + 1 /\ Len(s) \in Nat /\ f[Len(s) + 1] = m
      /\ \A i \in 1..Len(s) : f[i] = s[i] /\ s[i] \in Nat \ {0}
  BY <1>1
<1> HIDE DEF f
<1>3. /\ Len(s) = 0 => m = 1
      /\ Len(s) > 0 => m <= s[Len(s)] + 1 /\ s[1] = 1
  BY <1>2 DEF Gapless, m
<1>4. ASSUME NEW i \in 1..Len(f) - 1 PROVE f[i + 1] <= f[i] + 1
  <2>1. CASE i = Len(s)
    BY <1>2, <1>3, <2>1
  <2>2. CASE i # Len(s)
    <3>1. i \in 1..Len(s) - 1 /\ i + 1 \in 1..Len(s) /\ i \in 1..Len(s)
      BY <1>2, <2>2
    <3> QED
      BY <1>2, <3>1 DEF Gapless
  <2> QED
    BY <2>1, <2>2
<1>5. Gapless(f, m)
  <2>1. Len(f) > 0 /\ Len(f) # 0 /\ m <= f[Len(f)]
    BY <1>1, <1>2
  <2>2. f[1] = 1
    BY <1>2, <1>3
  <2> QED
    BY <1>4, <2>1, <2>2 DEF Gapless
<1>6. Reached(f, c, past) <= Reached(s, c, past)
  <2>1. CASE c < Len(s)
    <3>1. c + 1 \in 1..Len(s) /\ f[c + 1] = s[c + 1] /\ c < Len(f) /\ s[c + 1] \in Nat
      BY <1>2, <2>1
    <3> QED
      BY <2>1, <3>1 DEF Reached
  <2>2. CASE c = Len(s)
    <3>1. ~past /\ c < Len(f) /\ f[c + 1] = m
      BY <1>2, <2>2
    <3>2. Reached(f, c, past) = m - 1
      BY <3>1 DEF Reached
    <3>3. Reached(s, c, past) = IF c = 0 THEN 0 ELSE s[c]
      BY <1>2, <2>2, <3>1 DEF Reached
    <3> QED
      BY <1>1, <1>2, <1>3, <2>2, <3>2, <3>3
  <2> QED
    BY <1>2, <2>1, <2>2
<1> QED
  BY <1>5, <1>6 DEF f, m

LEMMA ReachedNext ==
  ASSUME NEW s \in Seq(Nat \ {0}), NEW n, Gapless(s, n), NEW c \in Nat, c < Len(s)
  PROVE  Reached(s, c + 1, FALSE) <= s[c + 1]
<1>1. /\ Len(s) \in Nat /\ s[c + 1] \in Nat
      /\ c + 1 < Len(s) => s[(c + 1) + 1] <= s[c + 1] + 1 /\ s[(c + 1) + 1] \in Nat
  BY DEF Gapless
<1> QED
  BY <1>1 DEF Reached

\* At lag 0 a consumer is where its connector is.
LEMMA ReachedEnd ==
  ASSUME NEW s \in Seq(Nat \ {0}), NEW n \in Nat, Gapless(s, n)
  PROVE  Reached(s, Len(s), FALSE) >= n
<1>1. Len(s) \in Nat /\ (Len(s) > 0 => s[Len(s)] \in Nat)
  OBVIOUS
<1> QED
  BY <1>1 DEF Reached, Gapless


-----------------------------------------------------------------------------
(* The target mirrors the source.  A row the consumer has written is as the   *)
(* source's log left it after some number of changes: never fewer than what  *)
(* was applied last, though that may be an old change delivered again.        *)

L == log["source"]
T == topic["source"]
done == committed["source"]

\* After k changes of log l, row p is v.
RowAt(l, p, k, v) ==
  \/ v = NoRow /\ \A i \in 1..k : l[i].row # p
  \/ \E i \in 1..k : l[i].row = p /\ l[i].after = v /\ \A j \in (i + 1)..k : l[j].row # p

\* The table is where the log ends.
SourceAtEnd == \A p \in Rows : RowAt(L, p, Len(L), table["source"][p])

\* What is delivered again begins anywhere before, but never skips a change.
NoGap == Gapless(T, read["source"])

\* The event it holds is in the tables, if not yet in Redis.
Applied == Reached(T, done, at["source"] # "poll")

TargetBehind ==
  phase # "open" =>
    \A p \in Rows : \E k \in Nat :
      Applied <= k /\ k <= Len(L) /\ RowAt(L, p, k, table["target"][p])

MirrorInv == AuthTypeOK /\ SourceAtEnd /\ NoGap /\ TargetBehind

LEMMA RowAtUnique ==
  ASSUME NEW l, NEW p, NEW k \in Nat, NEW v, NEW w, RowAt(l, p, k, v), RowAt(l, p, k, w)
  PROVE  v = w
<1>1. CASE \A i \in 1..k : l[i].row # p
  BY <1>1 DEF RowAt
<1>2. CASE \E i \in 1..k : l[i].row = p
  <2>1. PICK i \in 1..k : l[i].row = p /\ l[i].after = v /\ \A j \in (i + 1)..k : l[j].row # p
    BY <1>2 DEF RowAt
  <2>2. PICK m \in 1..k : l[m].row = p /\ l[m].after = w /\ \A j \in (m + 1)..k : l[j].row # p
    BY <1>2 DEF RowAt
  <2>3. i = m
    BY <2>1, <2>2
  <2> QED
    BY <2>1, <2>2, <2>3
<1> QED
  BY <1>1, <1>2

\* One change further.
LEMMA RowAtNext ==
  ASSUME NEW l, NEW p, NEW k \in Nat, NEW v
  PROVE  /\ l[k + 1].row = p => RowAt(l, p, k + 1, l[k + 1].after)
         /\ l[k + 1].row # p /\ RowAt(l, p, k, v) => RowAt(l, p, k + 1, v)
<1>1. \A i \in 1..(k + 1) : i \in 1..k \/ i = k + 1
  OBVIOUS
<1>2. ASSUME l[k + 1].row = p PROVE RowAt(l, p, k + 1, l[k + 1].after)
  <2>1. k + 1 \in 1..(k + 1) /\ \A j \in (k + 1 + 1)..(k + 1) : FALSE
    OBVIOUS
  <2> QED
    BY <1>2, <2>1 DEF RowAt
<1>3. ASSUME l[k + 1].row # p, RowAt(l, p, k, v) PROVE RowAt(l, p, k + 1, v)
  <2>1. CASE v = NoRow /\ \A i \in 1..k : l[i].row # p
    BY <1>1, <1>3, <2>1 DEF RowAt
  <2>2. ASSUME NEW i \in 1..k, l[i].row = p, l[i].after = v,
               \A j \in (i + 1)..k : l[j].row # p
        PROVE  RowAt(l, p, k + 1, v)
    <3>1. i \in 1..(k + 1) /\ \A j \in (i + 1)..(k + 1) : j \in (i + 1)..k \/ j = k + 1
      OBVIOUS
    <3> QED
      BY <1>3, <2>2, <3>1 DEF RowAt
  <2> QED
    BY <1>3, <2>1, <2>2 DEF RowAt
<1> QED
  BY <1>2, <1>3

\* A longer log says the same of what it had.
LEMMA RowAtLonger ==
  ASSUME NEW l, NEW m, NEW k \in Nat, \A i \in 1..k : m[i] = l[i], NEW p, NEW v,
         RowAt(l, p, k, v)
  PROVE  RowAt(m, p, k, v)
<1>1. CASE v = NoRow /\ \A i \in 1..k : l[i].row # p
  BY <1>1 DEF RowAt
<1>2. ASSUME NEW i \in 1..k, l[i].row = p, l[i].after = v,
             \A j \in (i + 1)..k : l[j].row # p
      PROVE  RowAt(m, p, k, v)
  <2>1. \A j \in (i + 1)..k : j \in 1..k
    OBVIOUS
  <2> QED
    BY <1>2, <2>1 DEF RowAt
<1> QED
  BY <1>1, <1>2 DEF RowAt

LEMMA SourceFacts ==
  ASSUME AuthTypeOK
  PROVE  /\ {"source", "target"} = Origins
         /\ L \in Seq(Changes) /\ Len(L) \in Nat
         /\ T \in Seq(Nat \ {0}) /\ Len(T) \in Nat
         /\ \A i \in 1..Len(T) : T[i] \in Nat \ {0} /\ T[i] <= Len(L)
         /\ done \in Nat /\ done <= Len(T)
         /\ at["source"] # "poll" => done < Len(T)
         /\ read["source"] \in Nat /\ read["source"] <= Len(L)
         /\ Applied \in Nat
<1>1. {"source", "target"} = Origins
  BY DEF Origins
<1>2. /\ L \in Seq(Changes) /\ Len(L) \in Nat
      /\ T \in Seq(Nat \ {0}) /\ Len(T) \in Nat
      /\ \A i \in 1..Len(T) : T[i] \in Nat \ {0} /\ T[i] <= Len(L)
      /\ done \in Nat /\ done <= Len(T)
      /\ at["source"] # "poll" => done < Len(T)
      /\ read["source"] \in Nat /\ read["source"] <= Len(L)
  BY <1>1 DEF AuthTypeOK, L, T, done
<1>3. Applied \in Nat
  BY <1>2 DEF Applied, Reached
<1> QED
  BY <1>1, <1>2, <1>3

LEMMA InitMirror == Init => MirrorInv
<1> SUFFICES ASSUME Init PROVE MirrorInv
  OBVIOUS
<1>1. /\ L = <<>> /\ T = <<>> /\ Len(L) = 0 /\ Len(T) = 0 /\ done = 0
      /\ at["source"] = "poll" /\ read["source"] = 0
      /\ \A o \in Origins, p \in Rows : table[o][p] = NoRow
      /\ {"source", "target"} = Origins
  BY DEF Init, L, T, done, Origins
<1>2. \A p : RowAt(L, p, 0, NoRow)
  BY DEF RowAt
<1>3. Applied = 0
  BY <1>1 DEF Applied, Reached
<1>4. SourceAtEnd /\ TargetBehind
  BY <1>1, <1>2, <1>3 DEF SourceAtEnd, TargetBehind
<1>5. NoGap
  BY <1>1 DEF NoGap, Gapless
<1> QED
  BY <1>4, <1>5, InitType DEF MirrorInv

\* The application writes to the source and its log, or, the target being open, elsewhere.
LEMMA WriteMirror ==
  ASSUME MirrorInv, NEW p \in Rows, NEW new \in RowOf(p), Write(p, new)
  PROVE  MirrorInv'
<1>0. AuthTypeOK /\ AuthTypeOK'
  BY WriteType DEF MirrorInv
<1>1. UNCHANGED <<read, topic, committed, at, phase>>
  BY DEF Write, streamVars, consumerVars, handoffVars
<1>2. NoGap'
  BY <1>1 DEF MirrorInv, NoGap, T
<1>3. Applied' = Applied
  BY <1>1 DEF Applied, T, done
<1>4. CASE phase = "open"
  <2>1. table'["source"] = table["source"] /\ L' = L
    BY <1>0, <1>4, SourceFacts DEF Write, Authority, L, AuthTypeOK
  <2> QED
    BY <1>0, <1>1, <1>2, <1>4, <2>1 DEF MirrorInv, SourceAtEnd, TargetBehind
<1>5. CASE phase # "open"
  <2> DEFINE old == table["source"][p]
             e == [row |-> p, before |-> old, after |-> new]
  <2>1. /\ table' = [table EXCEPT !["source"][p] = new] /\ old # new
        /\ log' = [log EXCEPT !["source"] = Logged(log["source"], p, old, new)]
    BY <1>5 DEF Write, Authority
  <2>2. L' = Append(L, e)
    BY <1>0, <2>1, SourceFacts DEF Logged, L, AuthTypeOK
  <2>3. e \in Changes
    BY <1>0, SourceFacts, ChangeMade DEF AuthTypeOK
  <2>4. e.row = p /\ e.after = new
    OBVIOUS
  <2> HIDE DEF e
  <2>5. /\ Len(L') = Len(L) + 1 /\ L'[Len(L) + 1] = e
        /\ \A i \in 1..Len(L) : L'[i] = L[i]
    BY <1>0, <2>2, <2>3, SourceFacts
  <2>6. /\ \A q \in Rows : table'["source"][q] = IF q = p THEN new ELSE table["source"][q]
        /\ \A q \in Rows : table'["target"][q] = table["target"][q]
    BY <1>0, <2>1, SourceFacts DEF AuthTypeOK
  <2>7. ASSUME NEW q \in Rows
        PROVE  RowAt(L', q, Len(L'), table'["source"][q])
    <3>1. RowAt(L, q, Len(L), table["source"][q])
      BY DEF MirrorInv, SourceAtEnd
    <3>2. RowAt(L', q, Len(L), table["source"][q])
      BY <1>0, <2>5, <3>1, SourceFacts, RowAtLonger
    <3>3. Len(L) \in Nat
      BY <1>0, SourceFacts
    <3> QED
      BY <2>4, <2>5, <2>6, <3>2, <3>3, RowAtNext
  <2>8. ASSUME NEW q \in Rows
        PROVE  \E k \in Nat : /\ Applied <= k /\ k <= Len(L')
                              /\ RowAt(L', q, k, table'["target"][q])
    <3>1. PICK k \in Nat : /\ Applied <= k /\ k <= Len(L)
                           /\ RowAt(L, q, k, table["target"][q])
      BY <1>5 DEF MirrorInv, TargetBehind
    <3>2. Len(L) \in Nat
      BY <1>0, SourceFacts
    <3>3. \A i \in 1..k : L'[i] = L[i]
      BY <2>5, <3>1, <3>2
    <3>4. RowAt(L', q, k, table'["target"][q])
      BY <2>6, <3>1, <3>3, RowAtLonger
    <3> QED
      BY <2>5, <3>1, <3>2, <3>4
  <2>9. SourceAtEnd' /\ TargetBehind'
    BY <1>3, <2>7, <2>8 DEF SourceAtEnd, TargetBehind
  <2> QED
    BY <1>0, <1>2, <2>9 DEF MirrorInv
<1> QED
  BY <1>4, <1>5

\* The mirrored row is where the change leaves it; the others were no further behind.
LEMMA MirrorMirror ==
  ASSUME MirrorInv, Mirror
  PROVE  MirrorInv'
<1> DEFINE e == Event("source")
           n == Position("source")
<1>0. AuthTypeOK /\ AuthTypeOK'
  BY MirrorType DEF MirrorInv
<1>1. /\ at["source"] = "poll" /\ done < Len(T)
      /\ at' = [at EXCEPT !["source"] = "timed"]
      /\ UNCHANGED <<read, topic, committed, phase>>
  BY DEF Mirror, Step, Polled, done, T, streamVars, handoffVars
<1>2. n = T[done + 1] /\ n \in Nat \ {0} /\ n <= Len(L) /\ e = L[n] /\ e \in Changes
  <2>1. Polled("source") /\ "source" \in Origins
    BY DEF Mirror, Origins
  <2>2. n \in 1..Len(L) /\ e = L[n] /\ e \in Changes
    BY <1>0, <2>1, EventFacts DEF L
  <2>3. n = T[done + 1]
    BY DEF Position, T, done
  <2> QED
    BY <1>0, <2>2, <2>3, SourceFacts
<1>3. e.row \in Rows
  BY <1>2, ChangeFacts
<1>4. /\ \A q \in Rows : table'["target"][q]
                            = IF q = e.row THEN e.after ELSE table["target"][q]
      /\ table'["source"] = table["source"]
      /\ log'["source"] = log["source"]
  <2>1. /\ table' = [table EXCEPT !["target"] = [table["target"] EXCEPT ![e.row] = e.after]]
        /\ log' = [log EXCEPT !["target"] = Logged(@, e.row, table["target"][e.row],
                                                   table'["target"][e.row])]
    BY DEF Mirror, Upserted
  <2> HIDE DEF e
  <2>2. /\ "source" \in Origins /\ "target" \in Origins /\ DOMAIN log = Origins
        /\ DOMAIN table = Origins /\ DOMAIN table["target"] = Rows
    BY <1>0, SourceFacts DEF AuthTypeOK
  <2>3. table'["target"] = [table["target"] EXCEPT ![e.row] = e.after]
    BY <2>1, <2>2
  <2> QED
    BY <1>3, <2>1, <2>2, <2>3
<1>5. L' = L /\ T' = T /\ done' = done
  BY <1>1, <1>4 DEF L, T, done
<1>6. at'["source"] = "timed"
  BY <1>0, <1>1, SourceFacts DEF AuthTypeOK
<1>7. Applied = n - 1 /\ Applied' = n
  BY <1>1, <1>2, <1>5, <1>6 DEF Applied, Reached
<1> HIDE DEF e, n
<1>8. ASSUME phase # "open", NEW q \in Rows
      PROVE  \E k \in Nat : /\ n <= k /\ k <= Len(L)
                            /\ RowAt(L, q, k, table'["target"][q])
  <2>0. n - 1 \in Nat /\ (n - 1) + 1 = n /\ Len(L) \in Nat
    BY SMTT(30), <1>0, <1>2, SourceFacts
  <2>1. CASE q = e.row
    <3>1. RowAt(L, q, n, e.after)
      BY <1>2, <2>0, <2>1, RowAtNext
    <3> QED
      BY <1>2, <1>4, <2>0, <2>1, <3>1
  <2>2. CASE q # e.row
    <3>1. PICK k \in Nat : /\ n - 1 <= k /\ k <= Len(L)
                           /\ RowAt(L, q, k, table["target"][q])
      BY <1>7, <1>8 DEF MirrorInv, TargetBehind
    <3>2. CASE n <= k
      BY <1>4, <2>2, <3>1, <3>2
    <3>3. CASE ~(n <= k)
      <4>1. k = n - 1
        BY <1>2, <3>1, <3>3
      <4>2. RowAt(L, q, n, table["target"][q])
        BY <1>2, <2>0, <2>2, <3>1, <4>1, RowAtNext
      <4> QED
        BY <1>2, <1>4, <2>2, <4>2
    <3> QED
      BY <3>2, <3>3
  <2> QED
    BY <2>1, <2>2
<1>9. TargetBehind'
  BY <1>1, <1>5, <1>7, <1>8 DEF TargetBehind
<1>10. SourceAtEnd' /\ NoGap'
  BY <1>1, <1>4, <1>5 DEF MirrorInv, SourceAtEnd, NoGap
<1> QED
  BY <1>0, <1>9, <1>10 DEF MirrorInv

\* A step that leaves the rows and the source's log may only take Applied back.
LEMMA BackMirror ==
  ASSUME MirrorInv, AuthTypeOK', NoGap', UNCHANGED table, L' = L,
         phase' # "open" => phase # "open" /\ Applied' <= Applied
  PROVE  MirrorInv'
<1>1. SourceAtEnd'
  BY DEF MirrorInv, SourceAtEnd
<1>2. ASSUME phase' # "open", NEW p \in Rows
      PROVE  \E k \in Nat : /\ Applied' <= k /\ k <= Len(L)
                            /\ RowAt(L, p, k, table["target"][p])
  <2>1. PICK k \in Nat : /\ Applied <= k /\ k <= Len(L)
                         /\ RowAt(L, p, k, table["target"][p])
    BY <1>2 DEF MirrorInv, TargetBehind
  <2>2. Applied \in Nat /\ Applied' \in Nat
    <3>1. AuthTypeOK
      BY DEF MirrorInv
    <3>2. "source" \in Origins
      BY DEF Origins
    <3>3. /\ T' \in Seq(Nat \ {0}) /\ done' \in Nat /\ done' <= Len(T')
          /\ at'["source"] # "poll" => done' < Len(T')
      BY <3>2 DEF AuthTypeOK, T, done
    <3>4. Applied' \in Nat
      BY <3>3 DEF Applied, Reached
    <3> QED
      BY <3>1, <3>4, SourceFacts
  <2> QED
    BY <1>2, <2>1, <2>2
<1>3. TargetBehind'
  BY <1>2 DEF TargetBehind
<1> QED
  BY <1>1, <1>3 DEF MirrorInv

LEMMA ProduceMirror ==
  ASSUME MirrorInv, NEW o \in Origins, Produce(o)
  PROVE  MirrorInv'
<1>0. AuthTypeOK /\ AuthTypeOK' /\ UNCHANGED <<table, log, committed, at, phase>>
  BY ProduceType DEF MirrorInv, Produce, dbVars, consumerVars, handoffVars
<1>1. L' = L /\ done' = done
  BY <1>0 DEF L, done
<1>2. CASE o # "source"
  <2>1. T' = T /\ read'["source"] = read["source"]
    BY <1>0, <1>2, SourceFacts DEF Produce, T, AuthTypeOK
  <2>2. NoGap' /\ Applied' = Applied
    BY <1>0, <1>1, <2>1 DEF MirrorInv, NoGap, Applied
  <2>3. Applied' <= Applied
    BY <1>0, <2>2, SourceFacts
  <2> QED
    BY <1>0, <1>1, <2>2, <2>3, BackMirror
<1>3. CASE o = "source"
  <2> DEFINE n == read["source"]
             past == at["source"] # "poll"
  <2>1. T' = Append(T, n + 1) /\ read'["source"] = n + 1
    BY <1>0, <1>3, SourceFacts DEF Produce, T, AuthTypeOK
  <2>2. /\ T \in Seq(Nat \ {0}) /\ n \in Nat /\ Gapless(T, n)
        /\ done \in Nat /\ done <= Len(T) /\ past \in BOOLEAN /\ (past => done < Len(T))
    BY <1>0, SourceFacts DEF MirrorInv, NoGap
  <2> HIDE DEF n, past
  <2>3. /\ Gapless(Append(T, n + 1), n + 1)
        /\ Reached(Append(T, n + 1), done, past) <= Reached(T, done, past)
    BY <2>2, ReachedLonger
  <2>4. NoGap' /\ Applied' <= Applied
    BY <1>0, <1>1, <2>1, <2>3 DEF NoGap, Applied, n, past
  <2> QED
    BY <1>0, <1>1, <2>4, BackMirror
<1> QED
  BY <1>2, <1>3

LEMMA RestartMirror ==
  ASSUME MirrorInv, NEW o \in Origins, TaskRestarts(o)
  PROVE  MirrorInv'
<1>0. AuthTypeOK /\ AuthTypeOK' /\ UNCHANGED <<table, log, topic, committed, at, phase>>
  BY RestartType DEF MirrorInv, TaskRestarts, dbVars, consumerVars, handoffVars
<1>1. L' = L /\ T' = T /\ done' = done
  BY <1>0 DEF L, T, done
<1>2. read'["source"] \in Nat /\ read'["source"] <= read["source"]
  <2>1. PICK flushed \in 0..(read[o] - 1) : read' = [read EXCEPT ![o] = flushed]
    BY DEF TaskRestarts
  <2>2. "source" \in Origins /\ read \in [Origins -> Nat]
    BY <1>0, SourceFacts DEF AuthTypeOK
  <2> QED
    BY <2>1, <2>2
<1>3. NoGap'
  <2>1. /\ Len(T) \in Nat /\ read["source"] \in Nat
        /\ Len(T) > 0 => T[Len(T)] \in Nat
    BY <1>0, SourceFacts
  <2> QED
    BY <1>1, <1>2, <2>1 DEF MirrorInv, NoGap, Gapless
<1>4. Applied' = Applied /\ Applied \in Nat
  BY <1>0, <1>1, SourceFacts DEF Applied
<1> QED
  BY <1>0, <1>1, <1>3, <1>4, BackMirror

LEMMA CommitMirror ==
  ASSUME MirrorInv, NEW o \in Origins, Commit(o)
  PROVE  MirrorInv'
<1>0. AuthTypeOK /\ AuthTypeOK' /\ UNCHANGED <<table, log, topic, read, phase>>
  BY ConsumerType DEF MirrorInv, Commit, dbVars, streamVars, handoffVars
<1>1. L' = L /\ T' = T /\ NoGap'
  BY <1>0 DEF L, T, MirrorInv, NoGap
<1>2. CASE o # "source"
  <2>1. done' = done /\ at'["source"] = at["source"]
    BY <1>0, <1>2, SourceFacts DEF Commit, Step, done, AuthTypeOK
  <2>2. Applied' = Applied /\ Applied \in Nat
    BY <1>0, <1>1, <2>1, SourceFacts DEF Applied
  <2> QED
    BY <1>0, <1>1, <2>2, BackMirror
<1>3. CASE o = "source"
  <2>1. done' = done + 1 /\ at'["source"] = "poll" /\ at["source"] = "applied"
    BY <1>0, <1>3, SourceFacts DEF Commit, Step, done, AuthTypeOK
  <2>2. T \in Seq(Nat \ {0}) /\ done \in Nat /\ done < Len(T) /\ NoGap
    BY <1>0, <2>1, SourceFacts DEF MirrorInv
  <2>3. Applied = T[done + 1] /\ Applied' = Reached(T, done + 1, FALSE)
    BY <1>1, <2>1 DEF Applied, Reached
  <2>4. Applied' <= Applied
    BY <2>2, <2>3, ReachedNext DEF NoGap
  <2> QED
    BY <1>0, <1>1, <2>4, BackMirror
<1> QED
  BY <1>2, <1>3

LEMMA CrashMirror ==
  ASSUME MirrorInv, NEW o \in Origins, Crash(o)
  PROVE  MirrorInv'
<1>0. AuthTypeOK /\ AuthTypeOK' /\ UNCHANGED <<table, log, topic, read, committed, phase>>
  BY ConsumerType DEF MirrorInv, Crash, dbVars, streamVars, handoffVars
<1>1. L' = L /\ T' = T /\ done' = done /\ NoGap'
  BY <1>0 DEF L, T, done, MirrorInv, NoGap
<1>2. CASE o # "source"
  <2>1. at'["source"] = at["source"]
    BY <1>0, <1>2, SourceFacts DEF Crash, AuthTypeOK
  <2>2. Applied' = Applied /\ Applied \in Nat
    BY <1>0, <1>1, <2>1, SourceFacts DEF Applied
  <2> QED
    BY <1>0, <1>1, <2>2, BackMirror
<1>3. CASE o = "source"
  <2>1. at'["source"] = "poll" /\ at["source"] # "poll"
    BY <1>0, <1>3, SourceFacts DEF Crash, AuthTypeOK
  <2>2. done < Len(T) /\ T[done + 1] \in Nat
    BY <1>0, <2>1, SourceFacts
  <2>3. Applied = T[done + 1] /\ Applied' = T[done + 1] - 1
    BY <1>1, <2>1, <2>2 DEF Applied, Reached
  <2>4. Applied' <= Applied
    BY <2>2, <2>3
  <2> QED
    BY <1>0, <1>1, <2>4, BackMirror
<1> QED
  BY <1>2, <1>3

\* What concerns neither the source's stream nor any row.
LEMMA OtherMirror ==
  ASSUME MirrorInv, AuthTypeOK', UNCHANGED <<table, log, topic, read>>,
         done' = done, (at["source"] # "poll")' = (at["source"] # "poll"),
         phase' # "open" => phase # "open"
  PROVE  MirrorInv'
<1>1. L' = L /\ T' = T /\ NoGap'
  BY DEF L, T, MirrorInv, NoGap
<1>2. Applied' = Applied
  BY <1>1 DEF Applied
<1>3. Applied \in Nat
  BY SourceFacts DEF MirrorInv
<1> QED
  BY <1>1, <1>2, <1>3, BackMirror

LEMMA StepMirror ==
  ASSUME MirrorInv, [Next]_authVars
  PROVE  MirrorInv'
<1>0. AuthTypeOK /\ AuthTypeOK' /\ {"source", "target"} = Origins
  BY StepType, SourceFacts DEF MirrorInv
<1>1. CASE Application
  BY <1>0, <1>1, ApplicationWrites, WriteMirror
<1>2. CASE Mirror
  BY <1>2, MirrorMirror
<1>3. CASE \E o \in Origins : Produce(o) \/ TaskRestarts(o) \/ Commit(o) \/ Crash(o)
  BY <1>3, ProduceMirror, RestartMirror, CommitMirror, CrashMirror
<1>4. CASE Skip
  <2>1. done' = done /\ UNCHANGED <<table, log, topic, read, at, phase>>
    BY <1>0, <1>4 DEF Skip, done, AuthTypeOK, dbVars, streamVars, handoffVars
  <2> QED
    BY <1>0, <2>1, OtherMirror
<1>5. CASE Take
  <2>1. /\ done' = done /\ UNCHANGED <<table, log, topic, read, phase>>
        /\ at'["source"] = at["source"]
    BY <1>0, <1>5 DEF Take, Step, done, AuthTypeOK, dbVars, streamVars, handoffVars
  <2> QED
    BY <1>0, <2>1, OtherMirror
<1>6. ASSUME NEW o \in Origins, Execute(o)
      PROVE  MirrorInv'
  <2>1. done' = done /\ UNCHANGED <<table, log, topic, read, phase>>
    BY <1>6 DEF Execute, done, dbVars, streamVars, handoffVars
  <2>2. (at'["source"] # "poll") = (at["source"] # "poll")
    BY <1>0, <1>6 DEF Execute, Step, AuthTypeOK
  <2> QED
    BY <1>0, <2>1, <2>2, OtherMirror
<1>7. ASSUME NEW o \in Origins, Settle(o)
      PROVE  MirrorInv'
  <2>1. done' = done /\ UNCHANGED <<table, log, topic, read, phase, at>>
    BY <1>7 DEF Settle, done, dbVars, streamVars, handoffVars
  <2> QED
    BY <1>0, <2>1, OtherMirror
<1>8. CASE TimePasses \/ UNCHANGED authVars
  <2>1. done' = done /\ UNCHANGED <<table, log, topic, read, phase, at>>
    BY <1>8 DEF TimePasses, done, authVars, dbVars, streamVars, consumerVars, handoffVars
  <2> QED
    BY <1>0, <2>1, OtherMirror
<1>9. CASE Handoff
  <2>1. /\ done' = done /\ UNCHANGED <<table, log, topic, read, at>>
        /\ phase' # "open" => phase # "open"
    BY <1>9 DEF Handoff, FenceSource, StopConnector, WriteBoundary, OpenTarget, Hand,
                handKeeps, done, dbVars, streamVars, consumerVars
  <2> QED
    BY <1>0, <2>1, OtherMirror
<1> QED
  BY <1>1, <1>2, <1>3, <1>4, <1>5, <1>6, <1>7, <1>8, <1>9 DEF Next, Consumer

LEMMA CaughtUpMirrors == MirrorInv => TargetMirrors
<1> SUFFICES ASSUME MirrorInv, phase # "open", CaughtUp("source")
             PROVE  table["target"] = table["source"]
  BY DEF TargetMirrors
<1>0. AuthTypeOK
  BY DEF MirrorInv
<1>1. read["source"] = Len(L) /\ done = Len(T)
  BY DEF CaughtUp, L, T, done
<1>2. at["source"] = "poll"
  BY <1>0, <1>1, SourceFacts
<1>3. Applied >= Len(L)
  <2>1. T \in Seq(Nat \ {0}) /\ Len(L) \in Nat /\ NoGap
    BY <1>0, SourceFacts DEF MirrorInv
  <2> QED
    BY <1>1, <1>2, <2>1, ReachedEnd DEF Applied, NoGap
<1>4. ASSUME NEW p \in Rows
      PROVE  table["target"][p] = table["source"][p]
  <2>1. PICK k \in Nat : /\ Applied <= k /\ k <= Len(L)
                         /\ RowAt(L, p, k, table["target"][p])
    BY DEF MirrorInv, TargetBehind
  <2>2. Applied \in Nat /\ Len(L) \in Nat
    BY <1>0, SourceFacts
  <2>3. k = Len(L)
    BY <1>3, <2>1, <2>2
  <2> QED
    BY <2>1, <2>2, <2>3, RowAtUnique DEF MirrorInv, SourceAtEnd
<1>5. /\ table["target"] \in [Rows -> UNION {RowOf(p) : p \in Rows}]
      /\ table["source"] \in [Rows -> UNION {RowOf(p) : p \in Rows}]
  BY <1>0, SourceFacts DEF AuthTypeOK
<1> QED
  BY <1>4, <1>5

\* At lag 0 the target has the source's rows, whatever was delivered twice and wherever the
\* consumer died, until the application writes to it.
THEOREM TargetIsMirror == AuthSpec => []TargetMirrors
<1>1. Init => MirrorInv
  BY InitMirror
<1>2. MirrorInv /\ [Next]_authVars => MirrorInv'
  BY StepMirror
<1> QED
  BY <1>1, <1>2, CaughtUpMirrors, PTL DEF AuthSpec

-----------------------------------------------------------------------------
(* The rows after k changes of a log, as a value.                            *)

\* A non-empty set of numbers has a least one.
LEMMA Least ==
  ASSUME NEW X \in SUBSET Nat, X # {}
  PROVE  \E m \in X : \A k \in X : m <= k
<1> DEFINE R == {ss \in Nat \X Nat : ss[1] < ss[2]}
<1>1. IsWellFoundedOn(R, Nat)
  BY NatLessThanWellFounded DEF OpToRel
<1> HIDE DEF R
<1>2. PICK m \in X : \A k \in X : ~(<<k, m>> \in R)
  BY <1>1, WFMin
<1>3. ASSUME NEW k \in X, ~(m <= k) PROVE FALSE
  <2>1. <<k, m>> \in R
    BY <1>3 DEF R
  <2> QED
    BY <2>1, <1>2
<1> QED
  BY <1>3

Row(l, p, k) == CHOOSE v : RowAt(l, p, k, v)

LEMMA RowThere ==
  ASSUME NEW l, NEW p, NEW k \in Nat
  PROVE  \E v : RowAt(l, p, k, v)
<1> DEFINE X == {n \in Nat : ~ \E v : RowAt(l, p, n, v)}
<1>1. SUFFICES ASSUME X # {} PROVE FALSE
  OBVIOUS
<1>2. PICK m \in X : \A n \in X : m <= n
  BY <1>1, Least
<1>3. RowAt(l, p, 0, NoRow)
  BY DEF RowAt
<1>4. m - 1 \in Nat /\ m - 1 \notin X /\ (m - 1) + 1 = m
  BY <1>2, <1>3
<1>5. PICK v : RowAt(l, p, m - 1, v)
  BY <1>4
<1>6. RowAt(l, p, m, l[m].after) \/ RowAt(l, p, m, v)
  BY <1>4, <1>5, RowAtNext
<1> QED
  BY <1>2, <1>6

LEMMA RowIs ==
  ASSUME NEW l, NEW p, NEW k \in Nat
  PROVE  /\ RowAt(l, p, k, Row(l, p, k))
         /\ \A v : RowAt(l, p, k, v) => v = Row(l, p, k)
<1>1. RowAt(l, p, k, Row(l, p, k))
  BY RowThere DEF Row
<1> QED
  BY <1>1, RowAtUnique

LEMMA RowFirst ==
  ASSUME NEW l, NEW p
  PROVE  Row(l, p, 0) = NoRow
<1>1. RowAt(l, p, 0, NoRow)
  BY DEF RowAt
<1> QED
  BY <1>1, RowIs

LEMMA RowNext ==
  ASSUME NEW l, NEW p, NEW k \in Nat
  PROVE  Row(l, p, k + 1) = IF l[k + 1].row = p THEN l[k + 1].after ELSE Row(l, p, k)
<1>1. k + 1 \in Nat
  OBVIOUS
<1>2. CASE l[k + 1].row = p
  BY <1>1, <1>2, RowAtNext, RowIs
<1>3. CASE l[k + 1].row # p
  BY <1>1, <1>3, RowAtNext, RowIs
<1> QED
  BY <1>2, <1>3

LEMMA RowLonger ==
  ASSUME NEW l, NEW m, NEW k \in Nat, \A i \in 1..k : m[i] = l[i], NEW p
  PROVE  Row(m, p, k) = Row(l, p, k)
  BY RowIs, RowAtLonger

LEMMA RowType ==
  ASSUME NEW l \in Seq(Changes), NEW p \in Rows, NEW k \in Nat, k <= Len(l)
  PROVE  Row(l, p, k) \in RowOf(p)
<1>1. RowAt(l, p, k, Row(l, p, k))
  BY RowIs
<1>2. CASE Row(l, p, k) = NoRow
  BY <1>2 DEF RowOf
<1>3. ASSUME NEW i \in 1..k, l[i].row = p, l[i].after = Row(l, p, k)
      PROVE  Row(l, p, k) \in RowOf(p)
  <2>1. l[i] \in Changes
    BY <1>3
  <2> QED
    BY <1>3, <2>1, ChangeFacts
<1> QED
  BY <1>1, <1>2, <1>3 DEF RowAt

-----------------------------------------------------------------------------
(* A log tells of each change what the row was, and its table is where it ends. *)

Chained(l) == \A i \in 1..Len(l) : l[i].before = Row(l, l[i].row, i - 1)

EndsAt(l, rows) == \A p \in Rows : Row(l, p, Len(l)) = rows[p]

\* A logged change continues the history, and the table is where it ends again.
LEMMA LoggedHistory ==
  ASSUME NEW l \in Seq(Changes), Chained(l),
         NEW rows \in [Rows -> UNION {RowOf(p) : p \in Rows}], EndsAt(l, rows),
         NEW p \in Rows, NEW new \in RowOf(p), rows[p] \in RowOf(p),
         NEW m, m = Logged(l, p, rows[p], new)
  PROVE  /\ Chained(m) /\ EndsAt(m, [rows EXCEPT ![p] = new])
         /\ Len(m) \in Nat /\ Len(m) >= Len(l) /\ Len(m) <= Len(l) + 1
         /\ \A i \in 1..Len(l) : m[i] = l[i]
<1>1. CASE rows[p] = new
  <2>1. m = l
    BY <1>1 DEF Logged
  <2>2. Len(l) \in Nat
    OBVIOUS
  <2>3. \A q \in Rows : [rows EXCEPT ![p] = new][q] = rows[q]
    BY <1>1
  <2>4. EndsAt(m, [rows EXCEPT ![p] = new])
    BY <2>1, <2>3 DEF EndsAt
  <2> QED
    BY <2>1, <2>2, <2>4
<1>2. CASE rows[p] # new
  <2> DEFINE e == [row |-> p, before |-> rows[p], after |-> new]
  <2>1. m = Append(l, e) /\ e \in Changes
    BY <1>2, ChangeMade DEF Logged
  <2>2. e.row = p /\ e.before = rows[p] /\ e.after = new
    OBVIOUS
  <2> HIDE DEF e
  <2>3. /\ Len(m) = Len(l) + 1 /\ Len(l) \in Nat /\ m[Len(l) + 1] = e
        /\ \A i \in 1..Len(l) : m[i] = l[i]
    BY <2>1
  <2>4. ASSUME NEW k \in Nat, k <= Len(l), NEW q
        PROVE  Row(m, q, k) = Row(l, q, k)
    <3>1. \A i \in 1..k : m[i] = l[i]
      BY <2>3, <2>4
    <3> QED
      BY <3>1, RowLonger
  <2>5. ASSUME NEW i \in 1..Len(m)
        PROVE  m[i].before = Row(m, m[i].row, i - 1)
    <3>1. i - 1 \in Nat /\ i - 1 <= Len(l)
      BY <2>3
    <3>2. CASE i <= Len(l)
      <4>1. i \in 1..Len(l) /\ m[i] = l[i]
        BY <2>3, <3>2
      <4> QED
        BY <2>4, <3>1, <4>1 DEF Chained
    <3>3. CASE ~(i <= Len(l))
      <4>1. i = Len(l) + 1 /\ i - 1 = Len(l) /\ m[i] = e
        BY <2>3, <3>3
      <4>2. Row(m, p, Len(l)) = rows[p]
        BY <2>3, <2>4 DEF EndsAt
      <4> QED
        BY <2>2, <4>1, <4>2
    <3> QED
      BY <3>2, <3>3
  <2>6. ASSUME NEW q \in Rows
        PROVE  Row(m, q, Len(m)) = [rows EXCEPT ![p] = new][q]
    <3>1. Row(m, q, Len(l)) = rows[q]
      BY <2>3, <2>4 DEF EndsAt
    <3>2. Row(m, q, Len(l) + 1) = IF e.row = q THEN e.after ELSE Row(m, q, Len(l))
      BY ZenonT(60), <2>3, RowNext
    <3> QED
      BY <2>2, <2>3, <3>1, <3>2
  <2> QED
    BY <2>3, <2>5, <2>6 DEF Chained, EndsAt
<1> QED
  BY <1>1, <1>2

-----------------------------------------------------------------------------
(* What a change does to each key, indexes apart: it puts the keys of the row *)
(* it makes, removes the other keys of the row it ends, and keeps the rest.   *)

KeysOf(p, row) ==
  IF row = NoRow THEN {}
  ELSE IF IsCsrf(p) THEN {Csrf(row.context)}
  ELSE {Session(row.sid), Refresh(row.hash)}

ValueOf(p, row, key) ==
  IF IsCsrf(p) THEN row.value
  ELSE IF key = Session(row.sid) THEN [user |-> row.user, hash |-> row.hash]
  ELSE row.sid

Kept(r, q, key) ==
  /\ key \in DOMAIN q <=> key \in DOMAIN r
  /\ key \in DOMAIN r => q[key] = r[key]

Written(r, p, row, key) ==
  /\ key \in DOMAIN r
  /\ r[key] = [value |-> ValueOf(p, row, key), end |-> row.end]

IsIndex(key) == key[1] = "user-sessions"

IndexesOnly(r, q) == \A key : ~IsIndex(key) => Kept(r, q, key)

LEMMA KeptOver ==
  ASSUME NEW r, NEW q, NEW s, NEW key, Kept(r, q, key), Kept(q, s, key)
  PROVE  Kept(r, s, key)
  BY DEF Kept

LEMMA PutKept ==
  ASSUME NEW r, NEW k, NEW v, NEW t, NEW key, key # k
  PROVE  Kept(r, Put(r, k, v, t), key)
  BY DEF Kept, Put

LEMMA DelKept ==
  ASSUME NEW r, NEW keys, NEW key
  PROVE  /\ key \notin keys => Kept(r, Del(r, keys), key)
         /\ key \in keys => key \notin DOMAIN Del(r, keys)
<1>1. /\ DOMAIN Del(r, keys) = DOMAIN r \ keys
      /\ \A k \in DOMAIN Del(r, keys) : Del(r, keys)[k] = r[k]
  BY DelFacts
<1> QED
  BY <1>1 DEF Kept

LEMMA IndexKept ==
  ASSUME NEW r, NEW user
  PROVE  /\ IndexesOnly(r, r)
         /\ \A q, v, t : IndexesOnly(r, q) => IndexesOnly(r, Put(q, Index(user), v, t))
         /\ \A q : IndexesOnly(r, q) => IndexesOnly(r, Del(q, {Index(user)}))
<1>1. ASSUME NEW key, ~IsIndex(key) PROVE key # Index(user)
  BY <1>1 DEF IsIndex, Index
<1>2. IndexesOnly(r, r)
  BY DEF IndexesOnly, Kept
<1>3. ASSUME NEW q, NEW v, NEW t, IndexesOnly(r, q)
      PROVE  IndexesOnly(r, Put(q, Index(user), v, t))
  <2> SUFFICES ASSUME NEW key, ~IsIndex(key)
               PROVE  Kept(r, Put(q, Index(user), v, t), key)
    BY DEF IndexesOnly
  <2>1. Kept(q, Put(q, Index(user), v, t), key)
    BY <1>1, PutKept
  <2> QED
    BY <1>3, <2>1, KeptOver DEF IndexesOnly
<1>4. ASSUME NEW q, IndexesOnly(r, q)
      PROVE  IndexesOnly(r, Del(q, {Index(user)}))
  <2> SUFFICES ASSUME NEW key, ~IsIndex(key)
               PROVE  Kept(r, Del(q, {Index(user)}), key)
    BY DEF IndexesOnly
  <2>1. Kept(q, Del(q, {Index(user)}), key)
    BY <1>1, DelKept
  <2> QED
    BY <1>4, <2>1, KeptOver DEF IndexesOnly
<1> QED
  BY <1>2, <1>3, <1>4

LEMMA IndexCommands ==
  ASSUME NEW r, NEW user
  PROVE  /\ \A sid, t : IndexesOnly(r, ZAdd(r, user, sid, t))
         /\ \A sids : IndexesOnly(r, ZRem(r, user, sids))
         /\ \A t : IndexesOnly(r, SettleIndex(r, user, t))
<1>1. \A sid, t : IndexesOnly(r, ZAdd(r, user, sid, t))
  BY IndexKept DEF ZAdd
<1>2. \A sids : IndexesOnly(r, ZRem(r, user, sids))
  BY IndexKept DEF ZRem
<1>3. ASSUME NEW t PROVE IndexesOnly(r, SettleIndex(r, user, t))
  <2> DEFINE q == ZRem(r, user, {sid \in DOMAIN Members(r, user) : Members(r, user)[sid] <= t})
             ends == {Members(q, user)[sid] : sid \in DOMAIN Members(q, user)}
             last == CHOOSE t1 \in ends : \A t2 \in ends : t2 <= t1
  <2>1. IndexesOnly(r, q)
    BY <1>2
  <2>2. SettleIndex(r, user, t) \in {q, Put(q, Index(user), Members(q, user), last)}
    BY DEF SettleIndex
  <2> HIDE DEF q, last
  <2> QED
    BY <2>1, <2>2, IndexKept
<1> QED
  BY <1>1, <1>2, <1>3

\* What a session leaves behind: the keys its row no longer has.
LEMMA ForgetKeys ==
  ASSUME NEW r, NEW p, ~IsCsrf(p), NEW old \in RowOf(p), old # NoRow, NEW new \in RowOf(p),
         NEW key, ~IsIndex(key)
  PROVE  LET q == ForgetSession(r, old, new)
         IN /\ key \notin KeysOf(p, old) => Kept(r, q, key)
            /\ key \in KeysOf(p, old) \ KeysOf(p, new) => key \notin DOMAIN q
<1> DEFINE q == Del(r, {Refresh(old.hash)})
           s == Del(q, {Session(old.sid)})
           f == ForgetSession(r, old, new)
<1>1. old.sid = p[2] /\ (new # NoRow => new.sid = p[2])
  BY RowFacts
<1>2. /\ KeysOf(p, old) = {Session(old.sid), Refresh(old.hash)}
      /\ new # NoRow => Session(old.sid) \in KeysOf(p, new)
  BY <1>1 DEF KeysOf
<1>3. /\ key # Refresh(old.hash) => Kept(r, q, key)
      /\ key = Refresh(old.hash) => key \notin DOMAIN q
  BY DelKept
<1>4. /\ key # Session(old.sid) => Kept(q, s, key)
      /\ key = Session(old.sid) => key \notin DOMAIN s
  BY DelKept
<1>5. CASE new = NoRow
  <2>1. f = ZRem(s, old.user, {old.sid})
    BY <1>5 DEF ForgetSession
  <2> HIDE DEF f, q, s
  <2>2. Kept(s, f, key)
    BY <2>1, IndexCommands DEF IndexesOnly
  <2> QED
    BY <1>2, <1>3, <1>4, <2>2 DEF Kept, f
<1>6. CASE new # NoRow
  <2>1. f \in {q, ZRem(q, old.user, {old.sid})}
    BY <1>1, <1>6 DEF ForgetSession
  <2> HIDE DEF f, q, s
  <2>2. Kept(q, f, key)
    BY <2>1, IndexCommands, IndexKept DEF IndexesOnly
  <2> QED
    BY <1>2, <1>3, <1>6, <2>2 DEF Kept, f
<1> QED
  BY <1>5, <1>6

\* What a session puts: the keys of its row, or none when it has ended.
LEMMA StoreKeys ==
  ASSUME NEW r, NEW p, ~IsCsrf(p), NEW new \in RowOf(p), new # NoRow, NEW t,
         NEW key, ~IsIndex(key)
  PROVE  LET q == StoreSession(r, new, t)
         IN /\ key \notin KeysOf(p, new) => Kept(r, q, key)
            /\ key \in KeysOf(p, new) /\ new.end <= t => key \notin DOMAIN q
            /\ key \in KeysOf(p, new) /\ ~(new.end <= t) => Written(q, p, new, key)
<1> DEFINE f == StoreSession(r, new, t)
<1>1. KeysOf(p, new) = {Session(new.sid), Refresh(new.hash)}
  BY DEF KeysOf
<1>2. CASE new.end <= t
  <2> DEFINE keys == {Session(new.sid), Refresh(new.hash)}
             q == Del(r, keys)
  <2>1. f = ZRem(q, new.user, {new.sid})
    BY <1>2 DEF StoreSession
  <2>2. /\ key \notin keys => Kept(r, q, key)
        /\ key \in keys => key \notin DOMAIN q
    BY DelKept
  <2> HIDE DEF f, q
  <2>3. Kept(q, f, key)
    BY <2>1, IndexCommands DEF IndexesOnly
  <2> QED
    BY <1>1, <1>2, <2>2, <2>3 DEF Kept, f
<1>3. CASE ~(new.end <= t)
  <2> DEFINE v == [user |-> new.user, hash |-> new.hash]
             s == Put(r, Session(new.sid), v, new.end)
             q == Put(s, Refresh(new.hash), new.sid, new.end)
  <2>1. f = ZAdd(q, new.user, new.sid, new.end)
    BY <1>3 DEF StoreSession
  <2>2. /\ Session(new.sid) \in DOMAIN s
        /\ s[Session(new.sid)] = [value |-> v, end |-> new.end]
    BY DEF Put
  <2>a. key # Session(new.sid) => Kept(r, s, key)
    BY PutKept
  <2> HIDE DEF s
  <2>3. /\ Refresh(new.hash) \in DOMAIN q
        /\ q[Refresh(new.hash)] = [value |-> new.sid, end |-> new.end]
    BY DEF Put
  <2>b. key # Refresh(new.hash) => Kept(s, q, key)
    BY PutKept
  <2> HIDE DEF q, f
  <2>4. Kept(q, f, key)
    BY <2>1, IndexCommands DEF IndexesOnly
  <2>5. Session(new.sid) # Refresh(new.hash)
    BY KeyFacts
  <2>6. CASE key = Session(new.sid)
    <3>1. ValueOf(p, new, key) = v
      BY <2>6 DEF ValueOf
    <3> HIDE DEF v
    <3> QED
      BY <1>1, <1>3, <2>2, <2>b, <2>4, <2>5, <2>6, <3>1 DEF Kept, Written, f
  <2>7. CASE key = Refresh(new.hash)
    <3>1. ValueOf(p, new, key) = new.sid
      BY <2>5, <2>7 DEF ValueOf
    <3> QED
      BY <1>1, <1>3, <2>3, <2>4, <2>7, <3>1 DEF Kept, Written, f
  <2>8. CASE key \notin {Session(new.sid), Refresh(new.hash)}
    BY <1>1, <1>3, <2>a, <2>b, <2>4, <2>8 DEF Kept, f
  <2> QED
    BY <2>6, <2>7, <2>8
<1> QED
  BY <1>2, <1>3

LEMMA TokenKeys ==
  ASSUME NEW r, NEW e, NEW t, NEW p, IsCsrf(p),
         NEW key, ~IsIndex(key)
  PROVE  LET q == ApplyToken(r, e, t)
         IN /\ key \notin KeysOf(p, e.before) \cup KeysOf(p, e.after) => Kept(r, q, key)
            /\ key \in KeysOf(p, e.before) \ KeysOf(p, e.after) => key \notin DOMAIN q
            /\ e.after # NoRow /\ key \in KeysOf(p, e.after) =>
                 IF e.after.end <= t THEN key \notin DOMAIN q
                                     ELSE Written(q, p, e.after, key)
<1> DEFINE forgets == /\ e.before # NoRow
                      /\ e.after = NoRow \/ e.after.context # e.before.context
           q == IF forgets THEN Del(r, {Csrf(e.before.context)}) ELSE r
           f == ApplyToken(r, e, t)
<1>0. \A x, y : Csrf(x) = Csrf(y) => x = y
  BY DEF Csrf
<1>1. /\ e.before # NoRow => KeysOf(p, e.before) = {Csrf(e.before.context)}
      /\ e.before = NoRow => KeysOf(p, e.before) = {}
      /\ e.after # NoRow => KeysOf(p, e.after) = {Csrf(e.after.context)}
      /\ e.after = NoRow => KeysOf(p, e.after) = {}
  BY DEF KeysOf
<1>2. /\ key \notin KeysOf(p, e.before) => Kept(r, q, key)
      /\ key \in KeysOf(p, e.before) \ KeysOf(p, e.after) => key \notin DOMAIN q
  <2>1. CASE forgets
    <3>1. q = Del(r, {Csrf(e.before.context)})
      BY <2>1
    <3> QED
      BY <1>1, <2>1, <3>1, DelKept
  <2>2. CASE ~forgets
    <3>1. q = r /\ (e.before # NoRow => e.after # NoRow /\ e.after.context = e.before.context)
      BY <2>2
    <3> HIDE DEF q, forgets
    <3> QED
      BY <1>1, <3>1 DEF Kept
  <2> QED
    BY <2>1, <2>2
<1>3. f = IF e.after = NoRow THEN q
          ELSE IF e.after.end <= t THEN Del(q, {Csrf(e.after.context)})
          ELSE Put(q, Csrf(e.after.context), e.after.value, e.after.end)
  BY DEF ApplyToken
<1> HIDE DEF q, f
<1>4. CASE e.after = NoRow
  BY <1>1, <1>2, <1>3, <1>4 DEF f
<1>5. CASE e.after # NoRow /\ e.after.end <= t
  <2>1. /\ key # Csrf(e.after.context) => Kept(q, f, key)
        /\ key = Csrf(e.after.context) => key \notin DOMAIN f
    BY <1>3, <1>5, DelKept
  <2> QED
    BY <1>1, <1>2, <1>5, <2>1 DEF Kept, f
<1>6. CASE e.after # NoRow /\ ~(e.after.end <= t)
  <2>0. f = Put(q, Csrf(e.after.context), e.after.value, e.after.end)
    BY <1>3, <1>6
  <2>1. /\ Csrf(e.after.context) \in DOMAIN f
        /\ f[Csrf(e.after.context)] = [value |-> e.after.value, end |-> e.after.end]
    BY <2>0 DEF Put
  <2>3. key # Csrf(e.after.context) => Kept(q, f, key)
    BY <2>0, PutKept
  <2>2. ValueOf(p, e.after, key) = e.after.value
    BY DEF ValueOf
  <2> QED
    BY <1>1, <1>2, <1>6, <2>1, <2>2, <2>3 DEF Kept, Written, f
<1> QED
  BY <1>4, <1>5, <1>6

\* What a change does to any key but an index.
LEMMA ApplyKeys ==
  ASSUME NEW r, NEW e, NEW t, e.before \in RowOf(e.row), e.after \in RowOf(e.row),
         NEW key, ~IsIndex(key)
  PROVE  LET q == Apply(r, e, t)
             p == e.row
         IN /\ key \notin KeysOf(p, e.before) \cup KeysOf(p, e.after) => Kept(r, q, key)
            /\ key \in KeysOf(p, e.before) \ KeysOf(p, e.after) => key \notin DOMAIN q
            /\ e.after # NoRow /\ key \in KeysOf(p, e.after) =>
                 IF e.after.end <= t THEN key \notin DOMAIN q
                                     ELSE Written(q, p, e.after, key)
<1> DEFINE f == Apply(r, e, t)
           p == e.row
<1>1. CASE IsCsrf(p)
  BY <1>1, TokenKeys DEF Apply
<1>2. CASE ~IsCsrf(p)
  <2> DEFINE q == IF e.before = NoRow THEN r ELSE ForgetSession(r, e.before, e.after)
  <2>1. f = IF e.after = NoRow THEN q ELSE StoreSession(q, e.after, t)
    BY <1>2 DEF Apply, ApplySession
  <2>2. /\ key \notin KeysOf(p, e.before) => Kept(r, q, key)
        /\ key \in KeysOf(p, e.before) \ KeysOf(p, e.after) => key \notin DOMAIN q
    <3>1. CASE e.before = NoRow
      BY <3>1 DEF Kept, KeysOf
    <3>2. CASE e.before # NoRow
      BY <1>2, <3>2, ForgetKeys
    <3> QED
      BY <3>1, <3>2
  <2> HIDE DEF q, f
  <2>3. CASE e.after = NoRow
    BY <2>1, <2>2, <2>3 DEF KeysOf, f
  <2>4. CASE e.after # NoRow
    <3>1. f = StoreSession(q, e.after, t)
      BY <2>1, <2>4
    <3>2. /\ key \notin KeysOf(p, e.after) => Kept(q, f, key)
          /\ key \in KeysOf(p, e.after) /\ e.after.end <= t => key \notin DOMAIN f
          /\ key \in KeysOf(p, e.after) /\ ~(e.after.end <= t) => Written(f, p, e.after, key)
      BY <1>2, <2>4, <3>1, StoreKeys
    <3> QED
      BY <2>2, <2>4, <3>2 DEF Kept, f
  <2> QED
    BY <2>3, <2>4
<1> QED
  BY <1>1, <1>2

-----------------------------------------------------------------------------
(* How far behind a log Redis may be: each key is as some number of changes left it, *)
(* never fewer than low.                                                             *)

KeyIs(r, t, l, key, k) ==
  /\ \A p \in Rows :
       key \in KeysOf(p, Row(l, p, k)) /\ Row(l, p, k).end > t =>
         Written(r, p, Row(l, p, k), key)
  /\ key \in DOMAIN r =>
       \E p \in Rows : key \in KeysOf(p, Row(l, p, k)) /\ Row(l, p, k).end > t

KeysBehind(r, t, l, low) ==
  \A key : ~IsIndex(key) => \E k \in Nat : low <= k /\ k <= Len(l) /\ KeyIs(r, t, l, key, k)

\* No two rows have a key in common.
Disjoint(l, low) ==
  \A k \in Nat : low <= k /\ k <= Len(l) =>
    \A p, q \in Rows : p # q => KeysOf(p, Row(l, p, k)) \cap KeysOf(q, Row(l, q, k)) = {}

LEMMA AliveFacts ==
  ASSUME NEW r, NEW t
  PROVE  /\ DOMAIN Alive(r, t) = {key \in DOMAIN r : r[key].end > t}
         /\ \A key \in DOMAIN Alive(r, t) : Alive(r, t)[key] = r[key]
  BY DEF Alive, Restrict

LEMMA WrittenEnd ==
  ASSUME NEW r, NEW p, NEW row, NEW key, Written(r, p, row, key)
  PROVE  r[key].end = row.end
  BY DEF Written

LEMMA WrittenAlive ==
  ASSUME NEW r, NEW p, NEW row, NEW key, Written(r, p, row, key), NEW t, row.end > t
  PROVE  Written(Alive(r, t), p, row, key)
<1>1. r[key].end > t
  BY WrittenEnd
<1>2. key \in DOMAIN Alive(r, t) /\ Alive(r, t)[key] = r[key]
  <2>1. key \in DOMAIN r
    BY DEF Written
  <2>2. key \in DOMAIN Alive(r, t)
    BY ZenonT(60), <1>1, <2>1, AliveFacts
  <2> QED
    BY <2>2, AliveFacts
<1> QED
  BY <1>2 DEF Written

LEMMA RowEnds ==
  ASSUME NEW l \in Seq(Changes), NEW p \in Rows, NEW k \in Nat, k <= Len(l),
         NEW key \in KeysOf(p, Row(l, p, k))
  PROVE  Row(l, p, k) # NoRow /\ Row(l, p, k).end \in Nat
<1>1. Row(l, p, k) # NoRow
  BY DEF KeysOf
<1>2. Row(l, p, k) \in RowOf(p)
  BY RowType
<1> QED
  BY <1>1, <1>2 DEF RowOf, Login, Token

\* Nothing in Redis has expired.
LEMMA KeyEnds ==
  ASSUME NEW r, NEW t, NEW l, NEW key, NEW k, KeyIs(r, t, l, key, k), key \in DOMAIN r
  PROVE  r[key].end > t
<1>1. PICK p \in Rows : key \in KeysOf(p, Row(l, p, k)) /\ Row(l, p, k).end > t
  BY DEF KeyIs
<1>2. r[key].end = Row(l, p, k).end
  BY <1>1 DEF KeyIs, Written
<1> QED
  BY <1>1, <1>2

\* What is the same in Redis is as far behind.
LEMMA KeptIs ==
  ASSUME NEW r, NEW q, NEW key, Kept(r, q, key), NEW t, NEW l, NEW k, KeyIs(r, t, l, key, k)
  PROVE  KeyIs(q, t, l, key, k)
  BY DEF Kept, KeyIs, Written

LEMMA KeptAlive ==
  ASSUME NEW r, NEW q, NEW key, Kept(r, q, key), NEW t, NEW l, NEW k, KeyIs(r, t, l, key, k)
  PROVE  Kept(r, Alive(q, t), key)
<1>1. key \in DOMAIN r => r[key].end > t
  BY KeyEnds
<1>2. key \in DOMAIN Alive(q, t) <=> key \in DOMAIN q /\ q[key].end > t
  BY ZenonT(60), AliveFacts
<1>3. key \in DOMAIN Alive(q, t) => Alive(q, t)[key] = q[key]
  BY AliveFacts
<1> QED
  BY <1>1, <1>2, <1>3 DEF Kept

\* A command on an index leaves the other keys as far behind.
LEMMA IndexesBehind ==
  ASSUME NEW r, NEW q, IndexesOnly(r, q), NEW t, NEW l, NEW low, KeysBehind(r, t, l, low)
  PROVE  KeysBehind(Alive(q, t), t, l, low)
<1> SUFFICES ASSUME NEW key, ~IsIndex(key)
             PROVE  \E k \in Nat : low <= k /\ k <= Len(l) /\ KeyIs(Alive(q, t), t, l, key, k)
  BY DEF KeysBehind
<1>1. PICK k \in Nat : low <= k /\ k <= Len(l) /\ KeyIs(r, t, l, key, k)
  BY DEF KeysBehind
<1>2. Kept(r, q, key)
  BY DEF IndexesOnly
<1>3. Kept(r, Alive(q, t), key)
  BY <1>1, <1>2, KeptAlive
<1> QED
  BY <1>1, <1>3, KeptIs

\* So does the clock: what ends in Redis has ended in the row.
LEMMA TickKeys ==
  ASSUME NEW r, NEW t \in Nat, NEW u \in Nat, t <= u,
         NEW l \in Seq(Changes), NEW low, KeysBehind(r, t, l, low)
  PROVE  KeysBehind(Alive(r, u), u, l, low)
<1> SUFFICES ASSUME NEW key, ~IsIndex(key)
             PROVE  \E k \in Nat : low <= k /\ k <= Len(l) /\ KeyIs(Alive(r, u), u, l, key, k)
  BY DEF KeysBehind
<1>1. PICK k \in Nat : low <= k /\ k <= Len(l) /\ KeyIs(r, t, l, key, k)
  BY DEF KeysBehind
<1>2. ASSUME NEW p \in Rows, key \in KeysOf(p, Row(l, p, k))
      PROVE  Row(l, p, k).end \in Nat
  BY <1>1, <1>2, RowEnds
<1>3. ASSUME NEW p \in Rows, key \in KeysOf(p, Row(l, p, k)), Row(l, p, k).end > u
      PROVE  Written(Alive(r, u), p, Row(l, p, k), key)
  <2>1. Row(l, p, k).end > t
    BY <1>2, <1>3
  <2>2. Written(r, p, Row(l, p, k), key)
    BY <1>1, <1>3, <2>1 DEF KeyIs
  <2> QED
    BY <1>3, <2>2, WrittenAlive
<1>4. ASSUME key \in DOMAIN Alive(r, u)
      PROVE  \E p \in Rows : key \in KeysOf(p, Row(l, p, k)) /\ Row(l, p, k).end > u
  <2>1. key \in DOMAIN r /\ r[key].end > u
    BY ZenonT(60), <1>4, AliveFacts
  <2>2. PICK p \in Rows : key \in KeysOf(p, Row(l, p, k)) /\ Row(l, p, k).end > t
    BY <1>1, <2>1 DEF KeyIs
  <2>a. Written(r, p, Row(l, p, k), key)
    BY <1>1, <2>2 DEF KeyIs
  <2>3. r[key].end = Row(l, p, k).end
    BY <2>a, WrittenEnd
  <2> QED
    BY <2>1, <2>2, <2>3
<1>5. KeyIs(Alive(r, u), u, l, key, k)
  BY <1>3, <1>4 DEF KeyIs
<1> QED
  BY <1>1, <1>5

\* The next change, applied, brings every key to it or leaves it further on.
LEMMA ApplyBehind ==
  ASSUME NEW r, NEW s \in Nat, NEW t \in Nat, s <= t,
         NEW l \in Seq(Changes), Chained(l), NEW n \in 1..Len(l),
         Disjoint(l, n - 1), KeysBehind(r, t, l, n - 1)
  PROVE  KeysBehind(Alive(Apply(r, l[n], s), t), t, l, n)
<1> DEFINE e == l[n]
           p == e.row
           q == Apply(r, e, s)
           a == Alive(q, t)
<1> SUFFICES ASSUME NEW key, ~IsIndex(key)
             PROVE  \E k \in Nat : n <= k /\ k <= Len(l) /\ KeyIs(a, t, l, key, k)
  BY DEF KeysBehind
<1>1. /\ n \in Nat /\ n - 1 \in Nat /\ (n - 1) + 1 = n /\ n <= Len(l) /\ n - 1 <= Len(l)
      /\ Len(l) \in Nat
  OBVIOUS
<1>2. e \in Changes
  OBVIOUS
<1>3. p \in Rows /\ e.before \in RowOf(p) /\ e.after \in RowOf(p)
  BY <1>2, ChangeFacts
<1>4. /\ Row(l, p, n - 1) = e.before
      /\ Row(l, p, n) = e.after
      /\ \A x \in Rows : x # p => Row(l, x, n) = Row(l, x, n - 1)
  <2>1. \A x : Row(l, x, n) = IF l[n].row = x THEN l[n].after ELSE Row(l, x, n - 1)
    BY SMTT(30), <1>1, RowNext
  <2> QED
    BY <2>1 DEF Chained
<1>5. /\ key \notin KeysOf(p, e.before) \cup KeysOf(p, e.after) => Kept(r, q, key)
      /\ key \in KeysOf(p, e.before) \ KeysOf(p, e.after) => key \notin DOMAIN q
      /\ e.after # NoRow /\ key \in KeysOf(p, e.after) =>
           IF e.after.end <= s THEN key \notin DOMAIN q ELSE Written(q, p, e.after, key)
  BY <1>3, ApplyKeys
<1>6. PICK k \in Nat : n - 1 <= k /\ k <= Len(l) /\ KeyIs(r, t, l, key, k)
  BY DEF KeysBehind
<1> HIDE DEF a, q, p, e
<1>7. CASE key \in KeysOf(p, e.before) \cup KeysOf(p, e.after)
  <2>1. ASSUME NEW x \in Rows, key \in KeysOf(x, Row(l, x, n)) PROVE x = p
    <3>1. SUFFICES ASSUME x # p PROVE FALSE
      OBVIOUS
    <3>2. key \in KeysOf(x, Row(l, x, n - 1))
      BY <1>4, <2>1, <3>1
    <3>3. key \notin KeysOf(p, Row(l, p, n))
      BY <1>1, <1>3, <2>1, <3>1 DEF Disjoint
    <3>4. key \notin KeysOf(p, Row(l, p, n - 1))
      BY <1>1, <1>3, <3>1, <3>2 DEF Disjoint
    <3> QED
      BY <1>4, <1>7, <3>3, <3>4
  <2>2. key \in KeysOf(p, e.after) => e.after # NoRow /\ e.after.end \in Nat
    BY <1>1, <1>3, <1>4, RowEnds
  <2>3. ASSUME NEW x \in Rows, key \in KeysOf(x, Row(l, x, n)), Row(l, x, n).end > t
        PROVE  Written(a, x, Row(l, x, n), key)
    <3>1. x = p /\ Row(l, x, n) = e.after
      BY <1>4, <2>1, <2>3
    <3>2. e.after # NoRow /\ ~(e.after.end <= s) /\ e.after.end > t
      BY <2>2, <2>3, <3>1
    <3>3. Written(q, p, e.after, key)
      BY <1>5, <2>3, <3>1, <3>2
    <3> QED
      BY <3>1, <3>2, <3>3, WrittenAlive DEF a
  <2>4. ASSUME key \in DOMAIN a
        PROVE  \E x \in Rows : key \in KeysOf(x, Row(l, x, n)) /\ Row(l, x, n).end > t
    <3>1. key \in DOMAIN q /\ q[key].end > t
      BY ZenonT(60), <2>4, AliveFacts DEF a
    <3>2. key \in KeysOf(p, e.after)
      BY <1>5, <1>7, <3>1
    <3>3. q[key].end = e.after.end
      BY <1>5, <2>2, <3>1, <3>2 DEF Written
    <3> QED
      BY <1>3, <1>4, <3>1, <3>2, <3>3
  <2>5. KeyIs(a, t, l, key, n)
    BY <2>3, <2>4 DEF KeyIs
  <2> QED
    BY <1>1, <2>5
<1>8. CASE key \notin KeysOf(p, e.before) \cup KeysOf(p, e.after)
  <2>1. Kept(r, a, key)
    BY <1>5, <1>6, <1>8, KeptAlive DEF a
  <2>2. KeyIs(a, t, l, key, k)
    BY <1>6, <2>1, KeptIs
  <2>3. CASE n <= k
    BY <1>6, <2>2, <2>3
  <2>4. CASE ~(n <= k)
    <3>1. k = n - 1
      BY <1>1, <1>6, <2>4
    <3>2. \A x \in Rows :
            key \in KeysOf(x, Row(l, x, n)) \/ key \in KeysOf(x, Row(l, x, n - 1))
            => Row(l, x, n) = Row(l, x, n - 1)
      BY <1>4, <1>8
    <3>3. KeyIs(a, t, l, key, n)
      BY <2>2, <3>1, <3>2 DEF KeyIs
    <3> QED
      BY <1>1, <3>3
  <2> QED
    BY <2>3, <2>4
<1> QED
  BY <1>7, <1>8

-----------------------------------------------------------------------------
(* The same of the members of an index, as far as they have not ended.      *)

SessionRow(sid) == <<"login_sessions", sid>>

Member(r, user, sid) == sid \in DOMAIN Members(r, user)
MemberEnd(r, user, sid) == Members(r, user)[sid]

MemberIs(r, t, l, user, sid, k) ==
  Member(r, user, sid) =>
    /\ SessionRow(sid) \in Rows
    /\ MemberEnd(r, user, sid) \in Nat
    /\ MemberEnd(r, user, sid) > t =>
         LET row == Row(l, SessionRow(sid), k)
         IN row # NoRow /\ row.user = user /\ row.end = MemberEnd(r, user, sid)

MembersBehind(r, t, l, low) ==
  \A user, sid : \E k \in Nat : low <= k /\ k <= Len(l) /\ MemberIs(r, t, l, user, sid, k)

\* A member that is left was there, with the same end.
Fewer(r, q, user, sid) ==
  Member(q, user, sid) => /\ Member(r, user, sid)
                          /\ MemberEnd(q, user, sid) = MemberEnd(r, user, sid)

FewerMembers(r, q) == \A user, sid : Fewer(r, q, user, sid)

LEMMA FewerIs ==
  ASSUME NEW r, NEW q, NEW user, NEW sid, Fewer(r, q, user, sid),
         NEW t, NEW l, NEW k, MemberIs(r, t, l, user, sid, k)
  PROVE  MemberIs(q, t, l, user, sid, k)
  BY DEF Fewer, MemberIs

LEMMA FewerOver ==
  ASSUME NEW r, NEW q, NEW s, NEW user, NEW sid, Fewer(r, q, user, sid), Fewer(q, s, user, sid)
  PROVE  Fewer(r, s, user, sid)
  BY DEF Fewer

LEMMA IndexFacts ==
  ASSUME NEW user, NEW x
  PROVE  /\ Index(user) = Index(x) => user = x
         /\ Index(user) # Session(x) /\ Index(user) # Refresh(x) /\ Index(user) # Csrf(x)
  BY DEF Index, Session, Refresh, Csrf

LEMMA MembersPut ==
  ASSUME NEW r, NEW k, NEW v, NEW t, NEW user
  PROVE  Members(Put(r, k, v, t), user) = IF k = Index(user) THEN v ELSE Members(r, user)
<1> DEFINE q == Put(r, k, v, t)
<1>1. /\ DOMAIN q = DOMAIN r \cup {k}
      /\ q[k] = [value |-> v, end |-> t]
      /\ \A key \in DOMAIN r : key # k => q[key] = r[key]
  BY DEF Put
<1> HIDE DEF q
<1>2. CASE k = Index(user)
  <2>1. q[k].value = v
    BY <1>1
  <2> QED
    BY <1>1, <1>2, <2>1 DEF Members, q
<1>3. CASE k # Index(user)
  BY <1>1, <1>3 DEF Members, q
<1> QED
  BY <1>2, <1>3

LEMMA NoMembers == DOMAIN <<>> = {}
  OBVIOUS

LEMMA MembersDel ==
  ASSUME NEW r, NEW keys, NEW user
  PROVE  Members(Del(r, keys), user) = IF Index(user) \in keys THEN <<>> ELSE Members(r, user)
<1> DEFINE q == Del(r, keys)
<1>1. /\ DOMAIN q = DOMAIN r \ keys
      /\ \A key \in DOMAIN q : q[key] = r[key]
  BY DelFacts
<1> HIDE DEF q
<1> QED
  BY <1>1 DEF Members, q

LEMMA AliveMembers ==
  ASSUME NEW r, NEW t
  PROVE  FewerMembers(r, Alive(r, t))
<1> DEFINE q == Alive(r, t)
<1>1. /\ DOMAIN q \subseteq DOMAIN r
      /\ \A key \in DOMAIN q : q[key] = r[key]
  BY ZenonT(60), AliveFacts
<1> HIDE DEF q
<1>2. ASSUME NEW user PROVE Members(q, user) \in {<<>>, Members(r, user)}
  BY <1>1 DEF Members
<1> QED
  BY <1>2, NoMembers DEF FewerMembers, Fewer, Member, MemberEnd, q

LEMMA ZRemMembers ==
  ASSUME NEW r, NEW user, NEW sids
  PROVE  /\ FewerMembers(r, ZRem(r, user, sids))
         /\ \A sid \in sids : ~Member(ZRem(r, user, sids), user, sid)
<1> DEFINE kept == Restrict(Members(r, user), DOMAIN Members(r, user) \ sids)
           q == ZRem(r, user, sids)
<1>1. /\ DOMAIN kept = DOMAIN Members(r, user) \ sids
      /\ \A sid \in DOMAIN kept : kept[sid] = Members(r, user)[sid]
  BY DEF Restrict
<1>2. q = IF DOMAIN kept = {} THEN Del(r, {Index(user)})
          ELSE Put(r, Index(user), kept, r[Index(user)].end)
  BY DEF ZRem
<1> HIDE DEF kept, q
<1>3. /\ Members(q, user) = IF DOMAIN kept = {} THEN <<>> ELSE kept
      /\ \A x : x # user => Members(q, x) = Members(r, x)
  BY <1>2, MembersDel, MembersPut, IndexFacts
<1>4. /\ DOMAIN Members(q, user) = DOMAIN kept
      /\ \A sid \in DOMAIN kept : Members(q, user)[sid] = Members(r, user)[sid]
  BY <1>1, <1>3, NoMembers
<1>5. \A sid \in sids : ~Member(q, user, sid)
  BY <1>1, <1>4 DEF Member
<1>6. ASSUME NEW x, NEW sid PROVE Fewer(r, q, x, sid)
  BY <1>1, <1>3, <1>4 DEF Fewer, Member, MemberEnd
<1> QED
  BY <1>5, <1>6 DEF FewerMembers, q

LEMMA ZAddMembers ==
  ASSUME NEW r, NEW user, NEW sid, NEW t
  PROVE  LET q == ZAdd(r, user, sid, t)
         IN /\ Member(q, user, sid) /\ MemberEnd(q, user, sid) = t
            /\ \A x, y : x # user \/ y # sid => Fewer(r, q, x, y)
<1> DEFINE old == Members(r, user)
           new == [s \in DOMAIN old \cup {sid} |-> IF s = sid THEN t ELSE old[s]]
           q == ZAdd(r, user, sid, t)
<1>1. PICK end : q = Put(r, Index(user), new, end)
  BY DEF ZAdd
<1>2. /\ DOMAIN new = DOMAIN old \cup {sid} /\ new[sid] = t
      /\ \A s \in DOMAIN old : s # sid => new[s] = old[s]
  OBVIOUS
<1> HIDE DEF new, q
<1>3. /\ Members(q, user) = new
      /\ \A x : x # user => Members(q, x) = Members(r, x)
  BY <1>1, MembersPut, IndexFacts
<1> QED
  BY <1>2, <1>3 DEF Fewer, Member, MemberEnd, q

LEMMA OtherMembers ==
  ASSUME NEW r
  PROVE  /\ \A keys : FewerMembers(r, Del(r, keys))
         /\ \A k, v, t : ~IsIndex(k) => FewerMembers(r, Put(r, k, v, t))
<1>1. ASSUME NEW keys PROVE FewerMembers(r, Del(r, keys))
  BY MembersDel, NoMembers DEF FewerMembers, Fewer, Member, MemberEnd
<1>2. ASSUME NEW k, NEW v, NEW t, ~IsIndex(k) PROVE FewerMembers(r, Put(r, k, v, t))
  <2>1. \A user : k # Index(user)
    BY <1>2 DEF IsIndex, Index
  <2>2. \A user : Members(Put(r, k, v, t), user) = Members(r, user)
    BY <2>1, MembersPut
  <2> QED
    BY <2>2 DEF FewerMembers, Fewer, Member, MemberEnd
<1> QED
  BY <1>1, <1>2

LEMMA SettleMembers ==
  ASSUME NEW r, NEW user, NEW t
  PROVE  FewerMembers(r, SettleIndex(r, user, t))
<1> DEFINE q == ZRem(r, user, {sid \in DOMAIN Members(r, user) : Members(r, user)[sid] <= t})
           ends == {Members(q, user)[sid] : sid \in DOMAIN Members(q, user)}
           last == CHOOSE t1 \in ends : \A t2 \in ends : t2 <= t1
           f == SettleIndex(r, user, t)
<1>1. FewerMembers(r, q)
  BY ZRemMembers
<1>2. f \in {q, Put(q, Index(user), Members(q, user), last)}
  BY DEF SettleIndex
<1> HIDE DEF q, last, f
<1>3. \A x : Members(f, x) = Members(q, x)
  BY <1>2, MembersPut, IndexFacts
<1> QED
  BY <1>1, <1>3 DEF FewerMembers, Fewer, Member, MemberEnd, f

LEMMA FewerMembersOver ==
  ASSUME NEW r, NEW q, NEW s, FewerMembers(r, q), FewerMembers(q, s)
  PROVE  FewerMembers(r, s)
  BY FewerOver DEF FewerMembers

LEMMA ForgetMembers ==
  ASSUME NEW r, NEW p, ~IsCsrf(p), NEW old \in RowOf(p), old # NoRow, NEW new \in RowOf(p)
  PROVE  LET q == ForgetSession(r, old, new)
         IN /\ FewerMembers(r, q)
            /\ new = NoRow \/ new.user # old.user => ~Member(q, old.user, p[2])
<1> DEFINE q == Del(r, {Refresh(old.hash)})
           s == Del(q, {Session(old.sid)})
           f == ForgetSession(r, old, new)
<1>1. old.sid = p[2] /\ (new # NoRow => new.sid = p[2])
  BY RowFacts
<1>2. FewerMembers(r, q) /\ FewerMembers(q, s)
  BY OtherMembers
<1>3. \/ f = q /\ ~(new = NoRow \/ new.user # old.user)
      \/ f \in {ZRem(s, old.user, {p[2]}), ZRem(q, old.user, {p[2]})}
  BY <1>1 DEF ForgetSession
<1> HIDE DEF f, q, s
<1>4. CASE f = q /\ ~(new = NoRow \/ new.user # old.user)
  BY <1>2, <1>4 DEF f
<1>5. ASSUME NEW g \in {s, q}, f = ZRem(g, old.user, {p[2]})
      PROVE  FewerMembers(r, f) /\ ~Member(f, old.user, p[2])
  <2>1. FewerMembers(r, g)
    BY <1>2, FewerMembersOver
  <2>2. FewerMembers(g, f) /\ ~Member(f, old.user, p[2])
    BY <1>5, ZRemMembers
  <2> QED
    BY <2>1, <2>2, FewerMembersOver
<1> QED
  BY <1>3, <1>4, <1>5 DEF f

LEMMA StoreMembers ==
  ASSUME NEW r, NEW p, ~IsCsrf(p), NEW new \in RowOf(p), new # NoRow, NEW t
  PROVE  LET q == StoreSession(r, new, t)
         IN /\ Member(q, new.user, p[2]) => MemberEnd(q, new.user, p[2]) = new.end
            /\ \A user, sid : user # new.user \/ sid # p[2] => Fewer(r, q, user, sid)
<1> DEFINE f == StoreSession(r, new, t)
<1>1. new.sid = p[2]
  BY RowFacts
<1>2. CASE new.end <= t
  <2> DEFINE q == Del(r, {Session(new.sid), Refresh(new.hash)})
  <2>1. f = ZRem(q, new.user, {p[2]})
    BY <1>1, <1>2 DEF StoreSession
  <2>2. FewerMembers(r, q)
    BY OtherMembers
  <2> HIDE DEF q, f
  <2>3. FewerMembers(q, f) /\ ~Member(f, new.user, p[2])
    BY <2>1, ZRemMembers
  <2>4. FewerMembers(r, f)
    BY <2>2, <2>3, FewerMembersOver
  <2> QED
    BY <2>3, <2>4 DEF f, FewerMembers
<1>3. CASE ~(new.end <= t)
  <2> DEFINE s == Put(r, Session(new.sid), [user |-> new.user, hash |-> new.hash], new.end)
             q == Put(s, Refresh(new.hash), new.sid, new.end)
  <2>1. f = ZAdd(q, new.user, p[2], new.end)
    BY <1>1, <1>3 DEF StoreSession
  <2>2. ~IsIndex(Session(new.sid)) /\ ~IsIndex(Refresh(new.hash))
    BY DEF IsIndex, Session, Refresh
  <2>3. FewerMembers(r, s)
    BY <2>2, OtherMembers
  <2> HIDE DEF s
  <2>4. FewerMembers(s, q)
    BY <2>2, OtherMembers
  <2> HIDE DEF q, f
  <2>5. FewerMembers(r, q)
    BY <2>3, <2>4, FewerMembersOver
  <2>6. /\ MemberEnd(f, new.user, p[2]) = new.end
        /\ \A x, y : x # new.user \/ y # p[2] => Fewer(q, f, x, y)
    BY <2>1, ZAddMembers
  <2>7. \A x, y : x # new.user \/ y # p[2] => Fewer(r, f, x, y)
    BY <2>5, <2>6, FewerOver DEF FewerMembers
  <2> QED
    BY <2>6, <2>7 DEF f
<1> QED
  BY <1>2, <1>3

LEMMA TokenMembers ==
  ASSUME NEW r, NEW e, NEW t
  PROVE  FewerMembers(r, ApplyToken(r, e, t))
<1> DEFINE q == IF e.before # NoRow /\ (e.after = NoRow \/ e.after.context # e.before.context)
                THEN Del(r, {Csrf(e.before.context)}) ELSE r
           f == ApplyToken(r, e, t)
<1>1. \A s : FewerMembers(s, s)
  BY DEF FewerMembers, Fewer
<1>2. FewerMembers(r, q)
  BY <1>1, OtherMembers
<1>3. f \in {q, Del(q, {Csrf(e.after.context)}),
             Put(q, Csrf(e.after.context), e.after.value, e.after.end)}
  BY DEF ApplyToken
<1>4. ~IsIndex(Csrf(e.after.context))
  BY DEF IsIndex, Csrf
<1> HIDE DEF q, f
<1>5. FewerMembers(q, f)
  BY <1>1, <1>3, <1>4, OtherMembers
<1> QED
  BY <1>2, <1>5, FewerMembersOver DEF f

\* A change touches at most its own session: where that was and where it is now.
LEMMA ApplyMembers ==
  ASSUME NEW r, NEW e, NEW t, e.before \in RowOf(e.row), e.after \in RowOf(e.row),
         NEW user, NEW sid
  PROVE  LET q == Apply(r, e, t)
             is(row) == row # NoRow /\ row.user = user
         IN IF IsCsrf(e.row) \/ sid # e.row[2] THEN Fewer(r, q, user, sid)
            ELSE IF is(e.after)
                 THEN Member(q, user, sid) => MemberEnd(q, user, sid) = e.after.end
                 ELSE /\ Fewer(r, q, user, sid)
                      /\ is(e.before) => ~Member(q, user, sid)
<1> DEFINE f == Apply(r, e, t)
           p == e.row
           is(row) == row # NoRow /\ row.user = user
<1>1. CASE IsCsrf(p)
  BY <1>1, TokenMembers DEF Apply, FewerMembers
<1>2. CASE ~IsCsrf(p)
  <2> DEFINE q == IF e.before = NoRow THEN r ELSE ForgetSession(r, e.before, e.after)
  <2>1. f = IF e.after = NoRow THEN q ELSE StoreSession(q, e.after, t)
    BY <1>2 DEF Apply, ApplySession
  <2>2. /\ FewerMembers(r, q)
        /\ e.before # NoRow /\ (e.after = NoRow \/ e.after.user # e.before.user) =>
             ~Member(q, e.before.user, p[2])
    <3>1. CASE e.before = NoRow
      BY <3>1 DEF FewerMembers, Fewer
    <3>2. CASE e.before # NoRow
      BY <1>2, <3>2, ForgetMembers
    <3> QED
      BY <3>1, <3>2
  <2> HIDE DEF q, f
  <2>3. CASE e.after = NoRow
    <3>1. f = q
      BY <2>1, <2>3
    <3> QED
      BY <1>2, <2>2, <2>3, <3>1 DEF FewerMembers, f
  <2>4. CASE e.after # NoRow
    <3>1. f = StoreSession(q, e.after, t)
      BY <2>1, <2>4
    <3>2. /\ Member(f, e.after.user, p[2]) => MemberEnd(f, e.after.user, p[2]) = e.after.end
          /\ \A x, y : x # e.after.user \/ y # p[2] => Fewer(q, f, x, y)
      BY <1>2, <2>4, <3>1, StoreMembers
    <3>3. user # e.after.user \/ sid # p[2] => Fewer(q, f, user, sid) /\ Fewer(r, f, user, sid)
      BY <2>2, <3>2, FewerOver DEF FewerMembers
    <3>4. CASE user = e.after.user /\ sid = p[2]
      BY <1>2, <2>4, <3>2, <3>4 DEF f
    <3>5. CASE user = e.after.user /\ sid # p[2]
      BY <1>2, <3>3, <3>5 DEF f
    <3>6. CASE user # e.after.user
      <4>1. sid = p[2] /\ is(e.before) => ~Member(f, user, sid)
        BY <2>2, <3>3, <3>6 DEF Fewer
      <4> QED
        BY <1>2, <3>3, <3>6, <4>1 DEF f
    <3> QED
      BY <3>4, <3>5, <3>6
  <2> QED
    BY <2>3, <2>4
<1> QED
  BY <1>1, <1>2

\* Members that leave, and time that passes, leave the rest as far behind.
LEMMA FewerBehind ==
  ASSUME NEW r, NEW q, FewerMembers(r, q), NEW t \in Nat, NEW u \in Nat, t <= u,
         NEW l, NEW low, MembersBehind(r, t, l, low)
  PROVE  MembersBehind(q, u, l, low)
<1> SUFFICES ASSUME NEW user, NEW sid
             PROVE  \E k \in Nat : low <= k /\ k <= Len(l) /\ MemberIs(q, u, l, user, sid, k)
  BY DEF MembersBehind
<1>1. PICK k \in Nat : low <= k /\ k <= Len(l) /\ MemberIs(r, t, l, user, sid, k)
  BY DEF MembersBehind
<1>2. MemberIs(q, t, l, user, sid, k)
  BY <1>1, FewerIs DEF FewerMembers
<1>3. \A end \in Nat : end > u => end > t
  OBVIOUS
<1>4. MemberIs(q, u, l, user, sid, k)
  BY <1>2, <1>3 DEF MemberIs
<1> QED
  BY <1>1, <1>4

\* So it is with the members.
LEMMA ApplyMembersBehind ==
  ASSUME NEW r, NEW s, NEW t \in Nat,
         NEW l \in Seq(Changes), Chained(l), NEW n \in 1..Len(l),
         MembersBehind(r, t, l, n - 1)
  PROVE  MembersBehind(Alive(Apply(r, l[n], s), t), t, l, n)
<1> DEFINE e == l[n]
           p == e.row
           q == Apply(r, e, s)
           is(row, user) == row # NoRow /\ row.user = user
<1>1. /\ n \in Nat /\ n - 1 \in Nat /\ (n - 1) + 1 = n /\ n <= Len(l) /\ n - 1 <= Len(l)
      /\ Len(l) \in Nat
  OBVIOUS
<1>2. e \in Changes
  OBVIOUS
<1>3. p \in Rows /\ e.before \in RowOf(p) /\ e.after \in RowOf(p)
  BY <1>2, ChangeFacts
<1>4. /\ Row(l, p, n - 1) = e.before
      /\ Row(l, p, n) = e.after
      /\ \A x : x # p => Row(l, x, n) = Row(l, x, n - 1)
  <2>1. \A x : Row(l, x, n) = IF l[n].row = x THEN l[n].after ELSE Row(l, x, n - 1)
    BY SMTT(30), <1>1, RowNext
  <2> QED
    BY <2>1 DEF Chained
<1> HIDE DEF e, p, q
<1>5. ASSUME NEW user, NEW sid
      PROVE  \E k \in Nat : n <= k /\ k <= Len(l) /\ MemberIs(q, t, l, user, sid, k)
  <2>1. PICK k \in Nat : n - 1 <= k /\ k <= Len(l) /\ MemberIs(r, t, l, user, sid, k)
    BY DEF MembersBehind
  <2>2. IF IsCsrf(p) \/ sid # p[2] THEN Fewer(r, q, user, sid)
        ELSE IF is(e.after, user)
             THEN Member(q, user, sid) => MemberEnd(q, user, sid) = e.after.end
             ELSE /\ Fewer(r, q, user, sid)
                  /\ is(e.before, user) => ~Member(q, user, sid)
    BY <1>3, ApplyMembers DEF q, p
  <2>3. n <= k \/ k = n - 1
    BY <1>1, <2>1
  <2>4. CASE IsCsrf(p) \/ sid # p[2]
    <3>1. MemberIs(q, t, l, user, sid, k)
      BY <2>1, <2>2, <2>4, FewerIs
    <3>2. SessionRow(sid) # p
      BY <2>4 DEF SessionRow, IsCsrf
    <3>3. Row(l, SessionRow(sid), n) = Row(l, SessionRow(sid), n - 1)
      BY <1>4, <3>2
    <3>4. k = n - 1 => MemberIs(q, t, l, user, sid, n)
      BY <3>1, <3>3 DEF MemberIs
    <3> QED
      BY <1>1, <2>1, <2>3, <3>1, <3>4
  <2>5. CASE ~IsCsrf(p) /\ sid = p[2]
    <3>0. SessionRow(sid) = p
      BY <1>3, <2>5 DEF SessionRow, IsCsrf, Rows
    <3>1. CASE is(e.after, user)
      <4>1. e.after.end \in Nat
        BY <1>3, <2>5, <3>1 DEF RowOf, Login
      <4>2. MemberIs(q, t, l, user, sid, n)
        BY <1>3, <1>4, <2>2, <2>5, <3>0, <3>1, <4>1 DEF MemberIs
      <4> QED
        BY <1>1, <4>2
    <3>2. CASE ~is(e.after, user)
      <4>1. Fewer(r, q, user, sid) /\ (is(e.before, user) => ~Member(q, user, sid))
        BY <2>2, <2>5, <3>2
      <4>2. MemberIs(q, t, l, user, sid, k)
        BY <2>1, <4>1, FewerIs
      <4>3. k = n - 1 => MemberIs(q, t, l, user, sid, n)
        <5> SUFFICES ASSUME k = n - 1, Member(q, user, sid)
                     PROVE  /\ SessionRow(sid) \in Rows
                            /\ MemberEnd(q, user, sid) \in Nat
                            /\ ~(MemberEnd(q, user, sid) > t)
          BY DEF MemberIs
        <5>1. ~is(e.before, user)
          BY <4>1
        <5> QED
          BY <1>4, <3>0, <4>2, <5>1 DEF MemberIs
      <4> QED
        BY <1>1, <2>1, <2>3, <4>2, <4>3
    <3> QED
      BY <3>1, <3>2
  <2> QED
    BY <2>4, <2>5
<1>6. MembersBehind(q, t, l, n)
  BY <1>5 DEF MembersBehind
<1>7. FewerMembers(q, Alive(q, t)) /\ t <= t
  BY AliveMembers
<1> QED
  BY <1>6, <1>7, FewerBehind DEF q, e

-----------------------------------------------------------------------------
(* Behind a log is behind a longer one, and no further than before.          *)

\* The log grows, or what was applied is applied again.
LEMMA LongerBehind ==
  ASSUME NEW l \in Seq(Changes), NEW m \in Seq(Changes), Len(l) <= Len(m),
         \A i \in 1..Len(l) : m[i] = l[i],
         NEW low \in Nat, NEW new \in Nat, new <= low, NEW r, NEW t
  PROVE  /\ KeysBehind(r, t, l, low) => KeysBehind(r, t, m, new)
         /\ MembersBehind(r, t, l, low) => MembersBehind(r, t, m, new)
<1>1. Len(l) \in Nat /\ Len(m) \in Nat
  OBVIOUS
<1>2. ASSUME NEW k \in Nat, k <= Len(l)
      PROVE  \A p : Row(m, p, k) = Row(l, p, k)
  <2>1. \A i \in 1..k : m[i] = l[i]
    BY <1>1, <1>2
  <2> QED
    BY <2>1, RowLonger
<1>3. \A k \in Nat : low <= k /\ k <= Len(l) => new <= k /\ k <= Len(m)
  BY <1>1
<1>4. ASSUME KeysBehind(r, t, l, low), NEW key, ~IsIndex(key)
      PROVE  \E k \in Nat : new <= k /\ k <= Len(m) /\ KeyIs(r, t, m, key, k)
  <2>1. PICK k \in Nat : low <= k /\ k <= Len(l) /\ KeyIs(r, t, l, key, k)
    BY <1>4 DEF KeysBehind
  <2>2. KeyIs(r, t, m, key, k)
    BY <1>2, <2>1 DEF KeyIs
  <2> QED
    BY <1>3, <2>1, <2>2
<1>5. ASSUME MembersBehind(r, t, l, low), NEW user, NEW sid
      PROVE  \E k \in Nat : new <= k /\ k <= Len(m) /\ MemberIs(r, t, m, user, sid, k)
  <2>1. PICK k \in Nat : low <= k /\ k <= Len(l) /\ MemberIs(r, t, l, user, sid, k)
    BY <1>5 DEF MembersBehind
  <2>2. MemberIs(r, t, m, user, sid, k)
    BY <1>2, <2>1 DEF MemberIs
  <2> QED
    BY <1>3, <2>1, <2>2
<1> QED
  BY <1>4, <1>5 DEF KeysBehind, MembersBehind

\* Two logs that end with the same rows.
LEMMA MoveBehind ==
  ASSUME NEW l \in Seq(Changes), NEW m \in Seq(Changes),
         \A p \in Rows : Row(l, p, Len(l)) = Row(m, p, Len(m)), NEW r, NEW t
  PROVE  /\ KeysBehind(r, t, l, Len(l)) => KeysBehind(r, t, m, Len(m))
         /\ MembersBehind(r, t, l, Len(l)) => MembersBehind(r, t, m, Len(m))
<1>1. Len(l) \in Nat /\ Len(m) \in Nat
  OBVIOUS
<1>2. ASSUME KeysBehind(r, t, l, Len(l)), NEW key, ~IsIndex(key)
      PROVE  \E k \in Nat : Len(m) <= k /\ k <= Len(m) /\ KeyIs(r, t, m, key, k)
  <2>1. PICK k \in Nat : Len(l) <= k /\ k <= Len(l) /\ KeyIs(r, t, l, key, k)
    BY <1>2 DEF KeysBehind
  <2>2. KeyIs(r, t, l, key, Len(l))
    BY <1>1, <2>1
  <2>3. KeyIs(r, t, m, key, Len(m))
    BY <2>2 DEF KeyIs
  <2> QED
    BY <1>1, <2>3
<1>3. ASSUME MembersBehind(r, t, l, Len(l)), NEW user, NEW sid
      PROVE  \E k \in Nat : Len(m) <= k /\ k <= Len(m) /\ MemberIs(r, t, m, user, sid, k)
  <2>1. PICK k \in Nat : Len(l) <= k /\ k <= Len(l) /\ MemberIs(r, t, l, user, sid, k)
    BY <1>3 DEF MembersBehind
  <2>2. MemberIs(r, t, l, user, sid, Len(l))
    BY <1>1, <2>1
  <2>3. MemberIs(r, t, m, user, sid, Len(m))
    BY <2>2 DEF MemberIs
  <2> QED
    BY <1>1, <2>3
<1> QED
  BY <1>2, <1>3 DEF KeysBehind, MembersBehind

-----------------------------------------------------------------------------
(* One context has at most one token at a time, so no two rows share a key.  *)

Owns(p, row, context) == IsCsrf(p) /\ row # NoRow /\ row.context = context

DistinctAt(l, k) ==
  \A context : \A p, q \in Rows :
    Owns(p, Row(l, p, k), context) /\ Owns(q, Row(l, q, k), context) => p = q

Distinct(l, low) == \A k \in Nat : low <= k /\ k <= Len(l) => DistinctAt(l, k)

\* Sessions have keys of their own by their ids, tokens by their contexts.
LEMMA DistinctKeys ==
  ASSUME NEW l \in Seq(Changes), NEW low, Distinct(l, low)
  PROVE  Disjoint(l, low)
<1> SUFFICES ASSUME NEW k \in Nat, low <= k, k <= Len(l), NEW p \in Rows, NEW q \in Rows,
                    NEW key \in KeysOf(p, Row(l, p, k)), key \in KeysOf(q, Row(l, q, k))
             PROVE  p = q
  BY DEF Disjoint
<1> DEFINE v == Row(l, p, k)
           w == Row(l, q, k)
<1>1. v \in RowOf(p) /\ w \in RowOf(q)
  BY RowType
<1>2. v # NoRow /\ w # NoRow
  BY DEF KeysOf
<1>3. DistinctAt(l, k)
  BY DEF Distinct
<1> HIDE DEF v, w
<1>4. /\ \A x, y : Csrf(x) = Csrf(y) => x = y
      /\ \A x, y : Session(x) = Session(y) => x = y
      /\ \A x, y : Refresh(x) = Refresh(y) => x = y
      /\ \A x, y : Csrf(x) # Session(y) /\ Csrf(x) # Refresh(y) /\ Session(x) # Refresh(y)
  BY DEF Csrf, Session, Refresh
<1>5. CASE IsCsrf(p) /\ IsCsrf(q)
  <2>1. key = Csrf(v.context) /\ key = Csrf(w.context)
    BY <1>2, <1>5 DEF KeysOf, v, w
  <2>2. v.context = w.context
    BY <1>4, <2>1
  <2> QED
    BY <1>2, <1>3, <1>5, <2>2 DEF DistinctAt, Owns, v, w
<1>6. CASE ~IsCsrf(p) /\ ~IsCsrf(q)
  <2>1. v.sid = p[2] /\ v.hash[1] = p[2] /\ w.sid = q[2] /\ w.hash[1] = q[2]
    BY <1>1, <1>2, <1>6, RowFacts
  <2>2. key \in {Session(v.sid), Refresh(v.hash)} /\ key \in {Session(w.sid), Refresh(w.hash)}
    BY <1>2, <1>6 DEF KeysOf, v, w
  <2>3. v.sid = w.sid \/ v.hash = w.hash
    BY <1>4, <2>2
  <2>4. p[2] = q[2]
    BY <2>1, <2>3
  <2> QED
    BY <1>6, <2>4 DEF Rows, IsCsrf
<1>7. CASE IsCsrf(p) /\ ~IsCsrf(q)
  <2>1. key = Csrf(v.context) /\ key \in {Session(w.sid), Refresh(w.hash)}
    BY <1>2, <1>7 DEF KeysOf, v, w
  <2> QED
    BY <1>4, <2>1
<1>8. CASE ~IsCsrf(p) /\ IsCsrf(q)
  <2>1. key = Csrf(w.context) /\ key \in {Session(v.sid), Refresh(v.hash)}
    BY <1>2, <1>8 DEF KeysOf, v, w
  <2> QED
    BY <1>4, <2>1
<1> QED
  BY <1>5, <1>6, <1>7, <1>8

\* A log one change longer, whose end is distinct too.
LEMMA DistinctLonger ==
  ASSUME NEW l \in Seq(Changes), NEW m \in Seq(Changes),
         Len(l) <= Len(m), Len(m) <= Len(l) + 1,
         \A i \in 1..Len(l) : m[i] = l[i], NEW low, Distinct(l, low), DistinctAt(m, Len(m))
  PROVE  Distinct(m, low)
<1> SUFFICES ASSUME NEW k \in Nat, low <= k, k <= Len(m) PROVE DistinctAt(m, k)
  BY DEF Distinct
<1>1. Len(l) \in Nat /\ Len(m) \in Nat
  OBVIOUS
<1>2. CASE k = Len(m)
  BY <1>2
<1>3. CASE k # Len(m)
  <2>1. k <= Len(l)
    BY <1>1, <1>3
  <2>2. \A i \in 1..k : m[i] = l[i]
    BY <1>1, <2>1
  <2>3. \A p : Row(m, p, k) = Row(l, p, k)
    BY <2>2, RowLonger
  <2>4. DistinctAt(l, k)
    BY <2>1 DEF Distinct
  <2> QED
    BY <2>3, <2>4 DEF DistinctAt
<1> QED
  BY <1>2, <1>3

-----------------------------------------------------------------------------
(* The invariant: what Redis has is behind the log the application writes, no further *)
(* than its consumer got, and from the handover on no further than the boundary.      *)

Floor == IF phase = "open" THEN boundary ELSE 0
Passed(o) == Reached(topic[o], committed[o], at[o] = "applied")
From == IF Passed(Authority) > Floor THEN Passed(Authority) ELSE Floor

Histories == \A o \in Origins : Chained(log[o]) /\ EndsAt(log[o], table[o])

Streams == \A o \in Origins : Gapless(topic[o], read[o])

\* What the handoff waited for stays so.
Handed ==
  /\ phase \in {"stopped", "promised", "open"} => read["source"] = Len(log["source"])
  /\ BoundaryKnown => /\ committed["source"] = Len(topic["source"])
                      /\ boundary <= Len(log["target"])
  /\ phase = "promised" => boundary = Len(log["target"])
  /\ at["target"] # "poll" => phase = "open" /\ Position("target") > boundary
  /\ \A o \in Origins : now[o] <= clock

RedisBehind ==
  /\ KeysBehind(redis, clock, log[Authority], From)
  /\ MembersBehind(redis, clock, log[Authority], From)

ProjInv ==
  /\ MirrorInv /\ Histories /\ Streams /\ Handed
  /\ Distinct(log[Authority], Floor)
  /\ RedisBehind

LogsGrow ==
  \A o \in Origins :
    /\ Len(log[o]) <= Len(log'[o]) /\ Len(log'[o]) <= Len(log[o]) + 1
    /\ \A i \in 1..Len(log[o]) : log'[o][i] = log[o][i]

LEMMA OriginFacts ==
  ASSUME AuthTypeOK
  PROVE  /\ Origins = {"source", "target"} /\ Authority \in Origins
         /\ clock \in Nat /\ boundary \in Nat /\ Floor \in Nat
         /\ \A o \in Origins :
              /\ log[o] \in Seq(Changes) /\ Len(log[o]) \in Nat
              /\ topic[o] \in Seq(Nat \ {0}) /\ Len(topic[o]) \in Nat
              /\ \A i \in 1..Len(topic[o]) :
                   topic[o][i] \in Nat \ {0} /\ topic[o][i] <= Len(log[o])
              /\ committed[o] \in Nat /\ committed[o] <= Len(topic[o])
              /\ at[o] # "poll" => committed[o] < Len(topic[o])
              /\ read[o] \in Nat /\ read[o] <= Len(log[o])
              /\ now[o] \in Nat
              /\ table[o] \in [Rows -> UNION {RowOf(p) : p \in Rows}]
              /\ \A p \in Rows : table[o][p] \in RowOf(p)
<1>1. Origins = {"source", "target"} /\ Authority \in Origins
  BY DEF Origins, Authority
<1>2. clock \in Nat /\ boundary \in Nat /\ Floor \in Nat
  BY AuthAssumption DEF AuthTypeOK, Floor
<1>3. ASSUME NEW o \in Origins
      PROVE  /\ log[o] \in Seq(Changes) /\ Len(log[o]) \in Nat
             /\ topic[o] \in Seq(Nat \ {0}) /\ Len(topic[o]) \in Nat
             /\ \A i \in 1..Len(topic[o]) :
                  topic[o][i] \in Nat \ {0} /\ topic[o][i] <= Len(log[o])
             /\ committed[o] \in Nat /\ committed[o] <= Len(topic[o])
             /\ at[o] # "poll" => committed[o] < Len(topic[o])
             /\ read[o] \in Nat /\ read[o] <= Len(log[o])
  BY DEF AuthTypeOK
<1>4. ASSUME NEW o \in Origins
      PROVE  /\ now[o] \in Nat
             /\ table[o] \in [Rows -> UNION {RowOf(p) : p \in Rows}]
             /\ \A p \in Rows : table[o][p] \in RowOf(p)
  BY AuthAssumption DEF AuthTypeOK
<1> QED
  BY <1>1, <1>2, <1>3, <1>4

LEMMA PassedFacts ==
  ASSUME AuthTypeOK, NEW o \in Origins
  PROVE  Passed(o) \in Nat /\ Passed(o) <= Len(log[o])
<1> DEFINE s == topic[o]
           c == committed[o]
           past == at[o] = "applied"
           n == Len(log[o])
<1>1. /\ s \in Seq(Nat \ {0}) /\ c \in Nat /\ c <= Len(s) /\ past \in BOOLEAN
      /\ past => c < Len(s)
      /\ n \in Nat /\ \A i \in 1..Len(s) : s[i] <= n
  BY OriginFacts
<1> HIDE DEF s, c, past, n
<1>2. Reached(s, c, past) \in Nat /\ Reached(s, c, past) <= n
  BY <1>1, ReachedType
<1> QED
  BY <1>2 DEF Passed, s, c, past, n

LEMMA FromFacts ==
  ASSUME AuthTypeOK, Handed
  PROVE  /\ From \in Nat /\ From <= Len(log[Authority])
         /\ Floor <= From /\ Floor <= Len(log[Authority]) /\ Passed(Authority) <= From
<1>1. /\ Authority \in Origins /\ Len(log[Authority]) \in Nat /\ Floor \in Nat
      /\ Passed(Authority) \in Nat /\ Passed(Authority) <= Len(log[Authority])
  BY OriginFacts, PassedFacts
<1>2. Floor <= Len(log[Authority])
  BY <1>1 DEF Handed, Floor, Authority, BoundaryKnown
<1> QED
  BY <1>1, <1>2 DEF From

-----------------------------------------------------------------------------
(* The logs only grow, and keep their histories.                            *)

\* A change of a row of origin o, logged as it is made.
LEMMA ChangeHistories ==
  ASSUME AuthTypeOK, Histories, NEW o \in Origins, NEW p \in Rows, NEW new \in RowOf(p),
         table' = [table EXCEPT ![o] = [table[o] EXCEPT ![p] = new]],
         log' = [log EXCEPT ![o] = Logged(log[o], p, table[o][p], new)]
  PROVE  Histories' /\ LogsGrow
<1>1. /\ log[o] \in Seq(Changes) /\ table[o] \in [Rows -> UNION {RowOf(q) : q \in Rows}]
      /\ table[o][p] \in RowOf(p) /\ Chained(log[o]) /\ EndsAt(log[o], table[o])
  BY OriginFacts DEF Histories
<1> DEFINE m == Logged(log[o], p, table[o][p], new)
           rows == [table[o] EXCEPT ![p] = new]
<1>2. /\ Chained(m) /\ EndsAt(m, rows)
      /\ Len(m) \in Nat /\ Len(m) >= Len(log[o]) /\ Len(m) <= Len(log[o]) + 1
      /\ \A i \in 1..Len(log[o]) : m[i] = log[o][i]
  BY <1>1, LoggedHistory
<1>3. /\ \A x \in Origins : log'[x] = IF x = o THEN m ELSE log[x]
      /\ \A x \in Origins : table'[x] = IF x = o THEN rows ELSE table[x]
  BY DEF AuthTypeOK
<1> HIDE DEF m, rows
<1>4. \A x \in Origins : Len(log[x]) \in Nat
  BY OriginFacts
<1> QED
  BY <1>2, <1>3, <1>4 DEF Histories, LogsGrow

LEMMA SameHistories ==
  ASSUME AuthTypeOK, Histories, UNCHANGED <<table, log>>
  PROVE  Histories' /\ LogsGrow
<1>1. \A x \in Origins : Len(log[x]) \in Nat
  BY OriginFacts
<1> QED
  BY <1>1 DEF Histories, LogsGrow

LEMMA WriteHistories ==
  ASSUME AuthTypeOK, Histories, NEW p \in Rows, NEW new \in RowOf(p), Write(p, new)
  PROVE  Histories' /\ LogsGrow
<1> DEFINE o == Authority
<1>1. o \in Origins
  BY OriginFacts
<1>2. /\ table' = [table EXCEPT ![o] = [table[o] EXCEPT ![p] = new]]
      /\ log' = [log EXCEPT ![o] = Logged(log[o], p, table[o][p], new)]
  BY DEF Write
<1> QED
  BY <1>1, <1>2, ChangeHistories

LEMMA MirrorHistories ==
  ASSUME AuthTypeOK, Histories, Mirror
  PROVE  Histories' /\ LogsGrow
<1> DEFINE e == Event("source")
<1>1. {"source", "target"} = Origins
  BY DEF Origins
<1>2. e \in Changes
  BY <1>1, EventFacts DEF Mirror
<1>3. e.row \in Rows /\ e.after \in RowOf(e.row)
  BY <1>2, ChangeFacts
<1>4. table' = [table EXCEPT !["target"] = [table["target"] EXCEPT ![e.row] = e.after]]
  BY DEF Mirror, Upserted
<1>5. table'["target"][e.row] = e.after
  BY <1>1, <1>3, <1>4 DEF AuthTypeOK
<1>6. log' = [log EXCEPT !["target"] = Logged(log["target"], e.row, table["target"][e.row],
                                             e.after)]
  BY <1>5 DEF Mirror
<1> HIDE DEF e
<1> QED
  BY <1>1, <1>3, <1>4, <1>6, ChangeHistories

LEMMA StepHistories ==
  ASSUME AuthTypeOK, Histories, [Next]_authVars
  PROVE  Histories' /\ LogsGrow
<1>1. CASE Application
  BY <1>1, ApplicationWrites, WriteHistories
<1>2. CASE Mirror
  BY <1>2, MirrorHistories
<1>3. CASE Skip \/ Take \/ \E o \in Origins : Execute(o) \/ Settle(o) \/ Commit(o) \/ Crash(o)
  <2>1. UNCHANGED <<table, log>>
    BY <1>3 DEF Skip, Take, Execute, Settle, Commit, Crash, dbVars
  <2> QED
    BY <2>1, SameHistories
<1>4. CASE TimePasses \/ Handoff \/ UNCHANGED authVars
           \/ \E o \in Origins : Produce(o) \/ TaskRestarts(o)
  <2>1. UNCHANGED <<table, log>>
    BY <1>4 DEF TimePasses, Handoff, FenceSource, StopConnector, WriteBoundary, OpenTarget,
                handKeeps, authVars, Produce, TaskRestarts, dbVars
  <2> QED
    BY <2>1, SameHistories
<1> QED
  BY <1>1, <1>2, <1>3, <1>4 DEF Next, Consumer

-----------------------------------------------------------------------------
(* The streams stay without gaps.                                           *)

\* A connector, however far it went back, produces the next change.
LEMMA ProduceStreams ==
  ASSUME AuthTypeOK, Streams, NEW o \in Origins, Produce(o)
  PROVE  /\ Streams'
         /\ \A x \in Origins :
              Reached(topic'[x], committed[x], at[x] = "applied") <= Passed(x)
<1>1. /\ \A x \in Origins :
           topic'[x] = IF x = o THEN Append(topic[o], read[o] + 1) ELSE topic[x]
      /\ \A x \in Origins : read'[x] = IF x = o THEN read[o] + 1 ELSE read[x]
  BY DEF Produce, AuthTypeOK
<1> SUFFICES ASSUME NEW x \in Origins
             PROVE  /\ Gapless(topic'[x], read'[x])
                    /\ Reached(topic'[x], committed[x], at[x] = "applied") <= Passed(x)
  BY <1>1 DEF Streams
<1>2. Gapless(topic[x], read[x]) /\ Passed(x) \in Nat
  BY PassedFacts DEF Streams
<1>3. CASE x # o
  BY <1>1, <1>2, <1>3 DEF Passed
<1>4. CASE x = o
  <2> DEFINE s == topic[x]
             n == read[x]
             c == committed[x]
             past == at[x] = "applied"
  <2>1. /\ s \in Seq(Nat \ {0}) /\ n \in Nat /\ Gapless(s, n)
        /\ c \in Nat /\ c <= Len(s) /\ past \in BOOLEAN /\ (past => c < Len(s))
    BY <1>2, OriginFacts
  <2> HIDE DEF s, n, c, past
  <2>2. /\ Gapless(Append(s, n + 1), n + 1)
        /\ Reached(Append(s, n + 1), c, past) <= Reached(s, c, past)
    BY <2>1, ReachedLonger
  <2> QED
    BY <1>1, <1>4, <2>2 DEF Passed, s, n, c, past
<1> QED
  BY <1>3, <1>4

LEMMA RestartStreams ==
  ASSUME AuthTypeOK, Streams, NEW o \in Origins, TaskRestarts(o)
  PROVE  Streams'
<1>1. PICK flushed \in 0..(read[o] - 1) : read' = [read EXCEPT ![o] = flushed]
  BY DEF TaskRestarts
<1>2. \A x \in Origins : read'[x] \in Nat /\ read'[x] <= read[x] /\ topic'[x] = topic[x]
  BY SMTT(30), <1>1 DEF AuthTypeOK, TaskRestarts
<1> SUFFICES ASSUME NEW x \in Origins
             PROVE  Gapless(topic'[x], read'[x])
  BY DEF Streams
<1>3. /\ Gapless(topic[x], read[x]) /\ read[x] \in Nat /\ Len(topic[x]) \in Nat
      /\ Len(topic[x]) > 0 => topic[x][Len(topic[x])] \in Nat
  BY OriginFacts DEF Streams
<1> QED
  BY <1>2, <1>3 DEF Gapless

LEMMA StepStreams ==
  ASSUME AuthTypeOK, Streams, [Next]_authVars
  PROVE  Streams'
<1>1. CASE \E o \in Origins : Produce(o) \/ TaskRestarts(o)
  BY <1>1, ProduceStreams, RestartStreams
<1>2. CASE Application
  BY <1>2, ApplicationWrites DEF Write, streamVars, Streams
<1>3. CASE Consumer
  <2>1. UNCHANGED <<read, topic>>
    BY <1>3 DEF Consumer, Skip, Mirror, Take, Execute, Settle, Commit, Crash, streamVars
  <2> QED
    BY <2>1 DEF Streams
<1>4. CASE TimePasses \/ Handoff \/ UNCHANGED authVars
  <2>1. UNCHANGED <<read, topic>>
    BY <1>4 DEF TimePasses, Handoff, FenceSource, StopConnector, WriteBoundary, OpenTarget,
                handKeeps, authVars, streamVars
  <2> QED
    BY <2>1 DEF Streams
<1> QED
  BY <1>1, <1>2, <1>3, <1>4 DEF Next

-----------------------------------------------------------------------------
(* What the handoff waited for stays so.                                    *)

\* Whatever leaves the streams, the consumers and the handoff alone, and adds to no log
\* but the one the application writes.
LEMMA WriteHanded ==
  ASSUME AuthTypeOK, Handed, LogsGrow, NEW p, NEW new, Write(p, new)
  PROVE  Handed'
<1>1. /\ phase \in {"serving", "open"}
      /\ UNCHANGED <<read, topic, committed, at, now, clock, phase, boundary>>
  BY DEF Write, streamVars, consumerVars, handoffVars
<1>2. phase = "open" => log'["source"] = log["source"]
  BY DEF Write, Authority, AuthTypeOK, Origins
<1>3. /\ Len(log'["target"]) >= Len(log["target"]) /\ Len(log'["target"]) \in Nat
      /\ Len(log["target"]) \in Nat
  <2>1. "target" \in Origins /\ Len(log["target"]) \in Nat
    BY OriginFacts
  <2> QED
    BY <2>1 DEF LogsGrow
<1>4. Position("target")' = Position("target") /\ BoundaryKnown' = BoundaryKnown
  BY <1>1 DEF Position, BoundaryKnown
<1>5. boundary \in Nat
  BY OriginFacts
<1> QED
  BY <1>1, <1>2, <1>3, <1>4, <1>5 DEF Handed

\* Until the target takes over nothing is behind the boundary in its log.
LEMMA TakeOpen ==
  ASSUME AuthTypeOK, Handed, Take
  PROVE  phase = "open" /\ Position("target") > boundary
<1>1. "target" \in Origins /\ Polled("target") /\ Len(log["target"]) \in Nat
  BY OriginFacts DEF Take
<1>2. Position("target") \in 1..Len(log["target"])
  BY <1>1, EventFacts
<1>3. BoundaryKnown /\ Position("target") > boundary
  BY DEF Take, AfterBoundary
<1>4. phase # "promised"
  BY <1>1, <1>2, <1>3 DEF Handed
<1> QED
  BY <1>3, <1>4 DEF BoundaryKnown

\* The source's consumer is at work only before the boundary is known.
LEMMA SourceAtWork ==
  ASSUME AuthTypeOK, Handed, Polled("source") \/ at["source"] # "poll"
  PROVE  ~BoundaryKnown /\ phase # "open" /\ Authority = "source" /\ Floor = 0
<1>1. committed["source"] < Len(topic["source"])
  BY OriginFacts DEF Polled
<1>2. committed["source"] \in Nat /\ Len(topic["source"]) \in Nat
  BY OriginFacts
<1>3. ~BoundaryKnown
  BY <1>1, <1>2 DEF Handed
<1> QED
  BY <1>3 DEF BoundaryKnown, Authority, Floor

LEMMA TargetAtWork ==
  ASSUME Handed, at["target"] # "poll"
  PROVE  /\ phase = "open" /\ Authority = "target" /\ Floor = boundary
         /\ Position("target") > boundary
  BY DEF Handed, Authority, Floor

LEMMA ConsumerHanded ==
  ASSUME AuthTypeOK, Handed, NEW o \in Origins,
         Skip \/ Take \/ Execute(o) \/ Settle(o) \/ Commit(o) \/ Crash(o)
  PROVE  Handed'
<1>0. /\ Origins = {"source", "target"}
      /\ at \in [Origins -> {"poll", "timed", "applied"}]
      /\ committed \in [Origins -> Nat] /\ now \in [Origins -> 0..MaxTime]
      /\ clock \in Nat
  BY OriginFacts DEF AuthTypeOK
<1>1. UNCHANGED <<log, read, topic, clock, phase, boundary>>
  BY DEF Skip, Take, Execute, Settle, Commit, Crash, dbVars, streamVars, handoffVars
<1>2. BoundaryKnown' = BoundaryKnown
  BY <1>1 DEF BoundaryKnown
<1>3. BoundaryKnown => committed'["source"] = committed["source"]
  <2>1. CASE Skip \/ Take \/ Execute(o) \/ Settle(o) \/ Crash(o)
    BY <1>0, <2>1 DEF Skip, Take, Execute, Settle, Crash
  <2>2. CASE Commit(o)
    <3>1. CASE o = "source"
      <4>1. at["source"] # "poll"
        BY <2>2, <3>1 DEF Commit, Step
      <4> QED
        BY <4>1, SourceAtWork
    <3>2. CASE o # "source"
      BY <1>0, <2>2, <3>2 DEF Commit
    <3> QED
      BY <3>1, <3>2
  <2> QED
    BY <2>1, <2>2
<1>4. \A x \in Origins : now'[x] <= clock
  <2>1. \A x \in Origins : now[x] <= clock /\ 0 <= clock /\ clock <= clock
    BY <1>0 DEF Handed
  <2> QED
    BY <1>0, <2>1 DEF Skip, Take, Execute, Settle, Commit, Crash
<1>5. at'["target"] # "poll" => phase = "open" /\ Position("target")' > boundary
  <2>1. CASE Skip
    BY <1>0, <2>1 DEF Skip
  <2>2. CASE Take
    <3>1. Position("target")' = Position("target")
      BY <1>1, <2>2 DEF Take, Position
    <3> QED
      BY <2>2, <3>1, TakeOpen
  <2>3. CASE Execute(o) \/ Settle(o) \/ Crash(o)
    <3>1. at'["target"] # "poll" => at["target"] # "poll"
      BY <1>0, <2>3 DEF Execute, Settle, Crash, Step
    <3>2. Position("target")' = Position("target")
      BY <1>1, <2>3 DEF Execute, Settle, Crash, Position
    <3> QED
      BY <3>1, <3>2 DEF Handed
  <2>4. CASE Commit(o)
    <3>1. o = "target" => at'["target"] = "poll"
      BY <1>0, <2>4 DEF Commit, Step
    <3>2. o # "target" => /\ at'["target"] = at["target"]
                          /\ committed'["target"] = committed["target"]
      BY <1>0, <2>4 DEF Commit, Step
    <3> QED
      BY <1>1, <3>1, <3>2 DEF Handed, Position
  <2> QED
    BY <2>1, <2>2, <2>3, <2>4
<1> QED
  BY <1>1, <1>2, <1>3, <1>4, <1>5 DEF Handed

LEMMA MirrorHanded ==
  ASSUME AuthTypeOK, Handed, Mirror
  PROVE  Handed'
<1>0. /\ Origins = {"source", "target"} /\ "target" # "source"
      /\ at \in [Origins -> {"poll", "timed", "applied"}]
      /\ now \in [Origins -> 0..MaxTime] /\ log \in [Origins -> Seq(Changes)]
      /\ clock \in Nat
  BY OriginFacts DEF AuthTypeOK
<1>1. /\ UNCHANGED <<read, topic, committed, clock, phase, boundary>>
      /\ at'["target"] = at["target"] /\ log'["source"] = log["source"]
      /\ \A x \in Origins : now'[x] \in {now[x], clock}
  BY <1>0 DEF Mirror, Step, streamVars, handoffVars
<1>2. ~BoundaryKnown /\ Polled("source")
  BY SourceAtWork DEF Mirror
<1>3. ~BoundaryKnown' /\ Position("target")' = Position("target")
  BY <1>1, <1>2 DEF BoundaryKnown, Position
<1>4. \A x \in Origins : now'[x] <= clock
  BY <1>0, <1>1 DEF Handed
<1>5. phase # "promised"
  BY <1>2 DEF BoundaryKnown
<1> QED
  BY <1>1, <1>3, <1>4, <1>5 DEF Handed

LEMMA ConnectorHanded ==
  ASSUME AuthTypeOK, Handed, NEW o \in Origins, Produce(o) \/ TaskRestarts(o)
  PROVE  Handed'
<1>0. Origins = {"source", "target"}
  BY OriginFacts
<1>1. /\ UNCHANGED <<log, committed, at, now, clock, phase, boundary>>
      /\ o = "target" \/ phase \in {"serving", "fenced"}
  BY DEF Produce, TaskRestarts, Running, dbVars, consumerVars, handoffVars
<1>2. BoundaryKnown' = BoundaryKnown
  BY <1>1 DEF BoundaryKnown
<1>3. o = "target" => read'["source"] = read["source"] /\ topic'["source"] = topic["source"]
  BY <1>0 DEF Produce, TaskRestarts, AuthTypeOK
<1>4. at["target"] # "poll" => Position("target")' = Position("target")
  <2>1. CASE TaskRestarts(o)
    BY <1>1, <2>1 DEF TaskRestarts, Position
  <2>2. CASE Produce(o)
    <3> SUFFICES ASSUME at["target"] # "poll"
                 PROVE  Position("target")' = Position("target")
      OBVIOUS
    <3>1. /\ committed["target"] + 1 \in 1..Len(topic["target"])
          /\ topic["target"] \in Seq(Nat \ {0}) /\ read["target"] + 1 \in Nat \ {0}
      BY SMTT(30), OriginFacts
    <3>2. topic'["target"] \in {topic["target"], Append(topic["target"], read["target"] + 1)}
      BY <1>0, <2>2 DEF Produce, AuthTypeOK
    <3>3. topic'["target"][committed["target"] + 1] = topic["target"][committed["target"] + 1]
      BY <3>1, <3>2
    <3> QED
      BY <1>1, <3>3 DEF Position
  <2> QED
    BY <2>1, <2>2
<1>5. BoundaryKnown => o = "target"
  BY <1>1 DEF BoundaryKnown
<1> QED
  BY <1>1, <1>2, <1>3, <1>4, <1>5 DEF Handed

LEMMA HandoffHanded ==
  ASSUME AuthTypeOK, Handed, Handoff
  PROVE  Handed'
<1>0. Len(log["target"]) \in Nat
  BY OriginFacts
<1>1. UNCHANGED <<log, read, topic, committed, at, now, clock>>
  BY DEF Handoff, FenceSource, StopConnector, WriteBoundary, OpenTarget, handKeeps,
         dbVars, streamVars, consumerVars
<1>2. Position("target")' = Position("target")
  BY <1>1 DEF Position
<1>3. CASE FenceSource
  BY <1>1, <1>2, <1>3 DEF FenceSource, Hand, Handed, BoundaryKnown
<1>4. CASE StopConnector
  BY <1>1, <1>2, <1>4 DEF StopConnector, Hand, Handed, BoundaryKnown
<1>5. CASE WriteBoundary
  <2>1. at["target"] = "poll"
    BY <1>5 DEF WriteBoundary, Hand, Handed
  <2> QED
    BY <1>0, <1>1, <1>5, <2>1 DEF WriteBoundary, Hand, Handed, BoundaryKnown
<1>6. CASE OpenTarget
  BY <1>1, <1>2, <1>6 DEF OpenTarget, Hand, Handed, BoundaryKnown
<1> QED
  BY <1>3, <1>4, <1>5, <1>6 DEF Handoff

LEMMA TimeHanded ==
  ASSUME AuthTypeOK, Handed, TimePasses
  PROVE  Handed'
<1>1. /\ UNCHANGED <<log, read, topic, committed, at, now, phase, boundary>>
      /\ clock' = clock + 1
  BY DEF TimePasses, dbVars, streamVars, consumerVars, handoffVars
<1>2. BoundaryKnown' = BoundaryKnown /\ Position("target")' = Position("target")
  BY <1>1 DEF BoundaryKnown, Position
<1>3. \A o \in Origins : now[o] <= clock'
  <2>1. \A o \in Origins : now[o] \in Nat /\ now[o] <= clock /\ clock \in Nat
    BY OriginFacts DEF Handed
  <2> QED
    BY <1>1, <2>1
<1> QED
  BY <1>1, <1>2, <1>3 DEF Handed

\* No step undoes what the handoff waited for.
LEMMA StepHanded ==
  ASSUME AuthTypeOK, Handed, LogsGrow, [Next]_authVars
  PROVE  Handed'
<1>1. CASE Application
  BY <1>1, ApplicationWrites, WriteHanded
<1>2. CASE Consumer
  <2>1. "source" \in Origins
    BY OriginFacts
  <2> QED
    BY <1>2, <2>1, ConsumerHanded, MirrorHanded DEF Consumer
<1>3. CASE UNCHANGED authVars
  BY <1>3 DEF authVars, dbVars, streamVars, consumerVars, handoffVars, Handed, BoundaryKnown,
              Position
<1> QED
  BY <1>1, <1>2, <1>3, ConnectorHanded, HandoffHanded, TimeHanded DEF Next

-----------------------------------------------------------------------------
(* No context has two tokens.                                               *)

RowsDistinct(rows) ==
  \A context : \A p, q \in Rows :
    Owns(p, rows[p], context) /\ Owns(q, rows[q], context) => p = q

LEMMA EndDistinct ==
  ASSUME NEW l, NEW rows, EndsAt(l, rows)
  PROVE  DistinctAt(l, Len(l)) <=> RowsDistinct(rows)
  BY DEF EndsAt, DistinctAt, RowsDistinct

LEMMA WriteDistinct ==
  ASSUME AuthTypeOK, RowsDistinct(table[Authority]), NEW p \in Rows, NEW new, Write(p, new),
         \A context : \A q \in Rows \ {p} :
           ~(Owns(p, new, context) /\ Owns(q, table[Authority][q], context))
  PROVE  RowsDistinct(table'[Authority])
<1>1. Authority \in Origins
  BY OriginFacts
<1>2. \A q \in Rows : table'[Authority][q] = IF q = p THEN new ELSE table[Authority][q]
  BY <1>1 DEF Write, AuthTypeOK
<1> QED
  BY <1>2 DEF RowsDistinct

\* A context that has a token is issued no other, and a renewed one keeps its context.
LEMMA ApplicationDistinct ==
  ASSUME AuthTypeOK, RowsDistinct(table[Authority]), Application
  PROVE  RowsDistinct(table'[Authority])
<1> USE AuthAssumption
<1>1. writes \in Nat /\ Authority \in Origins
  BY OriginFacts DEF AuthTypeOK
<1>2. CASE LogIn
  <2> DEFINE p == <<"login_sessions", writes + 1>>
  <2>1. PICK new : Write(p, new)
    BY <1>2 DEF LogIn
  <2>2. p \in Rows /\ ~IsCsrf(p)
    BY <1>1, <2>1 DEF Write, Rows, IsCsrf
  <2>3. \A context : ~Owns(p, new, context)
    BY <2>2 DEF Owns
  <2> HIDE DEF p
  <2> QED
    BY <2>1, <2>2, <2>3, WriteDistinct
<1>3. CASE IssueToken
  <2> DEFINE p == <<"csrf_tokens", writes + 1>>
             t == table[Authority]
             taken == {t[q].context : q \in {q \in Rows : IsCsrf(q) /\ t[q] # NoRow}}
  <2>1. PICK context \in Contexts \ taken, end \in Later :
          Write(p, [context |-> context, value |-> writes + 1, end |-> end])
    BY <1>3 DEF IssueToken
  <2> DEFINE new == [context |-> context, value |-> writes + 1, end |-> end]
  <2>2. p \in Rows /\ Write(p, new) /\ new.context = context
    BY <1>1, <2>1 DEF Write, Rows
  <2>3. \A q \in Rows : IsCsrf(q) /\ t[q] # NoRow => t[q].context # context
    BY <2>1
  <2> HIDE DEF p, new, taken, t
  <2>4. \A c : \A q \in Rows \ {p} : ~(Owns(p, new, c) /\ Owns(q, t[q], c))
    BY <2>2, <2>3 DEF Owns
  <2> QED
    BY <2>2, <2>4, WriteDistinct DEF t
<1>4. CASE RenewToken
  <2>1. PICK p \in Rows, end \in Ends :
          /\ IsCsrf(p) /\ table[Authority][p] # NoRow
          /\ Write(p, [table[Authority][p] EXCEPT !.value = writes + 1, !.end = end])
    BY <1>4 DEF RenewToken
  <2> DEFINE new == [table[Authority][p] EXCEPT !.value = writes + 1, !.end = end]
  <2>2. table[Authority][p] \in Token
    BY <1>1, <2>1 DEF AuthTypeOK, RowOf
  <2>3. new.context = table[Authority][p].context /\ Write(p, new)
    BY <2>1, <2>2 DEF Token
  <2> HIDE DEF new
  <2>4. \A c : Owns(p, new, c) => Owns(p, table[Authority][p], c)
    BY <2>1, <2>3 DEF Owns
  <2>5. \A c : \A q \in Rows \ {p} : ~(Owns(p, new, c) /\ Owns(q, table[Authority][q], c))
    BY <2>4 DEF RowsDistinct
  <2> QED
    BY <2>3, <2>5, WriteDistinct
<1>5. CASE RefreshSession
  <2>1. PICK p \in Rows : ~IsCsrf(p) /\ \E new : Write(p, new)
    BY <1>5 DEF RefreshSession
  <2> PICK new : Write(p, new)
    BY <2>1
  <2>2. \A context : ~Owns(p, new, context)
    BY <2>1 DEF Owns
  <2> QED
    BY <2>1, <2>2, WriteDistinct
<1>6. CASE Remove
  <2>1. PICK p \in Rows : Write(p, NoRow)
    BY <1>6 DEF Remove
  <2>2. \A context : ~Owns(p, NoRow, context)
    BY DEF Owns
  <2> QED
    BY <2>1, <2>2, WriteDistinct
<1> QED
  BY <1>2, <1>3, <1>4, <1>5, <1>6 DEF Application

\* At the handover both logs end with the same rows.
LEMMA SameEnds ==
  ASSUME MirrorInv, Histories, Handed, phase = "promised"
  PROVE  /\ \A p \in Rows : Row(log["source"], p, Len(log["source"]))
                              = Row(log["target"], p, Len(log["target"]))
         /\ boundary = Len(log["target"]) /\ CaughtUp("source")
<1>1. CaughtUp("source") /\ boundary = Len(log["target"])
  BY DEF Handed, CaughtUp, BoundaryKnown
<1>2. table["target"] = table["source"]
  BY <1>1, CaughtUpMirrors DEF TargetMirrors
<1> QED
  BY <1>1, <1>2 DEF Histories, EndsAt, Origins

\* The log the application writes is kept, and only the application adds to it.
LEMMA AuthorityLog ==
  ASSUME AuthTypeOK, Handed, [Next]_authVars, ~Application, ~OpenTarget
  PROVE  /\ Authority' = Authority /\ log'[Authority] = log[Authority] /\ Floor' = Floor
         /\ table'[Authority] = table[Authority]
<1>1. CASE Mirror
  <2>1. /\ UNCHANGED <<phase, boundary>> /\ Authority = "source"
        /\ log'["source"] = log["source"] /\ table'["source"] = table["source"]
    BY <1>1, SourceAtWork DEF Mirror, handoffVars, AuthTypeOK, Origins
  <2> QED
    BY <2>1 DEF Authority, Floor
<1>2. CASE FenceSource \/ StopConnector \/ WriteBoundary
  <2>1. UNCHANGED <<table, log>> /\ phase # "open" /\ phase' # "open"
    BY <1>2 DEF FenceSource, StopConnector, WriteBoundary, Hand, handKeeps, dbVars
  <2> QED
    BY <2>1 DEF Authority, Floor
<1>3. CASE UNCHANGED <<table, log, phase, boundary>>
  BY <1>3 DEF Authority, Floor
<1>4. CASE Skip \/ Take \/ \E o \in Origins : Execute(o) \/ Settle(o) \/ Commit(o) \/ Crash(o)
  BY <1>3, <1>4 DEF Skip, Take, Execute, Settle, Commit, Crash, dbVars, handoffVars
<1>5. CASE TimePasses \/ UNCHANGED authVars \/ \E o \in Origins : Produce(o) \/ TaskRestarts(o)
  BY <1>3, <1>5 DEF TimePasses, authVars, Produce, TaskRestarts, dbVars, handoffVars
<1> QED
  BY <1>1, <1>2, <1>4, <1>5 DEF Next, Consumer, Handoff

LEMMA StepDistinct ==
  ASSUME MirrorInv, Histories, Handed, Histories', LogsGrow, AuthTypeOK',
         Distinct(log[Authority], Floor), [Next]_authVars
  PROVE  Distinct(log[Authority], Floor)'
<1>0. AuthTypeOK /\ Authority \in Origins
  BY OriginFacts DEF MirrorInv
<1>1. CASE Application
  <2>1. UNCHANGED <<phase, boundary>>
    BY <1>0, <1>1, ApplicationWrites DEF Write, handoffVars
  <2>2. Authority' = Authority /\ Floor' = Floor
    BY <2>1 DEF Authority, Floor
  <2> DEFINE l == log[Authority]
             m == log'[Authority]
  <2>3. Floor <= Len(l) /\ Len(l) \in Nat /\ l \in Seq(Changes) /\ m \in Seq(Changes)
    BY <1>0, OriginFacts, FromFacts DEF AuthTypeOK
  <2>4. EndsAt(l, table[Authority]) /\ EndsAt(m, table'[Authority])
    BY <1>0 DEF Histories
  <2>5. DistinctAt(l, Len(l))
    BY <2>3 DEF Distinct
  <2>6. RowsDistinct(table'[Authority])
    BY <1>0, <1>1, <2>4, <2>5, EndDistinct, ApplicationDistinct
  <2>7. DistinctAt(m, Len(m))
    BY <2>4, <2>6, EndDistinct
  <2>8. /\ Len(l) <= Len(m) /\ Len(m) <= Len(l) + 1
        /\ \A i \in 1..Len(l) : m[i] = l[i]
    BY <1>0 DEF LogsGrow
  <2>9. Distinct(l, Floor)
    OBVIOUS
  <2> HIDE DEF l, m
  <2>10. Distinct(m, Floor)
    BY <2>3, <2>7, <2>8, <2>9, DistinctLonger
  <2> QED
    BY <2>2, <2>10 DEF m
<1>2. CASE OpenTarget
  <2>1. /\ phase = "promised" /\ phase' = "open" /\ UNCHANGED <<log, boundary>>
    BY <1>2 DEF OpenTarget, Hand, handKeeps, dbVars
  <2>2. Authority = "source" /\ Floor = 0 /\ Authority' = "target" /\ Floor' = boundary
    BY <2>1 DEF Authority, Floor
  <2> DEFINE l == log["source"]
             m == log["target"]
  <2>3. /\ \A p \in Rows : Row(l, p, Len(l)) = Row(m, p, Len(m))
        /\ boundary = Len(m)
    BY <2>1, SameEnds
  <2>4. Len(l) \in Nat /\ Len(m) \in Nat
    BY <1>0, OriginFacts
  <2>5. DistinctAt(l, Len(l))
    BY <2>2, <2>4 DEF Distinct
  <2> HIDE DEF l, m
  <2>6. DistinctAt(m, Len(m))
    BY <2>3, <2>5 DEF DistinctAt
  <2>7. Distinct(m, boundary)
    <3>1. \A k \in Nat : boundary <= k /\ k <= Len(m) => k = Len(m)
      BY <2>3, <2>4
    <3> QED
      BY <2>6, <3>1 DEF Distinct
  <2> QED
    BY <2>1, <2>2, <2>7 DEF m
<1>3. CASE ~Application /\ ~OpenTarget
  <2>1. Authority' = Authority /\ log'[Authority] = log[Authority] /\ Floor' = Floor
    BY <1>0, <1>3, AuthorityLog
  <2> QED
    BY <2>1
<1> QED
  BY <1>1, <1>2, <1>3

-----------------------------------------------------------------------------
(* How far Redis is known to be: no step but the handover, or a MULTI, takes it on. *)

LEMMA FromBack ==
  ASSUME AuthTypeOK, Handed, Authority' = Authority, Floor' = Floor,
         Passed(Authority)' \in Nat,
         Passed(Authority)' <= Passed(Authority) \/ Passed(Authority)' <= Floor
  PROVE  From' \in Nat /\ From' <= From
<1>1. /\ Passed(Authority) \in Nat /\ Floor \in Nat
  BY OriginFacts, PassedFacts
<1> QED
  BY <1>1 DEF From

LEMMA SamePassed ==
  ASSUME AuthTypeOK, NEW o \in Origins, topic'[o] = topic[o], committed'[o] = committed[o],
         (at'[o] = "applied") = (at[o] = "applied")
  PROVE  Passed(o)' = Passed(o) /\ Passed(o)' \in Nat /\ Passed(o)' <= Passed(o)
<1>1. Passed(o) \in Nat
  BY PassedFacts
<1> QED
  BY <1>1 DEF Passed

\* Where a consumer is with an event it holds.
LEMMA PassedAt ==
  ASSUME AuthTypeOK, NEW o \in Origins, committed[o] < Len(topic[o])
  PROVE  /\ Position(o) \in Nat \ {0} /\ Position(o) - 1 \in Nat
         /\ Passed(o) = IF at[o] = "applied" THEN Position(o) ELSE Position(o) - 1
<1>1. committed[o] + 1 \in 1..Len(topic[o])
  BY OriginFacts
<1>2. Position(o) \in Nat \ {0}
  BY <1>1, OriginFacts DEF Position
<1> QED
  BY <1>2 DEF Passed, Position, Reached

\* A committed event is passed, and the next one is not.
LEMMA NextPassed ==
  ASSUME AuthTypeOK, Streams, NEW o \in Origins, committed[o] < Len(topic[o]),
         topic'[o] = topic[o], committed'[o] = committed[o] + 1, at'[o] = "poll"
  PROVE  Passed(o)' \in Nat /\ Passed(o)' <= Position(o)
<1> DEFINE s == topic[o]
           c == committed[o]
           n == Len(log[o])
<1>1. /\ s \in Seq(Nat \ {0}) /\ c \in Nat /\ c < Len(s) /\ Len(s) \in Nat /\ n \in Nat
      /\ \A i \in 1..Len(s) : s[i] <= n
      /\ Gapless(s, read[o])
  BY OriginFacts DEF Streams
<1>2. Passed(o)' = Reached(s, c + 1, FALSE) /\ Position(o) = s[c + 1]
  BY DEF Passed, Position
<1> HIDE DEF s, c, n
<1>3. c + 1 \in Nat /\ c + 1 <= Len(s)
  BY <1>1
<1>4. Reached(s, c + 1, FALSE) \in Nat
  BY <1>1, <1>3, ReachedType
<1>5. Reached(s, c + 1, FALSE) <= s[c + 1]
  BY <1>1, ReachedNext
<1> QED
  BY <1>2, <1>4, <1>5

LEMMA CommitPassed ==
  ASSUME AuthTypeOK, Streams, NEW o \in Origins, Commit(o), NEW x \in Origins
  PROVE  Passed(x)' \in Nat /\ Passed(x)' <= Passed(x)
<1>1. /\ topic' = topic /\ at[o] = "applied"
      /\ \A y \in Origins : committed'[y] = IF y = o THEN committed[o] + 1 ELSE committed[y]
      /\ \A y \in Origins : at'[y] = IF y = o THEN "poll" ELSE at[y]
  BY DEF Commit, Step, streamVars, AuthTypeOK
<1>2. CASE x = o
  <2>1. committed[o] < Len(topic[o])
    BY <1>1, OriginFacts
  <2>2. Passed(o)' \in Nat /\ Passed(o)' <= Position(o)
    BY <1>1, <2>1, NextPassed
  <2>3. Passed(o) = Position(o)
    BY <1>1, <2>1, PassedAt
  <2> QED
    BY <1>2, <2>2, <2>3
<1>3. CASE x # o
  BY <1>1, <1>3, SamePassed
<1> QED
  BY <1>2, <1>3

LEMMA CrashPassed ==
  ASSUME AuthTypeOK, NEW o \in Origins, Crash(o), NEW x \in Origins
  PROVE  Passed(x)' \in Nat /\ Passed(x)' <= Passed(x)
<1>1. /\ topic' = topic /\ committed' = committed /\ at[o] # "poll"
      /\ \A y \in Origins : at'[y] = IF y = o THEN "poll" ELSE at[y]
  BY DEF Crash, streamVars, AuthTypeOK
<1>2. CASE x = o
  <2>1. committed[o] < Len(topic[o]) /\ committed[o] \in Nat
    BY <1>1, OriginFacts
  <2>2. /\ Position(o) \in Nat \ {0} /\ Position(o) - 1 \in Nat
        /\ Passed(o) = IF at[o] = "applied" THEN Position(o) ELSE Position(o) - 1
    BY <2>1, PassedAt
  <2>3. Passed(o)' = Position(o) - 1
    BY <1>1, <1>2, <2>1 DEF Passed, Reached, Position
  <2> QED
    BY <1>2, <2>2, <2>3
<1>3. CASE x # o
  BY <1>1, <1>3, SamePassed
<1> QED
  BY <1>2, <1>3

LEMMA ProducePassed ==
  ASSUME AuthTypeOK, AuthTypeOK', Streams, NEW o \in Origins, Produce(o), NEW x \in Origins
  PROVE  Passed(x)' \in Nat /\ Passed(x)' <= Passed(x)
<1>1. committed' = committed /\ at' = at
  BY DEF Produce, consumerVars
<1>2. Passed(x)' = Reached(topic'[x], committed[x], at[x] = "applied")
  BY <1>1 DEF Passed
<1>3. Passed(x)' <= Passed(x)
  BY <1>2, ProduceStreams
<1> DEFINE s == topic'[x]
           c == committed[x]
           past == at[x] = "applied"
           n == Len(log'[x])
<1>4. /\ s \in Seq(Nat \ {0}) /\ c \in Nat /\ c <= Len(s) /\ past \in BOOLEAN
      /\ past => c < Len(s)
      /\ n \in Nat /\ \A i \in 1..Len(s) : s[i] <= n
  <2>1. s \in Seq(Nat \ {0}) /\ \A i \in 1..Len(s) : s[i] <= n
    BY DEF AuthTypeOK
  <2>2. n \in Nat
    BY DEF AuthTypeOK
  <2>3. c \in Nat /\ c <= Len(s) /\ (at[x] # "poll" => c < Len(s))
    BY <1>1 DEF AuthTypeOK
  <2> QED
    BY <2>1, <2>2, <2>3
<1> HIDE DEF s, c, past, n
<1>5. Reached(s, c, past) \in Nat
  BY <1>4, ReachedType
<1> QED
  BY <1>2, <1>3, <1>5 DEF s, c, past

\* A mirror of the source is skipped, at or before the boundary.
LEMMA SkipPassed ==
  ASSUME AuthTypeOK, Streams, Handed, Skip
  PROVE  /\ Passed(Authority)' \in Nat
         /\ Passed(Authority)' <= Passed(Authority) \/ Passed(Authority)' <= Floor
<1>0. Origins = {"source", "target"} /\ boundary \in Nat
  BY OriginFacts
<1>1. /\ topic' = topic /\ at' = at /\ at["target"] = "poll"
      /\ committed["target"] < Len(topic["target"])
      /\ committed'["target"] = committed["target"] + 1
      /\ committed'["source"] = committed["source"]
      /\ UNCHANGED <<phase, boundary>>
  BY <1>0 DEF Skip, Polled, streamVars, handoffVars, AuthTypeOK
<1>2. CASE phase = "open"
  <2>1. Authority = "target" /\ Authority' = "target" /\ Floor = boundary /\ BoundaryKnown
    BY <1>1, <1>2 DEF Authority, Floor, BoundaryKnown
  <2>2. Passed("target")' \in Nat /\ Passed("target")' <= Position("target")
    BY <1>0, <1>1, NextPassed
  <2>3. Position("target") \in Nat /\ ~(Position("target") > boundary)
    BY <1>0, <1>1, <2>1, PassedAt DEF Skip, AfterBoundary
  <2> QED
    BY <1>0, <2>1, <2>2, <2>3
<1>3. CASE phase # "open"
  <2>1. Authority = "source" /\ Authority' = "source"
    BY <1>1, <1>3 DEF Authority
  <2> QED
    BY <1>0, <1>1, <2>1, SamePassed
<1> QED
  BY <1>2, <1>3

LEMMA StepPassed ==
  ASSUME AuthTypeOK, AuthTypeOK', Streams, Handed, [Next]_authVars,
         ~OpenTarget, \A o \in Origins : ~Execute(o)
  PROVE  Authority' = Authority /\ From' \in Nat /\ From' <= From
<1>0. Origins = {"source", "target"} /\ Authority \in Origins
  BY OriginFacts
<1>1. CASE Application
  <2>1. UNCHANGED <<topic, committed, at, phase, boundary>>
    BY <1>1, ApplicationWrites DEF Write, streamVars, consumerVars, handoffVars
  <2>2. Authority' = Authority /\ Floor' = Floor
    BY <2>1 DEF Authority, Floor
  <2> QED
    BY <1>0, <2>1, <2>2, SamePassed, FromBack
<1>2. CASE ~Application
  <2>1. Authority' = Authority /\ Floor' = Floor
    BY <1>2, AuthorityLog
  <2>2. CASE Skip
    BY <2>1, <2>2, SkipPassed, FromBack
  <2>3. ASSUME NEW o \in Origins, Produce(o) \/ Commit(o) \/ Crash(o)
        PROVE  From' \in Nat /\ From' <= From
    BY <1>0, <2>1, <2>3, ProducePassed, CommitPassed, CrashPassed, FromBack
  <2>4. CASE Mirror \/ Take
    <3>1. /\ topic' = topic /\ committed' = committed
          /\ \A o \in Origins : (at'[o] = "applied") = (at[o] = "applied")
      BY <1>0, <2>4 DEF Mirror, Take, Step, streamVars, AuthTypeOK
    <3> QED
      BY <1>0, <2>1, <3>1, SamePassed, FromBack
  <2>5. CASE TimePasses \/ Handoff \/ UNCHANGED authVars
             \/ \E o \in Origins : Settle(o) \/ TaskRestarts(o)
    <3>1. UNCHANGED <<topic, committed, at>>
      BY <2>5 DEF TimePasses, Handoff, FenceSource, StopConnector, WriteBoundary, OpenTarget,
                  handKeeps, authVars, Settle, TaskRestarts, streamVars, consumerVars
    <3> QED
      BY <1>0, <2>1, <3>1, SamePassed, FromBack
  <2> QED
    BY <1>2, <2>1, <2>2, <2>3, <2>4, <2>5 DEF Next, Consumer
<1> QED
  BY <1>1, <1>2

-----------------------------------------------------------------------------
(* What Redis has stays behind.                                             *)

\* Steps that send Redis nothing, and take its consumer no further.
LEMMA BackBehind ==
  ASSUME AuthTypeOK, Handed, RedisBehind, AuthTypeOK', LogsGrow,
         UNCHANGED <<redis, clock>>, Authority' = Authority, From' \in Nat, From' <= From
  PROVE  RedisBehind'
<1> DEFINE l == log[Authority]
           m == log'[Authority]
<1>1. Authority \in Origins /\ From \in Nat
  BY OriginFacts, FromFacts
<1>2. l \in Seq(Changes) /\ m \in Seq(Changes)
  BY <1>1 DEF AuthTypeOK
<1>3. Len(l) <= Len(m) /\ \A i \in 1..Len(l) : m[i] = l[i]
  BY <1>1 DEF LogsGrow
<1>4. KeysBehind(redis, clock, l, From) /\ MembersBehind(redis, clock, l, From)
  BY DEF RedisBehind
<1> HIDE DEF l, m
<1>5. KeysBehind(redis, clock, m, From') /\ MembersBehind(redis, clock, m, From')
  BY <1>1, <1>2, <1>3, <1>4, LongerBehind
<1> QED
  BY <1>5 DEF RedisBehind, m

\* The log Redis is behind is kept, and what Redis has lost or settled was in an index or
\* has ended.
LEMMA TimeBehind ==
  ASSUME AuthTypeOK, Handed, RedisBehind, TimePasses
  PROVE  RedisBehind'
<1> DEFINE l == log[Authority]
<1>1. /\ Authority \in Origins /\ clock \in Nat /\ clock' = clock + 1
      /\ redis' = Alive(redis, clock')
      /\ UNCHANGED <<log, topic, committed, at, phase, boundary>>
  BY OriginFacts DEF TimePasses, dbVars, streamVars, consumerVars, handoffVars
<1>2. log'[Authority'] = l /\ From' = From
  BY <1>1 DEF Authority, From, Passed, Floor
<1>3. l \in Seq(Changes) /\ clock' \in Nat /\ clock <= clock'
  BY <1>1, OriginFacts
<1>4. KeysBehind(redis, clock, l, From) /\ MembersBehind(redis, clock, l, From)
  BY DEF RedisBehind
<1> HIDE DEF l
<1>5. KeysBehind(redis', clock', l, From)
  BY <1>1, <1>3, <1>4, TickKeys
<1>6. FewerMembers(redis, redis')
  BY <1>1, AliveMembers
<1>7. MembersBehind(redis', clock', l, From)
  BY <1>1, <1>3, <1>4, <1>6, FewerBehind
<1> QED
  BY <1>2, <1>5, <1>7 DEF RedisBehind

LEMMA SettleBehind ==
  ASSUME AuthTypeOK, Handed, RedisBehind, NEW o \in Origins, Settle(o)
  PROVE  RedisBehind'
<1> DEFINE l == log[Authority]
<1>1. /\ clock \in Nat /\ clock' = clock
      /\ UNCHANGED <<log, topic, committed, at, phase, boundary>>
  BY OriginFacts DEF Settle, dbVars, streamVars, handoffVars
<1>2. PICK user : redis' = Alive(SettleIndex(redis, user, now[o]), clock)
  BY DEF Settle
<1>3. log'[Authority'] = l /\ From' = From
  BY <1>1 DEF Authority, From, Passed, Floor
<1>4. KeysBehind(redis, clock, l, From) /\ MembersBehind(redis, clock, l, From)
  BY DEF RedisBehind
<1> HIDE DEF l
<1>5. KeysBehind(redis', clock, l, From)
  BY <1>2, <1>4, IndexCommands, IndexesBehind
<1>6. FewerMembers(redis, redis')
  BY <1>2, SettleMembers, AliveMembers, FewerMembersOver
<1>7. MembersBehind(redis', clock, l, From)
  BY <1>1, <1>4, <1>6, FewerBehind
<1> QED
  BY <1>1, <1>3, <1>5, <1>7 DEF RedisBehind

\* A MULTI of the consumer of the log the application writes: the next change, and no other.
LEMMA ExecuteBehind ==
  ASSUME AuthTypeOK, Histories, Handed, Distinct(log[Authority], Floor), RedisBehind,
         NEW o \in Origins, Execute(o)
  PROVE  RedisBehind'
<1> DEFINE l == log[o]
           n == Position(o)
           t == clock
<1>1. at[o] = "timed" /\ at'[o] = "applied"
  BY DEF Execute, Step, AuthTypeOK
<1>2. UNCHANGED <<log, topic, committed, clock, phase, boundary>>
  BY DEF Execute, dbVars, streamVars, handoffVars
<1>3. Polled(o) /\ committed[o] < Len(topic[o]) /\ committed[o] \in Nat
  BY <1>1, OriginFacts DEF Polled
<1>4. n \in 1..Len(l) /\ Event(o) = l[n] /\ l \in Seq(Changes) /\ Chained(l)
  BY <1>3, EventFacts, OriginFacts DEF Histories
<1>5. Authority = o /\ Floor \in Nat /\ Floor <= n - 1 /\ Authority' = o /\ Floor' = Floor
  <2>1. CASE o = "source"
    <3>1. Authority = "source" /\ Floor = 0
      BY <1>3, <2>1, SourceAtWork
    <3> QED
      BY <1>2, <1>4, <2>1, <3>1 DEF Authority, Floor
  <2>2. CASE o = "target"
    <3>1. Authority = "target" /\ Floor = boundary /\ n > boundary
      BY <1>1, <2>2, TargetAtWork
    <3> QED
      BY <1>2, <1>4, <2>2, <3>1, OriginFacts DEF Authority, Floor
  <2> QED
    BY <2>1, <2>2, OriginFacts
<1>6. Passed(o) = n - 1 /\ Passed(o)' = n
  <2>1. Passed(o) = n - 1
    BY <1>1, <1>3, PassedAt
  <2>2. Passed(o)' = n
    BY <1>1, <1>2 DEF Passed, Reached, Position
  <2> QED
    BY <2>1, <2>2
<1>7. From = n - 1 /\ From' = n
  <2>1. From = IF n - 1 > Floor THEN n - 1 ELSE Floor
    BY <1>5, <1>6 DEF From
  <2>2. From' = IF n > Floor THEN n ELSE Floor
    BY <1>5, <1>6 DEF From
  <2> QED
    BY <1>4, <1>5, <2>1, <2>2
<1>8. /\ now[o] \in Nat /\ t \in Nat /\ now[o] <= t
      /\ redis' = Alive(Apply(redis, l[n], now[o]), t)
  BY <1>4, OriginFacts DEF Handed, Execute
<1>9. KeysBehind(redis, t, l, n - 1) /\ MembersBehind(redis, t, l, n - 1)
  BY <1>5, <1>7 DEF RedisBehind
<1>10. Disjoint(l, n - 1)
  <2>1. Disjoint(l, Floor)
    BY <1>4, <1>5, DistinctKeys
  <2> QED
    BY <1>4, <1>5, <2>1 DEF Disjoint
<1> HIDE DEF l, n, t
<1>11. KeysBehind(redis', t, l, n)
  BY <1>4, <1>8, <1>9, <1>10, ApplyBehind
<1>12. MembersBehind(redis', t, l, n)
  BY <1>4, <1>8, <1>9, ApplyMembersBehind
<1> QED
  BY <1>2, <1>5, <1>7, <1>11, <1>12 DEF RedisBehind, l, t

\* At the handover the source's log is applied to its end, and the target's ends alike.
LEMMA OpenBehind ==
  ASSUME MirrorInv, Histories, Streams, Handed, RedisBehind, OpenTarget
  PROVE  RedisBehind'
<1> DEFINE l == log["source"]
           m == log["target"]
<1>0. AuthTypeOK
  BY DEF MirrorInv
<1>1. /\ phase = "promised" /\ phase' = "open"
      /\ UNCHANGED <<log, topic, committed, at, boundary, redis, clock>>
  BY DEF OpenTarget, Hand, handKeeps, dbVars, streamVars, consumerVars
<1>2. /\ Authority = "source" /\ Floor = 0 /\ Authority' = "target" /\ Floor' = boundary
      /\ Passed("target")' = Passed("target") /\ BoundaryKnown
  BY <1>1 DEF Authority, Floor, Passed, BoundaryKnown
<1>3. /\ \A p \in Rows : Row(l, p, Len(l)) = Row(m, p, Len(m))
      /\ boundary = Len(m) /\ CaughtUp("source")
  BY <1>1, SameEnds
<1>4. /\ l \in Seq(Changes) /\ m \in Seq(Changes) /\ Len(l) \in Nat /\ Len(m) \in Nat
      /\ Passed("target") \in Nat /\ Passed("target") <= Len(m)
  BY <1>0, OriginFacts, PassedFacts
<1>5. From = Len(l)
  <2>1. at["source"] # "applied"
    BY <1>0, <1>2, SourceAtWork
  <2>2. Passed("source") = Reached(topic["source"], Len(topic["source"]), FALSE)
    BY <1>3, <2>1 DEF Passed, CaughtUp
  <2>3. Passed("source") >= Len(l)
    <3>1. /\ topic["source"] \in Seq(Nat \ {0}) /\ read["source"] \in Nat
          /\ Gapless(topic["source"], read["source"]) /\ read["source"] = Len(l)
      BY <1>0, <1>3, OriginFacts DEF Streams, CaughtUp
    <3> QED
      BY <2>2, <3>1, ReachedEnd
  <2>4. From \in Nat /\ From <= Len(l) /\ Passed("source") <= From /\ Passed("source") \in Nat
    BY <1>0, <1>2, FromFacts, PassedFacts, OriginFacts
  <2> QED
    BY <1>4, <2>3, <2>4
<1>6. From' = Len(m)
  <2>1. From' = IF Passed("target") > boundary THEN Passed("target") ELSE boundary
    BY <1>2 DEF From
  <2> QED
    BY <1>3, <1>4, <2>1
<1>7. KeysBehind(redis, clock, l, Len(l)) /\ MembersBehind(redis, clock, l, Len(l))
  BY <1>2, <1>5 DEF RedisBehind
<1> HIDE DEF l, m
<1>8. KeysBehind(redis, clock, m, Len(m)) /\ MembersBehind(redis, clock, m, Len(m))
  BY <1>3, <1>4, <1>7, MoveBehind
<1> QED
  BY <1>1, <1>2, <1>6, <1>8 DEF RedisBehind, m

LEMMA StepBehind ==
  ASSUME ProjInv, AuthTypeOK', LogsGrow, [Next]_authVars
  PROVE  RedisBehind'
<1>0. AuthTypeOK
  BY DEF ProjInv, MirrorInv
<1>1. CASE OpenTarget
  BY <1>1, OpenBehind DEF ProjInv
<1>2. CASE \E o \in Origins : Execute(o) \/ Settle(o)
  BY <1>0, <1>2, ExecuteBehind, SettleBehind DEF ProjInv
<1>3. CASE TimePasses
  BY <1>0, <1>3, TimeBehind DEF ProjInv
<1>4. CASE ~OpenTarget /\ ~TimePasses /\ \A o \in Origins : ~Execute(o) /\ ~Settle(o)
  <2>1. Authority' = Authority /\ From' \in Nat /\ From' <= From
    BY <1>0, <1>4, StepPassed DEF ProjInv
  <2>2. UNCHANGED <<redis, clock>>
    <3>1. CASE Application
      BY <1>0, <3>1, ApplicationWrites DEF Write
    <3>2. CASE Consumer
      BY <1>4, <3>2 DEF Consumer, Skip, Mirror, Take, Commit, Crash
    <3>3. CASE Handoff \/ UNCHANGED authVars
               \/ \E o \in Origins : Produce(o) \/ TaskRestarts(o)
      BY <3>3 DEF Handoff, FenceSource, StopConnector, WriteBoundary, OpenTarget, handKeeps,
                  authVars, Produce, TaskRestarts
    <3> QED
      BY <1>4, <3>1, <3>2, <3>3 DEF Next
  <2> QED
    BY <1>0, <2>1, <2>2, BackBehind DEF ProjInv
<1> QED
  BY <1>1, <1>2, <1>3, <1>4

LEMMA StepProj ==
  ASSUME ProjInv, [Next]_authVars
  PROVE  ProjInv'
<1>1. AuthTypeOK /\ MirrorInv /\ Histories /\ Streams /\ Handed
      /\ Distinct(log[Authority], Floor)
  BY DEF ProjInv, MirrorInv
<1>2. MirrorInv' /\ AuthTypeOK'
  BY <1>1, StepMirror, StepType
<1>3. Histories' /\ LogsGrow
  BY <1>1, StepHistories
<1>4. Streams' /\ Handed'
  BY <1>1, <1>3, StepStreams, StepHanded
<1>5. Distinct(log[Authority], Floor)'
  BY <1>1, <1>2, <1>3, StepDistinct
<1>6. RedisBehind'
  BY <1>2, <1>3, StepBehind
<1> QED
  BY <1>2, <1>3, <1>4, <1>5, <1>6 DEF ProjInv

LEMMA InitProj == Init => ProjInv
<1> SUFFICES ASSUME Init PROVE ProjInv
  OBVIOUS
<1>1. MirrorInv
  BY InitMirror
<1>2. /\ redis = <<>> /\ phase = "serving" /\ clock = 0 /\ boundary = 0
      /\ \A o \in Origins : /\ log[o] = <<>> /\ topic[o] = <<>> /\ read[o] = 0
                            /\ committed[o] = 0 /\ at[o] = "poll" /\ now[o] = 0
                            /\ \A p \in Rows : table[o][p] = NoRow
      /\ Origins = {"source", "target"}
  BY DEF Init, Origins
<1>3. \A l, p : Row(l, p, 0) = NoRow
  BY RowFirst
<1>4. Histories
  BY <1>2, <1>3 DEF Histories, Chained, EndsAt
<1>5. Streams
  BY <1>2 DEF Streams, Gapless
<1>6. Handed
  BY <1>2 DEF Handed, BoundaryKnown
<1>7. Authority = "source" /\ Floor = 0 /\ From = 0 /\ log[Authority] = <<>> /\ Len(<<>>) = 0
  BY <1>2 DEF Authority, Floor, From, Passed, Reached
<1>8. Distinct(log[Authority], Floor)
  <2>1. \A k \in Nat : k <= 0 => k = 0
    OBVIOUS
  <2>2. DistinctAt(<<>>, 0)
    BY <1>3 DEF DistinctAt, Owns
  <2> QED
    BY <1>7, <2>1, <2>2 DEF Distinct
<1>9. DOMAIN redis = {} /\ \A user : DOMAIN Members(redis, user) = {}
  BY <1>2, NoMembers DEF Members
<1>10. \A key : KeyIs(redis, clock, <<>>, key, 0)
  BY <1>3, <1>9 DEF KeyIs, KeysOf
<1>11. \A user, sid : MemberIs(redis, clock, <<>>, user, sid, 0)
  BY <1>9 DEF MemberIs, Member
<1>12. RedisBehind
  <2>1. 0 \in Nat /\ 0 <= 0
    OBVIOUS
  <2> QED
    BY <1>7, <1>10, <1>11, <2>1 DEF RedisBehind, KeysBehind, MembersBehind
<1> QED
  BY <1>1, <1>4, <1>5, <1>6, <1>8, <1>12 DEF ProjInv

-----------------------------------------------------------------------------
(* At lag 0 the namespace is the tables.                                    *)

\* What a row is to the audit.
RowEntries(p, row) == {<<key, ValueOf(p, row, key), row.end>> : key \in KeysOf(p, row)}

LEMMA ExpectedRows ==
  ASSUME NEW o
  PROVE  Expected(o) = UNION {RowEntries(p, table[o][p]) : p \in LiveRows(o)}
<1> SUFFICES ASSUME NEW p \in LiveRows(o)
             PROVE  LET row == table[o][p]
                    IN RowEntries(p, row) =
                         IF IsCsrf(p)
                         THEN {<<Csrf(row.context), row.value, row.end>>}
                         ELSE {<<Session(row.sid), [user |-> row.user, hash |-> row.hash],
                                 row.end>>,
                               <<Refresh(row.hash), row.sid, row.end>>}
  BY DEF Expected
<1> DEFINE row == table[o][p]
<1>1. row # NoRow
  BY DEF LiveRows
<1> HIDE DEF row
<1>2. CASE IsCsrf(p)
  BY <1>1, <1>2 DEF RowEntries, KeysOf, ValueOf, row
<1>3. CASE ~IsCsrf(p)
  <2>1. Session(row.sid) # Refresh(row.hash)
    BY KeyFacts
  <2>2. KeysOf(p, row) = {Session(row.sid), Refresh(row.hash)}
    BY <1>1, <1>3 DEF KeysOf
  <2>3. /\ ValueOf(p, row, Session(row.sid)) = [user |-> row.user, hash |-> row.hash]
        /\ ValueOf(p, row, Refresh(row.hash)) = row.sid
    BY <1>3, <2>1 DEF ValueOf
  <2> QED
    BY <1>3, <2>2, <2>3 DEF RowEntries, row
<1> QED
  BY <1>2, <1>3

\* Then every key and every member is as the table has it.
LEMMA CaughtUpRedis ==
  ASSUME ProjInv, CaughtUp(Authority)
  PROVE  LET rows == table[Authority]
             l == log[Authority]
         IN /\ \A key : ~IsIndex(key) => KeyIs(redis, clock, l, key, Len(l))
            /\ \A user, sid : MemberIs(redis, clock, l, user, sid, Len(l))
            /\ \A p \in Rows : Row(l, p, Len(l)) = rows[p]
<1> DEFINE o == Authority
           l == log[o]
<1>1. AuthTypeOK /\ Handed /\ o \in Origins
  BY OriginFacts DEF ProjInv, MirrorInv
<1>2. /\ topic[o] \in Seq(Nat \ {0}) /\ read[o] \in Nat /\ Gapless(topic[o], read[o])
      /\ committed[o] = Len(topic[o]) /\ read[o] = Len(l) /\ Len(l) \in Nat
      /\ at[o] # "applied"
  BY <1>1, OriginFacts DEF ProjInv, Streams, CaughtUp
<1>3. Passed(o) = Reached(topic[o], Len(topic[o]), FALSE)
  BY <1>2 DEF Passed
<1>4. Passed(o) >= Len(l)
  BY <1>2, <1>3, ReachedEnd
<1>5. /\ From \in Nat /\ From <= Len(l) /\ Passed(o) <= From /\ Passed(o) \in Nat
  BY <1>1, FromFacts, PassedFacts
<1>6. From = Len(l)
  BY <1>2, <1>4, <1>5
<1>7. \A k \in Nat : From <= k /\ k <= Len(l) => k = Len(l)
  BY <1>2, <1>6
<1>8. \A p \in Rows : Row(l, p, Len(l)) = table[o][p]
  BY <1>1 DEF ProjInv, Histories, EndsAt
<1> HIDE DEF l
<1>9. KeysBehind(redis, clock, l, From) /\ MembersBehind(redis, clock, l, From)
  BY DEF ProjInv, RedisBehind, l
<1>10. \A key : ~IsIndex(key) => KeyIs(redis, clock, l, key, Len(l))
  BY <1>7, <1>9 DEF KeysBehind
<1>11. \A user, sid : MemberIs(redis, clock, l, user, sid, Len(l))
  BY <1>7, <1>9 DEF MembersBehind
<1> QED
  BY <1>8, <1>10, <1>11 DEF l

\* That is what the audit compares.
LEMMA ProjProjects == ProjInv => Projected
<1> SUFFICES ASSUME ProjInv, CaughtUp(Authority)
             PROVE  /\ Entries = Expected(Authority)
                    /\ \A user \in Users : \A sid \in DOMAIN Members(redis, user) :
                         LET end == Members(redis, user)[sid]
                         IN end > clock => <<sid, end>> \in LiveSessions(user)
  BY DEF Projected
<1> DEFINE o == Authority
           l == log[o]
           rows == table[o]
<1>1. AuthTypeOK /\ o \in Origins /\ \A p \in Rows : rows[p] \in RowOf(p)
  BY OriginFacts DEF ProjInv, MirrorInv
<1>2. /\ \A key : ~IsIndex(key) => KeyIs(redis, clock, l, key, Len(l))
      /\ \A user, sid : MemberIs(redis, clock, l, user, sid, Len(l))
      /\ \A p \in Rows : Row(l, p, Len(l)) = rows[p]
  BY CaughtUpRedis
<1>3. \A p \in Rows : \A key \in KeysOf(p, rows[p]) : ~IsIndex(key) /\ rows[p] # NoRow
  BY DEF KeysOf, IsIndex, Csrf, Session, Refresh
<1>4. LiveRows(o) = {p \in Rows : rows[p] # NoRow /\ rows[p].end > clock}
  BY DEF LiveRows
<1>5. Expected(o) = UNION {RowEntries(p, rows[p]) : p \in LiveRows(o)}
  BY ExpectedRows
<1> HIDE DEF l, rows, o
<1>6. ASSUME NEW key \in DOMAIN redis, key[1] # "user-sessions"
      PROVE  <<key, redis[key].value, redis[key].end>> \in Expected(o)
  <2>1. ~IsIndex(key)
    BY <1>6 DEF IsIndex
  <2>2. PICK p \in Rows : key \in KeysOf(p, rows[p]) /\ rows[p].end > clock
    BY <1>2, <1>6, <2>1 DEF KeyIs
  <2>3. Written(redis, p, rows[p], key)
    BY <1>2, <2>1, <2>2 DEF KeyIs
  <2>4. redis[key].value = ValueOf(p, rows[p], key) /\ redis[key].end = rows[p].end
    BY <2>3 DEF Written
  <2>5. p \in LiveRows(o)
    BY <1>3, <1>4, <2>2
  <2>6. <<key, redis[key].value, redis[key].end>> \in RowEntries(p, rows[p])
    BY <2>2, <2>4 DEF RowEntries
  <2> QED
    BY <1>5, <2>5, <2>6
<1>7. ASSUME NEW x \in Expected(o)
      PROVE  x \in Entries
  <2>1. PICK p \in LiveRows(o) : x \in RowEntries(p, rows[p])
    BY <1>5, <1>7
  <2>2. PICK key \in KeysOf(p, rows[p]) : x = <<key, ValueOf(p, rows[p], key), rows[p].end>>
    BY <2>1 DEF RowEntries
  <2>3. p \in Rows /\ rows[p].end > clock /\ ~IsIndex(key)
    BY <1>3, <1>4
  <2>4. Written(redis, p, rows[p], key)
    BY <1>2, <2>3 DEF KeyIs
  <2>5. /\ key \in DOMAIN redis
        /\ redis[key].value = ValueOf(p, rows[p], key) /\ redis[key].end = rows[p].end
    BY <2>4 DEF Written
  <2> QED
    BY <2>2, <2>3, <2>5 DEF Entries, IsIndex
<1>8. Entries = Expected(o)
  BY <1>6, <1>7 DEF Entries
<1>9. ASSUME NEW user \in Users, NEW sid \in DOMAIN Members(redis, user),
             Members(redis, user)[sid] > clock
      PROVE  <<sid, Members(redis, user)[sid]>> \in LiveSessions(user)
  <2> DEFINE q == SessionRow(sid)
             end == Members(redis, user)[sid]
  <2>1. q \in Rows /\ end > clock
    BY <1>2, <1>9 DEF MemberIs, Member
  <2>2. rows[q] # NoRow /\ rows[q].user = user /\ rows[q].end = end
    BY <1>2, <1>9, <2>1 DEF MemberIs, Member, MemberEnd
  <2>3. ~IsCsrf(q) /\ q[2] = sid
    BY DEF SessionRow, IsCsrf
  <2> HIDE DEF q, end
  <2>4. rows[q].sid = sid
    BY <1>1, <2>1, <2>2, <2>3, RowFacts
  <2>5. q \in LiveRows(o)
    BY <1>4, <2>1, <2>2
  <2> QED
    BY <2>2, <2>3, <2>4, <2>5 DEF LiveSessions, rows, o, end
<1> QED
  BY <1>8, <1>9 DEF o

\* At lag 0 the namespace is the tables the application writes, wherever its consumer died,
\* whatever was delivered again, and across the handover to the target.
THEOREM NamespaceProjected == AuthSpec => []Projected
<1>1. Init => ProjInv
  BY InitProj
<1>2. ProjInv /\ [Next]_authVars => ProjInv'
  BY StepProj
<1> QED
  BY <1>1, <1>2, ProjProjects, PTL DEF AuthSpec
=============================================================================
