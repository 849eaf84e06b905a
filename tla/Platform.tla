------------------------------ MODULE Platform ------------------------------
(***************************************************************************)
(* What every call of the platform passes through: the gateway with its    *)
(* rate limit (gateway/main.py), the tokens and the role matrix            *)
(* (common/security.py, common/rbac.py, auth), the audit client every      *)
(* service uses, which goes through the gateway again (common/audit.py),   *)
(* and the hash-chained trail (audit/main.py).                             *)
(*                                                                         *)
(* A call is let in by the gateway, served by a service, and its event is  *)
(* sent and appended: four moments, with other calls, changes of the users *)
(* and time between them.  The outcome of the emission changes nothing for *)
(* the call (fail-open), so a caller that gives up waiting is not a step.  *)
(* X_Slip is X with a plausible slip.                                      *)
(***************************************************************************)
EXTENDS Naturals, FiniteSets, Sequences, SequencesExt

CONSTANTS
  Users, ItAdmin,  \* one of them administers the others
  Calls,           \* calls of users, each made once
  Nobody, NoToken,
  RateLimit,       \* CAM_GATEWAY_RATE_LIMIT_PER_MINUTE
  Window,          \* the minute of the rate limit, in ticks
  TokenLife,       \* jwt_ttl_minutes
  MaxTime          \* bound on the clock

ASSUME PlatformAssumption ==
  /\ ItAdmin \in Users
  /\ {RateLimit, Window, TokenLife, MaxTime} \subseteq Nat \ {0}
  /\ Nobody \notin Calls

VARIABLES
  now,    \* the clock
  users,  \* the rows of auth
  token,  \* the token each user holds
  call,   \* the calls
  hits,   \* gateway: recent admissions per principal, each told apart by what was let in
  lock,   \* audit: holder of _write_lock
  trail,  \* audit: the rows in the order of seq
  held    \* GHOST: when a user was last active with a role

vars == <<now, users, token, call, hits, lock, trail, held>>

-----------------------------------------------------------------------------
Roles == {"it_admin", "analyst"}

\* the capabilities that matter here; "note" is an event a user posts to audit directly
Matrix == [it_admin |-> {"users:admin"}, analyst |-> {"generate:run"}]

Needs == [patch_user |-> {"users:admin"}, create_run |-> {"generate:run"},
          note |-> {}, login |-> {}]

Can(roles, kind) == Needs[kind] \subseteq UNION {Matrix[r] : r \in roles}

\* the service that serves it, which is also the principal of the event it emits
ServedBy(kind) == IF kind = "create_run" THEN "svc:orchestration" ELSE "svc:auth"

Principals == Users \cup {"anonymous", "svc:orchestration", "svc:auth"}

RolesOf(u) == IF u = ItAdmin THEN {"it_admin"} ELSE {"analyst"}

NoCall == [stage |-> "none", kind |-> "note", by |-> Nobody, token |-> NoToken,
           admitted |-> 0, sent |-> 0, lag |-> 0, prev |-> <<>>]

NewToken(u) == [roles |-> users[u].roles, exp |-> now + TokenLife]

Init ==
  /\ now = 1
  /\ users = [u \in Users |-> [active |-> TRUE, roles |-> RolesOf(u)]]
  /\ token = [u \in Users |-> NewToken(u)]  \* they have signed in
  /\ call = [c \in Calls |-> NoCall]
  /\ hits = [p \in Principals |-> {}]
  /\ lock = Nobody
  /\ trail = <<>>
  /\ held = [u \in Users |-> [r \in Roles |-> IF r \in RolesOf(u) THEN now ELSE 0]]

-----------------------------------------------------------------------------
(* Gateway *)

Recent_ShortWindow(p) == {h \in hits[p] : now - h.at < Window}
\* _throttle: the admissions that still count
Recent(p) == {h \in hits[p] : now - h.at <= Window}

Full(p) == Cardinality(Recent(p)) >= RateLimit

Admit(p, what) ==
  /\ ~Full(p)
  /\ hits' = [hits EXCEPT ![p] = Recent(p) \cup {[at |-> now, of |-> what]}]

\* a request of a user and the event that is sent for it count for different principals
Request(c) == <<c, "request">>
Event(c)   == <<c, "event">>

\* all logins share one key
KeyOf(kind, u) == IF kind = "login" THEN "anonymous" ELSE u

Valid_Undated(t) == t # NoToken
\* decode_token
Valid(t) == t # NoToken /\ now < t.exp

\* proxy: a call of a user; login is the only route without a token.  A refused call
\* leaves nothing behind.
Arrive(c, u, kind) ==
  /\ call[c].stage = "none"
  /\ kind = "login" \/ Valid(token[u])
  /\ Admit(KeyOf(kind, u), Request(c))
  /\ call' = [call EXCEPT ![c] = [NoCall EXCEPT !.stage = "admitted", !.kind = kind, !.by = u,
                                    !.token = token[u], !.admitted = now]]
  /\ UNCHANGED <<now, users, token, lock, trail, held>>

-----------------------------------------------------------------------------
(* Services *)

\* how long ago the user was last entitled to it
Lag(u, kind) ==
  IF Needs[kind] = {} THEN 0
  ELSE now - held[u][CHOOSE r \in Roles : Needs[kind] \subseteq Matrix[r]]

Refuse(c) == /\ call' = [call EXCEPT ![c].stage = "refused", ![c].token = NoToken]
             /\ UNCHANGED <<now, users, token, hits, lock, trail, held>>

Served(c) == call' = [call EXCEPT ![c].stage = IF call[c].kind = "note" THEN "waiting"
                                                                       ELSE "served",
                                  ![c].token = NoToken,
                                  ![c].lag = Lag(call[c].by, call[c].kind)]

MaySignIn_Unchecked(u) == TRUE
MaySignIn(u) == users[u].active

Login(c) ==
  LET u == call[c].by IN
  /\ call[c].stage = "admitted" /\ call[c].kind = "login"
  /\ IF ~MaySignIn(u) THEN Refuse(c)
     ELSE /\ token' = [token EXCEPT ![u] = NewToken(u)]
          /\ Served(c)
          /\ UNCHANGED <<now, users, hits, lock, trail, held>>

\* current_principal and require: the service decodes the token again
Authorised(c) ==
  /\ call[c].stage = "admitted" /\ call[c].kind # "login"
  /\ Valid(call[c].token)
  /\ Can(call[c].token.roles, call[c].kind)

\* a user is deactivated, loses the role, or gets both back
PatchUser(c) ==
  /\ Authorised(c) /\ call[c].kind = "patch_user"
  /\ \E u \in Users, active \in BOOLEAN : \E roles \in {{}, RolesOf(u)} :
       /\ users' = [users EXCEPT ![u] = [active |-> active, roles |-> roles]]
       /\ held' = [held EXCEPT ![u] = [r \in Roles |-> IF active /\ r \in roles THEN now ELSE @[r]]]
  /\ Served(c)
  /\ UNCHANGED <<now, token, hits, lock, trail>>

\* any other call: what it does is in the other modules
Serve(c) ==
  /\ Authorised(c) /\ call[c].kind # "patch_user"
  /\ Served(c)
  /\ UNCHANGED <<now, users, token, hits, lock, trail, held>>

Forbid(c) ==
  /\ call[c].stage = "admitted" /\ call[c].kind # "login"
  /\ ~Authorised(c)
  /\ Refuse(c)

-----------------------------------------------------------------------------
(* Audit *)

\* audit.emit: through the gateway, in the name of the service.  An event that is refused,
\* or whose connection fails, is logged and lost.
Emit(c) ==
  LET p == ServedBy(call[c].kind) IN
  /\ call[c].stage = "served"
  /\ \/ /\ Admit(p, Event(c))
        /\ call' = [call EXCEPT ![c].stage = "waiting", ![c].sent = now]
     \/ /\ call' = [call EXCEPT ![c].stage = "lost"]
        /\ UNCHANGED hits
  /\ UNCHANGED <<now, users, token, lock, trail, held>>

LastHash == IF trail = <<>> THEN <<>> ELSE Last(trail).hash

MayWrite_Unlocked == TRUE
MayWrite == lock = Nobody

\* ingest: the lock is taken and the last row is read ...
ReadLast(c) ==
  /\ call[c].stage = "waiting"
  /\ MayWrite
  /\ lock' = c
  /\ call' = [call EXCEPT ![c].stage = "writing", ![c].prev = LastHash]
  /\ UNCHANGED <<now, users, token, hits, trail, held>>

Actor_AsClaimed(c, claimed) == claimed
\* only a service may name the actor: whom it served
Actor(c, claimed) == call[c].by

\* ... and the row is written.  A hash is the chain it stands for.
AppendEvent(c) ==
  /\ call[c].stage = "writing"
  /\ \E claimed \in IF call[c].kind = "note" THEN Users ELSE {call[c].by} :
       LET core == [call |-> c, actor |-> Actor(c, claimed)]
       IN trail' = Append(trail, [core |-> core, prev |-> call[c].prev,
                                  hash |-> Append(call[c].prev, core)])
  /\ call' = [call EXCEPT ![c].stage = "recorded", ![c].prev = <<>>]
  /\ lock' = Nobody
  /\ UNCHANGED <<now, users, token, hits, held>>

\* the audit process dies: calls in it are lost, the rows stay
AuditCrash ==
  /\ \E c \in Calls : call[c].stage \in {"waiting", "writing"}
  /\ call' = [c \in Calls |-> IF call[c].stage \in {"waiting", "writing"}
                              THEN [call[c] EXCEPT !.stage = "lost", !.prev = <<>>] ELSE call[c]]
  /\ lock' = Nobody
  /\ UNCHANGED <<now, users, token, hits, trail, held>>

Tick ==
  /\ now < MaxTime
  /\ now' = now + 1
  /\ held' = [u \in Users |-> [r \in Roles |->
                IF users[u].active /\ r \in users[u].roles THEN now + 1 ELSE held[u][r]]]
  /\ UNCHANGED <<users, token, call, hits, lock, trail>>

\* verify_chain: every hash follows from the one before it
Intact ==
  \A i \in DOMAIN trail :
    LET prev == IF i = 1 THEN <<>> ELSE trail[i - 1].hash
    IN trail[i].prev = prev /\ trail[i].hash = Append(prev, trail[i].core)

-----------------------------------------------------------------------------
Next ==
  \/ \E c \in Calls :
       \/ \E u \in Users, kind \in DOMAIN Needs : Arrive(c, u, kind)
       \/ Login(c) \/ PatchUser(c) \/ Serve(c) \/ Forbid(c)
       \/ Emit(c) \/ ReadLast(c) \/ AppendEvent(c)
  \/ AuditCrash \/ Tick

Spec == Init /\ [][Next]_vars

-----------------------------------------------------------------------------
\* what was ever let in for a principal, and within one window
Admitted(p) ==
  {[at |-> call[c].admitted, of |-> Request(c)] :
     c \in {d \in Calls : call[d].stage # "none" /\ p = KeyOf(call[d].kind, call[d].by)}}
  \cup {[at |-> call[c].sent, of |-> Event(c)] :
     c \in {d \in Calls : call[d].sent # 0 /\ p = ServedBy(call[d].kind)}}

Admissions(p, from) == {a \in Admitted(p) : from <= a.at /\ a.at <= from + Window}

\* What gets through is bounded: in no minute, wherever it starts, does the gateway pass
\* on more than the limit for one principal, a service counting as one however many users
\* it serves (_throttle); and although tokens are never withdrawn, nothing is done in a
\* user's name later than one token life after the user was last active with the role for
\* it, whoever changed the users in the meantime (login, decode_token, require).
AdmissionIsBounded ==
  /\ \A p \in Principals, from \in 0..MaxTime :
       Cardinality(Admissions(p, from)) <= RateLimit
  /\ \A c \in Calls : call[c].lag < TokenLife

\* The trail can be relied on for what it holds, even if events are lost on the way:
\* verify_chain finds it intact at every moment, although events arrive together and the
\* audit service may die while it writes one; an event is recorded once, only for a call
\* that was served, and in the name of the user who made it, also if a user posts it.
TrailIsSound ==
  /\ Intact
  /\ \A i \in DOMAIN trail :
       LET core == trail[i].core
       IN /\ call[core.call].stage = "recorded"
          /\ core.actor = call[core.call].by
          /\ \A j \in DOMAIN trail : trail[j].core.call = core.call => j = i
=============================================================================
