---------------------------- MODULE PlatformProofs --------------------------
(***************************************************************************)
(* Rate limit, rights and trail, for any users, calls, limits and times.   *)
(* The three have little to do with each other, so each has an invariant   *)
(* of its own on top of the types: what the gateway still remembers of the *)
(* admissions, what backs the roles of a token, and what the writer of an  *)
(* event knows of the last row.                                            *)
(***************************************************************************)
EXTENDS Platform, FiniteSetTheorems, SequenceTheorems, TLAPS

Kinds  == {"patch_user", "create_run", "note", "login"}
Stages == {"none", "admitted", "refused", "served", "lost", "waiting", "writing", "recorded"}

Token == [roles : SUBSET Roles, exp : Nat]
User  == [active : BOOLEAN, roles : SUBSET Roles]
Core  == [call : Calls, actor : Users \cup {Nobody}]
Row   == [core : Core, prev : Seq(Core), hash : Seq(Core)]
CallRecord ==
  [stage : Stages, kind : Kinds, by : Users \cup {Nobody}, token : Token \cup {NoToken},
   admitted : Nat, sent : Nat, lag : Int, prev : Seq(Core)]

TypeInv ==
  /\ now \in Nat
  /\ users \in [Users -> User]
  /\ token \in [Users -> Token]
  /\ call \in [Calls -> CallRecord]
  /\ \A c \in Calls : call[c].stage # "none" => call[c].by \in Users
  /\ held \in [Users -> [Roles -> Nat]]
  /\ lock \in Calls \cup {Nobody}
  /\ trail \in Seq(Row)

\* The admissions that count now are remembered, and no window holds too many.
RateInv ==
  /\ hits \in [Principals -> {H \in SUBSET [at : Nat, of : Calls \X {"request", "event"}] :
                                IsFiniteSet(H)}]
  /\ \A p \in Principals : \A a \in Admitted(p) :
       a.at <= now /\ (now - a.at <= Window => a \in hits[p])
  /\ \A p \in Principals, from \in Nat :
       IsFiniteSet(Admissions(p, from)) /\ Cardinality(Admissions(p, from)) <= RateLimit

\* A token expires within a token life of the last moment its user was active with its roles.
Backed(u, t) == t # NoToken => \A r \in t.roles : t.exp <= held[u][r] + TokenLife

RightsInv ==
  /\ \A u \in Users : /\ \A r \in Roles : held[u][r] <= now
                      /\ users[u].active => \A r \in users[u].roles : held[u][r] = now
                      /\ Backed(u, token[u])
  /\ \A c \in Calls : /\ call[c].stage = "admitted" => Backed(call[c].by, call[c].token)
                      /\ call[c].lag < TokenLife

\* Whoever is writing holds the lock and knows the last row; what is written is sound.
TrailInv ==
  /\ \A c \in Calls : call[c].stage = "writing" => lock = c /\ call[c].prev = LastHash
  /\ TrailIsSound

-----------------------------------------------------------------------------
(* Types *)

LEMMA Constants ==
  /\ {RateLimit, Window, TokenLife, MaxTime} \subseteq Nat /\ TokenLife > 0 /\ RateLimit > 0
  /\ ItAdmin \in Users /\ Nobody \notin Calls
  /\ DOMAIN Needs = Kinds
  BY PlatformAssumption DEF Needs, Kinds

LEMMA InitTypes == Init => TypeInv
<1> SUFFICES ASSUME Init PROVE TypeInv
  OBVIOUS
<1>1. \A u \in Users : RolesOf(u) \in SUBSET Roles
  BY DEF RolesOf, Roles
<1>2. users \in [Users -> User]
  BY <1>1 DEF Init, User
<1>3. now \in Nat /\ now + TokenLife \in Nat
  BY Constants DEF Init
<1>4. token \in [Users -> Token]
  <2>1. ASSUME NEW u \in Users PROVE NewToken(u) \in Token
    BY <1>2, <1>3 DEF NewToken, Token, User
  <2> QED
    BY <2>1 DEF Init
<1>5. NoCall \in CallRecord /\ NoCall.stage = "none"
  <2>1. <<>> \in Seq(Core)
    BY EmptySeq
  <2> QED
    BY <2>1 DEF NoCall, CallRecord, Stages, Kinds
<1>6. held \in [Users -> [Roles -> Nat]]
  BY <1>3 DEF Init
<1>7. trail \in Seq(Row)
  BY EmptySeq DEF Init
<1> QED
  BY <1>2, <1>3, <1>4, <1>5, <1>6, <1>7 DEF Init, TypeInv

\* one call moves on
LEMMA CallMoves ==
  ASSUME TypeInv, NEW c \in Calls, NEW r \in CallRecord, call' = [call EXCEPT ![c] = r],
         r.stage # "none" => r.by \in Users
  PROVE  /\ call' \in [Calls -> CallRecord]
         /\ call'[c] = r
         /\ \A d \in Calls \ {c} : call'[d] = call[d]
         /\ \A d \in Calls : call'[d].stage # "none" => call'[d].by \in Users
  BY DEF TypeInv

-----------------------------------------------------------------------------
(* How a call moves *)

\* what a step that serves, refuses, sends, writes or loses calls leaves alone
SameRequests ==
  \A d \in Calls : /\ call'[d].kind = call[d].kind /\ call'[d].by = call[d].by
                   /\ call'[d].admitted = call[d].admitted
                   /\ call'[d].stage # "none" <=> call[d].stage # "none"

CallTypes ==
  /\ call \in [Calls -> CallRecord]
  /\ \A c \in Calls : call[c].stage # "none" => call[c].by \in Users

\* the one role that has a capability
LEMMA RoleFor ==
  /\ (CHOOSE r \in Roles : Needs["patch_user"] \subseteq Matrix[r]) = "it_admin"
  /\ (CHOOSE r \in Roles : Needs["create_run"] \subseteq Matrix[r]) = "analyst"
<1>1. /\ Needs["patch_user"] = {"users:admin"} /\ Needs["create_run"] = {"generate:run"}
      /\ Matrix["it_admin"] = {"users:admin"} /\ Matrix["analyst"] = {"generate:run"}
  BY DEF Needs, Matrix
<1>2. /\ \A r \in Roles : Needs["patch_user"] \subseteq Matrix[r] <=> r = "it_admin"
      /\ \A r \in Roles : Needs["create_run"] \subseteq Matrix[r] <=> r = "analyst"
      /\ "it_admin" \in Roles /\ "analyst" \in Roles
  BY <1>1 DEF Roles
<1> QED
  BY <1>2

LEMMA WhatLagIs ==
  ASSUME NEW u, NEW kind \in Kinds
  PROVE  /\ kind \in {"note", "login"} => Lag(u, kind) = 0
         /\ kind = "patch_user" => Lag(u, kind) = now - held[u]["it_admin"]
         /\ kind = "create_run" => Lag(u, kind) = now - held[u]["analyst"]
<1>1. /\ Needs["note"] = {} /\ Needs["login"] = {}
      /\ Needs["patch_user"] # {} /\ Needs["create_run"] # {}
  BY DEF Needs
<1> QED
  BY <1>1, RoleFor DEF Lag, Kinds

LEMMA LagIsInt ==
  ASSUME TypeInv, NEW u \in Users, NEW kind \in Kinds
  PROVE  Lag(u, kind) \in Int
  BY WhatLagIs DEF TypeInv, Kinds, Roles

LEMMA ServedCall ==
  ASSUME TypeInv, NEW c \in Calls, call[c].stage = "admitted", Served(c)
  PROVE  /\ CallTypes' /\ SameRequests
         /\ \A d \in Calls \ {c} : call'[d] = call[d]
         /\ call'[c].stage \in {"waiting", "served"} /\ call'[c].sent = call[c].sent
         /\ call'[c].lag = Lag(call[c].by, call[c].kind)
<1> DEFINE stage == IF call[c].kind = "note" THEN "waiting" ELSE "served"
           lag   == Lag(call[c].by, call[c].kind)
           r     == [call[c] EXCEPT !.stage = stage, !.token = NoToken, !.lag = lag]
<1>1. call[c] \in CallRecord /\ call[c].by \in Users
  BY DEF TypeInv
<1>2. lag \in Int
  BY <1>1, LagIsInt DEF CallRecord
<1>3. stage \in {"waiting", "served"}
  OBVIOUS
<1>4. call' = [call EXCEPT ![c] = r]
  BY DEF Served
<1> HIDE DEF stage, lag
<1>5. /\ r \in CallRecord /\ r.stage = stage /\ r.lag = lag
      /\ r.kind = call[c].kind /\ r.by = call[c].by /\ r.admitted = call[c].admitted
      /\ r.sent = call[c].sent
  BY <1>1, <1>2, <1>3 DEF CallRecord, Stages
<1> HIDE DEF r
<1>6. /\ call' \in [Calls -> CallRecord] /\ call'[c] = r
      /\ \A d \in Calls \ {c} : call'[d] = call[d]
      /\ \A d \in Calls : call'[d].stage # "none" => call'[d].by \in Users
  BY <1>1, <1>4, <1>5, CallMoves
<1>7. SameRequests
  BY <1>3, <1>5, <1>6 DEF SameRequests
<1> QED
  BY <1>3, <1>5, <1>6, <1>7 DEF CallTypes, lag

LEMMA RefusedCall ==
  ASSUME TypeInv, NEW c \in Calls, call[c].stage = "admitted", Refuse(c)
  PROVE  /\ CallTypes' /\ SameRequests
         /\ \A d \in Calls \ {c} : call'[d] = call[d]
         /\ call'[c].stage = "refused" /\ call'[c].sent = call[c].sent
         /\ call'[c].lag = call[c].lag
<1> DEFINE r == [call[c] EXCEPT !.stage = "refused", !.token = NoToken]
<1>1. call[c] \in CallRecord /\ call[c].by \in Users
  BY DEF TypeInv
<1>2. call' = [call EXCEPT ![c] = r]
  BY DEF Refuse
<1>3. /\ r \in CallRecord /\ r.stage = "refused" /\ r.lag = call[c].lag
      /\ r.kind = call[c].kind /\ r.by = call[c].by /\ r.admitted = call[c].admitted
      /\ r.sent = call[c].sent
  BY <1>1 DEF CallRecord, Stages
<1> HIDE DEF r
<1>4. /\ call' \in [Calls -> CallRecord] /\ call'[c] = r
      /\ \A d \in Calls \ {c} : call'[d] = call[d]
      /\ \A d \in Calls : call'[d].stage # "none" => call'[d].by \in Users
  BY <1>1, <1>2, <1>3, CallMoves
<1>5. SameRequests
  BY <1>3, <1>4 DEF SameRequests
<1> QED
  BY <1>3, <1>4, <1>5 DEF CallTypes

LEMMA EmittedCall ==
  ASSUME TypeInv, NEW c \in Calls, Emit(c)
  PROVE  /\ CallTypes' /\ SameRequests
         /\ \A d \in Calls \ {c} : call'[d] = call[d]
         /\ call[c].stage = "served" /\ call'[c].stage \in {"waiting", "lost"}
         /\ call'[c].lag = call[c].lag
         /\ \/ /\ call'[c].sent = call[c].sent
               /\ UNCHANGED hits
            \/ /\ call'[c].sent = now
               /\ Admit(ServedBy(call[c].kind), Event(c))
<1>1. call[c] \in CallRecord /\ call[c].stage = "served" /\ call[c].by \in Users /\ now \in Nat
  BY DEF TypeInv, Emit
<1> DEFINE w == [call[c] EXCEPT !.stage = "waiting", !.sent = now]
           l == [call[c] EXCEPT !.stage = "lost"]
<1>2. \/ call' = [call EXCEPT ![c] = w] /\ Admit(ServedBy(call[c].kind), Event(c))
      \/ call' = [call EXCEPT ![c] = l] /\ UNCHANGED hits
  BY DEF Emit
<1>3. /\ w \in CallRecord /\ w.stage = "waiting" /\ w.lag = call[c].lag
      /\ w.kind = call[c].kind /\ w.by = call[c].by /\ w.admitted = call[c].admitted
      /\ w.sent = now
      /\ l \in CallRecord /\ l.stage = "lost" /\ l.lag = call[c].lag
      /\ l.kind = call[c].kind /\ l.by = call[c].by /\ l.admitted = call[c].admitted
      /\ l.sent = call[c].sent
  BY <1>1 DEF CallRecord, Stages
<1> HIDE DEF w, l
<1>4. PICK r \in {w, l} :
        /\ call' = [call EXCEPT ![c] = r]
        /\ \/ r.sent = now /\ Admit(ServedBy(call[c].kind), Event(c))
           \/ r.sent = call[c].sent /\ UNCHANGED hits
  BY <1>2, <1>3
<1>5. /\ r \in CallRecord /\ r.stage \in {"waiting", "lost"} /\ r.lag = call[c].lag
      /\ r.kind = call[c].kind /\ r.by = call[c].by /\ r.admitted = call[c].admitted
  BY <1>3
<1>6. /\ call' \in [Calls -> CallRecord] /\ call'[c] = r
      /\ \A d \in Calls \ {c} : call'[d] = call[d]
      /\ \A d \in Calls : call'[d].stage # "none" => call'[d].by \in Users
  BY <1>1, <1>4, <1>5, CallMoves
<1>7. SameRequests
  BY <1>1, <1>5, <1>6 DEF SameRequests
<1> QED
  BY <1>1, <1>4, <1>5, <1>6, <1>7 DEF CallTypes

LEMMA ArrivedCall ==
  ASSUME TypeInv, NEW c \in Calls, NEW u \in Users, NEW kind \in Kinds, Arrive(c, u, kind)
  PROVE  /\ CallTypes'
         /\ \A d \in Calls \ {c} : call'[d] = call[d]
         /\ call[c].stage = "none" /\ call'[c].stage = "admitted"
         /\ call'[c].kind = kind /\ call'[c].by = u /\ call'[c].token = token[u]
         /\ call'[c].admitted = now /\ call'[c].sent = 0 /\ call'[c].lag = 0
<1> DEFINE r == [NoCall EXCEPT !.stage = "admitted", !.kind = kind, !.by = u,
                               !.token = token[u], !.admitted = now]
<1>1. call' = [call EXCEPT ![c] = r] /\ call[c].stage = "none"
  BY DEF Arrive
<1>2. NoCall \in CallRecord /\ NoCall.sent = 0 /\ NoCall.lag = 0
  <2>1. <<>> \in Seq(Core)
    BY EmptySeq
  <2> QED
    BY <2>1 DEF NoCall, CallRecord, Stages, Kinds
<1>3. token[u] \in Token /\ now \in Nat
  BY DEF TypeInv
<1>4. /\ r \in CallRecord /\ r.stage = "admitted" /\ r.kind = kind /\ r.by = u
      /\ r.token = token[u] /\ r.admitted = now /\ r.sent = 0 /\ r.lag = 0
  BY <1>2, <1>3 DEF CallRecord, Stages
<1> HIDE DEF r
<1>5. /\ call' \in [Calls -> CallRecord] /\ call'[c] = r
      /\ \A d \in Calls \ {c} : call'[d] = call[d]
      /\ \A d \in Calls : call'[d].stage # "none" => call'[d].by \in Users
  BY <1>1, <1>4, CallMoves
<1> QED
  BY <1>1, <1>4, <1>5 DEF CallTypes

\* the hash of the last row, or of the empty trail
LEMMA LastHashType ==
  ASSUME TypeInv
  PROVE  LastHash \in Seq(Core)
<1>1. CASE trail = <<>>
  BY <1>1, EmptySeq DEF LastHash
<1>2. CASE trail # <<>>
  <2>1. Len(trail) \in 1..Len(trail)
    BY <1>2, EmptySeq DEF TypeInv
  <2>2. trail[Len(trail)] \in Row
    BY <2>1, ElementOfSeq DEF TypeInv
  <2> QED
    BY <1>2, <2>2 DEF LastHash, Last, Row
<1> QED
  BY <1>1, <1>2

LEMMA ReadingCall ==
  ASSUME TypeInv, NEW c \in Calls, ReadLast(c)
  PROVE  /\ CallTypes' /\ SameRequests
         /\ \A d \in Calls \ {c} : call'[d] = call[d]
         /\ call[c].stage = "waiting" /\ call'[c].stage = "writing"
         /\ call'[c].sent = call[c].sent /\ call'[c].lag = call[c].lag
         /\ call'[c].prev = LastHash
<1> DEFINE r == [call[c] EXCEPT !.stage = "writing", !.prev = LastHash]
<1>1. call[c] \in CallRecord /\ call[c].stage = "waiting" /\ call[c].by \in Users
  BY DEF TypeInv, ReadLast
<1>2. call' = [call EXCEPT ![c] = r]
  BY DEF ReadLast
<1>3. LastHash \in Seq(Core)
  BY LastHashType
<1>4. /\ r \in CallRecord /\ r.stage = "writing" /\ r.lag = call[c].lag
      /\ r.kind = call[c].kind /\ r.by = call[c].by /\ r.admitted = call[c].admitted
      /\ r.sent = call[c].sent /\ r.prev = LastHash
  BY <1>1, <1>3 DEF CallRecord, Stages
<1> HIDE DEF r
<1>5. /\ call' \in [Calls -> CallRecord] /\ call'[c] = r
      /\ \A d \in Calls \ {c} : call'[d] = call[d]
      /\ \A d \in Calls : call'[d].stage # "none" => call'[d].by \in Users
  BY <1>1, <1>2, <1>4, CallMoves
<1>6. SameRequests
  BY <1>1, <1>4, <1>5 DEF SameRequests
<1> QED
  BY <1>1, <1>4, <1>5, <1>6 DEF CallTypes

LEMMA RecordedCall ==
  ASSUME TypeInv, NEW c \in Calls, AppendEvent(c)
  PROVE  /\ CallTypes' /\ SameRequests
         /\ \A d \in Calls \ {c} : call'[d] = call[d]
         /\ call[c].stage = "writing" /\ call'[c].stage = "recorded"
         /\ call'[c].sent = call[c].sent /\ call'[c].lag = call[c].lag
<1> DEFINE r == [call[c] EXCEPT !.stage = "recorded", !.prev = <<>>]
<1>1. call[c] \in CallRecord /\ call[c].stage = "writing" /\ call[c].by \in Users
  BY DEF TypeInv, AppendEvent
<1>2. call' = [call EXCEPT ![c] = r]
  BY DEF AppendEvent
<1>3. <<>> \in Seq(Core)
  BY EmptySeq
<1>4. /\ r \in CallRecord /\ r.stage = "recorded" /\ r.lag = call[c].lag
      /\ r.kind = call[c].kind /\ r.by = call[c].by /\ r.admitted = call[c].admitted
      /\ r.sent = call[c].sent
  BY <1>1, <1>3 DEF CallRecord, Stages
<1> HIDE DEF r
<1>5. /\ call' \in [Calls -> CallRecord] /\ call'[c] = r
      /\ \A d \in Calls \ {c} : call'[d] = call[d]
      /\ \A d \in Calls : call'[d].stage # "none" => call'[d].by \in Users
  BY <1>1, <1>2, <1>4, CallMoves
<1>6. SameRequests
  BY <1>1, <1>4, <1>5 DEF SameRequests
<1> QED
  BY <1>1, <1>4, <1>5, <1>6 DEF CallTypes

LEMMA CrashedCalls ==
  ASSUME TypeInv, AuditCrash
  PROVE  /\ CallTypes' /\ SameRequests
         /\ \A d \in Calls :
              /\ call'[d].sent = call[d].sent /\ call'[d].lag = call[d].lag
              /\ call'[d] = call[d] \/ call'[d].stage = "lost"
              /\ call'[d].stage # "writing"
              /\ call[d].stage = "recorded" => call'[d] = call[d]
<1>1. ASSUME NEW d \in Calls
      PROVE  /\ call'[d] \in CallRecord
             /\ call'[d].kind = call[d].kind /\ call'[d].by = call[d].by
             /\ call'[d].admitted = call[d].admitted
             /\ call'[d].sent = call[d].sent /\ call'[d].lag = call[d].lag
             /\ IF call[d].stage \in {"waiting", "writing"}
                  THEN call'[d].stage = "lost" ELSE call'[d] = call[d]
  <2> DEFINE r == [call[d] EXCEPT !.stage = "lost", !.prev = <<>>]
  <2>1. call'[d] = IF call[d].stage \in {"waiting", "writing"} THEN r ELSE call[d]
    BY DEF AuditCrash
  <2>2. call[d] \in CallRecord /\ <<>> \in Seq(Core)
    BY EmptySeq DEF TypeInv
  <2>3. /\ r \in CallRecord /\ r.stage = "lost" /\ r.lag = call[d].lag
        /\ r.kind = call[d].kind /\ r.by = call[d].by /\ r.admitted = call[d].admitted
        /\ r.sent = call[d].sent
    BY <2>2 DEF CallRecord, Stages
  <2> HIDE DEF r
  <2> QED
    BY <2>1, <2>2, <2>3
<1>2. call' = [d \in Calls |-> call'[d]]
  BY DEF AuditCrash
<1>3. SameRequests
  BY <1>1 DEF SameRequests
<1>4. CallTypes'
  BY <1>1, <1>2 DEF CallTypes, TypeInv
<1> QED
  BY <1>1, <1>3, <1>4

\* the row that is written stands on the one that was read, in the name of the caller
LEMMA WrittenRow ==
  ASSUME TypeInv, NEW c \in Calls, AppendEvent(c)
  PROVE  LET core == [call |-> c, actor |-> call[c].by]
             row  == [core |-> core, prev |-> call[c].prev, hash |-> Append(call[c].prev, core)]
         IN trail' = Append(trail, row) /\ row \in Row
<1> DEFINE core == [call |-> c, actor |-> call[c].by]
           row  == [core |-> core, prev |-> call[c].prev, hash |-> Append(call[c].prev, core)]
<1>1. call[c] \in CallRecord
  BY DEF TypeInv
<1>2. core \in Core
  BY <1>1 DEF Core, CallRecord
<1>3. call[c].prev \in Seq(Core)
  BY <1>1 DEF CallRecord
<1>4. trail' = Append(trail, row)
  BY DEF AppendEvent, Actor
<1> HIDE DEF core
<1>5. Append(call[c].prev, core) \in Seq(Core)
  BY <1>2, <1>3
<1>6. row \in Row
  BY <1>2, <1>3, <1>5 DEF Row
<1> QED
  BY <1>4, <1>6 DEF core

LEMMA PatchedUsers ==
  ASSUME TypeInv, NEW c \in Calls, PatchUser(c)
  PROVE  /\ users' \in [Users -> User] /\ held' \in [Users -> [Roles -> Nat]]
         /\ \A u \in Users, r \in Roles :
              /\ held'[u][r] \in {held[u][r], now}
              /\ users'[u].active /\ r \in users'[u].roles =>
                   held'[u][r] = now \/ users'[u] = users[u]
<1>0. PICK u \in Users, active \in BOOLEAN : \E roles \in {{}, RolesOf(u)} :
        /\ users' = [users EXCEPT ![u] = [active |-> active, roles |-> roles]]
        /\ held' = [held EXCEPT ![u] = [r \in Roles |->
                      IF active /\ r \in roles THEN now ELSE held[u][r]]]
  BY DEF PatchUser
<1>1. PICK roles \in {{}, RolesOf(u)} :
        /\ users' = [users EXCEPT ![u] = [active |-> active, roles |-> roles]]
        /\ held' = [held EXCEPT ![u] = [r \in Roles |->
                      IF active /\ r \in roles THEN now ELSE held[u][r]]]
  BY <1>0
<1>2. [active |-> active, roles |-> roles] \in User
  <2>1. roles \in SUBSET Roles
    BY DEF RolesOf, Roles
  <2> QED
    BY <2>1 DEF User
<1>3. users' \in [Users -> User]
  BY <1>1, <1>2 DEF TypeInv
<1>4. [r \in Roles |-> IF active /\ r \in roles THEN now ELSE held[u][r]] \in [Roles -> Nat]
  BY DEF TypeInv
<1>5. held' \in [Users -> [Roles -> Nat]]
  BY <1>1, <1>4 DEF TypeInv
<1>6. ASSUME NEW v \in Users, NEW r \in Roles
      PROVE  /\ held'[v][r] \in {held[v][r], now}
             /\ users'[v].active /\ r \in users'[v].roles =>
                  held'[v][r] = now \/ users'[v] = users[v]
  <2>1. CASE v = u
    <3>1. held'[v][r] = IF active /\ r \in roles THEN now ELSE held[v][r]
      BY <1>1, <2>1 DEF TypeInv
    <3>2. users'[v] = [active |-> active, roles |-> roles]
      BY <1>1, <2>1 DEF TypeInv
    <3> QED
      BY <3>1, <3>2
  <2>2. CASE v # u
    BY <1>1, <2>2 DEF TypeInv
  <2> QED
    BY <2>1, <2>2
<1> QED
  BY <1>3, <1>5, <1>6

LEMMA TickedClock ==
  ASSUME TypeInv, Tick
  PROVE  /\ now' = now + 1 /\ UNCHANGED <<users, token, call, hits, lock, trail>>
         /\ held' \in [Users -> [Roles -> Nat]]
         /\ \A u \in Users, r \in Roles :
              held'[u][r] = IF users[u].active /\ r \in users[u].roles THEN now'
                                                                     ELSE held[u][r]
<1>1. /\ now' = now + 1 /\ UNCHANGED <<users, token, call, hits, lock, trail>>
      /\ held' = [u \in Users |-> [r \in Roles |->
                    IF users[u].active /\ r \in users[u].roles THEN now + 1 ELSE held[u][r]]]
  BY DEF Tick
<1>2. ASSUME NEW u \in Users
      PROVE  [r \in Roles |-> IF users[u].active /\ r \in users[u].roles THEN now + 1
                                                                      ELSE held[u][r]]
               \in [Roles -> Nat]
  BY DEF TypeInv
<1>3. held' \in [Users -> [Roles -> Nat]]
  BY <1>1, <1>2
<1> QED
  BY <1>1, <1>3

LEMMA NewTokenType ==
  ASSUME TypeInv, NEW u \in Users
  PROVE  /\ NewToken(u) \in Token
         /\ NewToken(u).roles = users[u].roles /\ NewToken(u).exp = now + TokenLife
<1>1. users[u] \in User /\ now + TokenLife \in Nat
  BY Constants DEF TypeInv
<1> QED
  BY <1>1 DEF NewToken, Token, User

LEMMA TypesNext == TypeInv /\ [Next]_vars => TypeInv'
<1> SUFFICES ASSUME TypeInv, [Next]_vars PROVE TypeInv'
  OBVIOUS
<1>1. ASSUME NEW c \in Calls, NEW u \in Users, NEW kind \in DOMAIN Needs, Arrive(c, u, kind)
      PROVE  TypeInv'
  <2>1. CallTypes'
    BY <1>1, ArrivedCall, Constants
  <2>2. UNCHANGED <<now, users, token, lock, trail, held>>
    BY <1>1 DEF Arrive
  <2> QED
    BY <2>1, <2>2 DEF TypeInv, CallTypes
<1>2. ASSUME NEW c \in Calls, Login(c)
      PROVE  TypeInv'
  <2>1. call[c].stage = "admitted" /\ call[c].by \in Users
    BY <1>2 DEF Login, TypeInv
  <2>2. CASE ~MaySignIn(call[c].by)
    <3>1. Refuse(c)
      BY <1>2, <2>2 DEF Login
    <3>2. CallTypes' /\ UNCHANGED <<now, users, token, held, lock, trail>>
      BY <2>1, <3>1, RefusedCall DEF Refuse
    <3> QED
      BY <3>2 DEF TypeInv, CallTypes
  <2>3. CASE MaySignIn(call[c].by)
    <3>1. /\ Served(c) /\ token' = [token EXCEPT ![call[c].by] = NewToken(call[c].by)]
          /\ UNCHANGED <<now, users, held, lock, trail>>
      BY <1>2, <2>3 DEF Login
    <3>2. CallTypes' /\ NewToken(call[c].by) \in Token
      BY <2>1, <3>1, ServedCall, NewTokenType
    <3> QED
      BY <3>1, <3>2 DEF TypeInv, CallTypes
  <2> QED
    BY <2>2, <2>3
<1>3. ASSUME NEW c \in Calls, PatchUser(c)
      PROVE  TypeInv'
  <2>1. call[c].stage = "admitted" /\ Served(c) /\ UNCHANGED <<now, token, lock, trail>>
    BY <1>3 DEF PatchUser, Authorised
  <2>2. CallTypes' /\ users' \in [Users -> User] /\ held' \in [Users -> [Roles -> Nat]]
    BY <1>3, <2>1, ServedCall, PatchedUsers
  <2> QED
    BY <2>1, <2>2 DEF TypeInv, CallTypes
<1>4. ASSUME NEW c \in Calls, Serve(c)
      PROVE  TypeInv'
  <2>1. /\ call[c].stage = "admitted" /\ Served(c)
        /\ UNCHANGED <<now, users, token, held, lock, trail>>
    BY <1>4 DEF Serve, Authorised
  <2>2. CallTypes'
    BY <2>1, ServedCall
  <2> QED
    BY <2>1, <2>2 DEF TypeInv, CallTypes
<1>5. ASSUME NEW c \in Calls, Forbid(c)
      PROVE  TypeInv'
  <2>1. call[c].stage = "admitted" /\ Refuse(c)
    BY <1>5 DEF Forbid
  <2>2. CallTypes' /\ UNCHANGED <<now, users, token, held, lock, trail>>
    BY <2>1, RefusedCall DEF Refuse
  <2> QED
    BY <2>2 DEF TypeInv, CallTypes
<1>6. ASSUME NEW c \in Calls, Emit(c)
      PROVE  TypeInv'
  <2>1. CallTypes' /\ UNCHANGED <<now, users, token, held, lock, trail>>
    BY <1>6, EmittedCall DEF Emit
  <2> QED
    BY <2>1 DEF TypeInv, CallTypes
<1>7. ASSUME NEW c \in Calls, ReadLast(c)
      PROVE  TypeInv'
  <2>1. CallTypes' /\ lock' = c /\ UNCHANGED <<now, users, token, held, trail>>
    BY <1>7, ReadingCall DEF ReadLast
  <2> QED
    BY <2>1 DEF TypeInv, CallTypes
<1>8. ASSUME NEW c \in Calls, AppendEvent(c)
      PROVE  TypeInv'
  <2>1. CallTypes' /\ lock' = Nobody /\ UNCHANGED <<now, users, token, held>>
    BY <1>8, RecordedCall DEF AppendEvent
  <2>2. PICK row \in Row : trail' = Append(trail, row)
    BY <1>8, WrittenRow
  <2>3. trail' \in Seq(Row)
    BY <2>2 DEF TypeInv
  <2> QED
    BY <2>1, <2>3 DEF TypeInv, CallTypes
<1>9. CASE AuditCrash
  <2>1. CallTypes' /\ lock' = Nobody /\ UNCHANGED <<now, users, token, held, trail>>
    BY <1>9, CrashedCalls DEF AuditCrash
  <2> QED
    BY <2>1 DEF TypeInv, CallTypes
<1>10. CASE Tick
  <2>1. /\ now' \in Nat /\ UNCHANGED <<users, token, call, lock, trail>>
        /\ held' \in [Users -> [Roles -> Nat]]
    BY <1>10, TickedClock DEF TypeInv
  <2> QED
    BY <2>1 DEF TypeInv
<1>11. CASE UNCHANGED vars
  BY <1>11 DEF vars, TypeInv
<1> QED
  BY <1>1, <1>2, <1>3, <1>4, <1>5, <1>6, <1>7, <1>8, <1>9, <1>10, <1>11 DEF Next

-----------------------------------------------------------------------------
(* The gateway *)

LEMMA RateInit == Init => RateInv
<1> SUFFICES ASSUME Init PROVE RateInv
  OBVIOUS
<1>1. \A p : Admitted(p) = {}
  BY DEF Init, Admitted, NoCall
<1>2. \A p, from : Admissions(p, from) = {}
  BY <1>1 DEF Admissions
<1>3. IsFiniteSet({}) /\ Cardinality({}) = 0
  BY FS_EmptySet
<1>4. 0 <= RateLimit
  BY Constants
<1> QED
  BY <1>1, <1>2, <1>3, <1>4 DEF Init, RateInv

\* nothing is let in, and time may pass
LEMMA RateStays ==
  ASSUME TypeInv, RateInv, now' \in {now, now + 1}, UNCHANGED hits,
         \A p \in Principals : Admitted(p)' \subseteq Admitted(p)
  PROVE  RateInv'
<1>1. ASSUME NEW p \in Principals, NEW a \in Admitted(p)'
      PROVE  a.at <= now' /\ (now' - a.at <= Window => a \in hits'[p])
  <2>1. a \in Admitted(p) /\ a.at <= now /\ (now - a.at <= Window => a \in hits[p])
    BY DEF RateInv
  <2>2. a.at \in Nat /\ now \in Nat /\ Window \in Nat
    BY <2>1, Constants DEF Admitted, TypeInv, CallRecord
  <2> QED
    BY <2>1, <2>2
<1>2. ASSUME NEW p \in Principals, NEW from \in Nat
      PROVE  /\ IsFiniteSet(Admissions(p, from)')
             /\ Cardinality(Admissions(p, from)') <= RateLimit
  <2>1. Admissions(p, from)' \subseteq Admissions(p, from)
    BY DEF Admissions
  <2>2. IsFiniteSet(Admissions(p, from)) /\ Cardinality(Admissions(p, from)) <= RateLimit
    BY DEF RateInv
  <2>3. /\ IsFiniteSet(Admissions(p, from)')
        /\ Cardinality(Admissions(p, from)') <= Cardinality(Admissions(p, from))
        /\ Cardinality(Admissions(p, from)') \in Nat /\ Cardinality(Admissions(p, from)) \in Nat
    BY <2>1, <2>2, FS_Subset, FS_CardinalityType
  <2> QED
    BY <2>2, <2>3, Constants
<1> QED
  BY <1>1, <1>2 DEF RateInv

\* One more is let in.  Every admission of a window that holds the present is remembered,
\* so there were fewer than the limit of them.
LEMMA AdmitKeepsRate ==
  ASSUME TypeInv, RateInv, NEW p \in Principals, NEW what \in Calls \X {"request", "event"},
         Admit(p, what), UNCHANGED now,
         Admitted(p)' \subseteq Admitted(p) \cup {[at |-> now, of |-> what]},
         \A q \in Principals \ {p} : Admitted(q)' \subseteq Admitted(q)
  PROVE  RateInv'
<1> DEFINE e == [at |-> now, of |-> what]
<1>1. /\ ~Full(p) /\ now' = now /\ now \in Nat /\ Window \in Nat /\ RateLimit \in Nat
      /\ hits' = [hits EXCEPT ![p] = Recent(p) \cup {e}]
  BY Constants DEF Admit, TypeInv
<1>2. /\ e \in [at : Nat, of : Calls \X {"request", "event"}] /\ e.at = now
      /\ IsFiniteSet(Recent(p)) /\ Cardinality(Recent(p)) \in Nat
      /\ IsFiniteSet(Recent(p) \cup {e})
      /\ Recent(p) \subseteq hits[p]
      /\ Cardinality(Recent(p)) < RateLimit
  <2>1. Recent(p) \subseteq hits[p] /\ IsFiniteSet(hits[p])
    BY DEF Recent, RateInv
  <2>2. IsFiniteSet(Recent(p)) /\ Cardinality(Recent(p)) \in Nat
    BY <2>1, FS_Subset, FS_CardinalityType
  <2>3. IsFiniteSet(Recent(p) \cup {e})
    BY <2>2, FS_AddElement
  <2>4. Cardinality(Recent(p)) < RateLimit
    BY <1>1, <2>2 DEF Full
  <2> QED
    BY <1>1, <2>1, <2>2, <2>3, <2>4
<1> HIDE DEF e
<1>3. /\ hits' \in [Principals -> {H \in SUBSET [at : Nat, of : Calls \X {"request", "event"}] :
                                     IsFiniteSet(H)}]
      /\ hits'[p] = Recent(p) \cup {e}
      /\ \A q \in Principals \ {p} : hits'[q] = hits[q]
  BY <1>1, <1>2 DEF RateInv
<1>4. \A q \in Principals : \A a \in Admitted(q) : a.at \in Nat
  BY DEF Admitted, TypeInv, CallRecord
<1>5. ASSUME NEW q \in Principals, NEW a \in Admitted(q)'
      PROVE  a.at <= now' /\ (now' - a.at <= Window => a \in hits'[q])
  <2>1. CASE q # p
    BY <1>1, <1>3, <2>1 DEF RateInv
  <2>2. CASE q = p /\ a # e
    <3>1. a \in Admitted(p) /\ a.at <= now /\ (now - a.at <= Window => a \in Recent(p))
      BY <2>2 DEF RateInv, Recent, e
    <3> QED
      BY <1>1, <1>3, <2>2, <3>1
  <2>3. CASE q = p /\ a = e
    BY <1>1, <1>2, <1>3, <2>3
  <2> QED
    BY <2>1, <2>2, <2>3
<1>6. ASSUME NEW q \in Principals, NEW from \in Nat
      PROVE  /\ IsFiniteSet(Admissions(q, from)')
             /\ Cardinality(Admissions(q, from)') <= RateLimit
  <2>1. IsFiniteSet(Admissions(q, from)) /\ Cardinality(Admissions(q, from)) <= RateLimit
    BY DEF RateInv
  <2>2. CASE Admissions(q, from)' \subseteq Admissions(q, from)
    <3>1. /\ IsFiniteSet(Admissions(q, from)')
          /\ Cardinality(Admissions(q, from)') <= Cardinality(Admissions(q, from))
          /\ Cardinality(Admissions(q, from)') \in Nat
          /\ Cardinality(Admissions(q, from)) \in Nat
      BY <2>1, <2>2, FS_Subset, FS_CardinalityType
    <3> QED
      BY <1>1, <2>1, <3>1
  <2>3. CASE ~(Admissions(q, from)' \subseteq Admissions(q, from))
    <3>1. q = p
      BY <2>3 DEF Admissions
    <3>2. from <= now /\ now <= from + Window
      BY <1>1, <1>2, <2>3, <3>1 DEF Admissions, e
    <3>3. ASSUME NEW a \in Admissions(p, from)'
          PROVE  a \in Recent(p) \cup {e}
      <4>1. CASE a = e
        BY <4>1
      <4>2. CASE a # e
        <5>1. a \in Admitted(p) /\ from <= a.at /\ a.at \in Nat
          BY <1>4, <4>2 DEF Admissions, e
        <5>2. now - a.at <= Window
          BY <1>1, <3>2, <5>1
        <5> QED
          BY <5>1, <5>2 DEF RateInv, Recent
      <4> QED
        BY <4>1, <4>2
    <3>4. Admissions(p, from)' \subseteq Recent(p) \cup {e}
      BY <3>3
    <3>5. /\ Cardinality(Recent(p) \cup {e}) <= Cardinality(Recent(p)) + 1
          /\ Cardinality(Recent(p) \cup {e}) \in Nat
      BY <1>2, FS_AddElement, FS_CardinalityType
    <3>6. /\ IsFiniteSet(Admissions(p, from)')
          /\ Cardinality(Admissions(p, from)') <= Cardinality(Recent(p) \cup {e})
          /\ Cardinality(Admissions(p, from)') \in Nat
      BY <1>2, <3>4, FS_Subset, FS_CardinalityType
    <3> QED
      BY <1>1, <1>2, <3>1, <3>5, <3>6
  <2> QED
    BY <2>2, <2>3
<1> QED
  BY <1>3, <1>5, <1>6 DEF RateInv

\* no new request, and no new event unless it is sent now
LEMMA AdmittedStays ==
  ASSUME TypeInv, SameRequests, NEW p,
         \A d \in Calls : call'[d].sent = call[d].sent
  PROVE  Admitted(p)' = Admitted(p)
<1>1. /\ {d \in Calls : call'[d].stage # "none" /\ p = KeyOf(call'[d].kind, call'[d].by)}
           = {d \in Calls : call[d].stage # "none" /\ p = KeyOf(call[d].kind, call[d].by)}
      /\ {d \in Calls : call'[d].sent # 0 /\ p = ServedBy(call'[d].kind)}
           = {d \in Calls : call[d].sent # 0 /\ p = ServedBy(call[d].kind)}
  BY DEF SameRequests
<1>2. \A d \in Calls : call'[d].admitted = call[d].admitted /\ call'[d].sent = call[d].sent
  BY DEF SameRequests
<1> QED
  BY <1>1, <1>2 DEF Admitted

LEMMA RateNext == TypeInv /\ RateInv /\ [Next]_vars => RateInv'
<1> SUFFICES ASSUME TypeInv, RateInv, [Next]_vars PROVE RateInv'
  OBVIOUS
<1>1. ASSUME NEW c \in Calls, NEW u \in Users, NEW kind \in DOMAIN Needs, Arrive(c, u, kind)
      PROVE  RateInv'
  <2> DEFINE p == KeyOf(kind, u)
             e == [at |-> now, of |-> Request(c)]
  <2>1. p \in Principals /\ Request(c) \in Calls \X {"request", "event"}
    BY DEF KeyOf, Principals, Request
  <2>2. Admit(p, Request(c)) /\ UNCHANGED now
    BY <1>1 DEF Arrive
  <2>3. /\ \A d \in Calls \ {c} : call'[d] = call[d]
        /\ call'[c].kind = kind /\ call'[c].by = u
        /\ call'[c].admitted = now /\ call'[c].sent = 0
    BY <1>1, ArrivedCall, Constants
  <2>4. ASSUME NEW q, NEW a \in Admitted(q)'
        PROVE  a \in Admitted(q) \/ (q = p /\ a = e)
    <3>1. CASE \E d \in Calls : /\ call'[d].stage # "none"
                                /\ q = KeyOf(call'[d].kind, call'[d].by)
                                /\ a = [at |-> call'[d].admitted, of |-> Request(d)]
      BY <2>3, <3>1 DEF Admitted
    <3>2. CASE \E d \in Calls : /\ call'[d].sent # 0 /\ q = ServedBy(call'[d].kind)
                                /\ a = [at |-> call'[d].sent, of |-> Event(d)]
      BY <2>3, <3>2 DEF Admitted
    <3> QED
      BY <3>1, <3>2 DEF Admitted
  <2> HIDE DEF p, e
  <2>5. /\ Admitted(p)' \subseteq Admitted(p) \cup {e}
        /\ \A q \in Principals \ {p} : Admitted(q)' \subseteq Admitted(q)
    <3>1. \A a \in Admitted(p)' : a \in Admitted(p) \cup {e}
      BY <2>4
    <3>2. \A q \in Principals \ {p} : \A a \in Admitted(q)' : a \in Admitted(q)
      BY <2>4
    <3> QED
      BY <3>1, <3>2
  <2> QED
    BY <2>1, <2>2, <2>5, AdmitKeepsRate DEF e
<1>2. ASSUME NEW c \in Calls, Login(c) \/ PatchUser(c) \/ Serve(c) \/ Forbid(c)
      PROVE  RateInv'
  <2>1. call[c].stage = "admitted" /\ (Served(c) \/ Refuse(c)) /\ UNCHANGED <<now, hits>>
    BY <1>2 DEF Login, PatchUser, Serve, Forbid, Authorised, Refuse
  <2>2. SameRequests /\ \A d \in Calls : call'[d].sent = call[d].sent
    <3>1. CASE Served(c)
      BY <2>1, <3>1, ServedCall
    <3>2. CASE Refuse(c)
      BY <2>1, <3>2, RefusedCall
    <3> QED
      BY <2>1, <3>1, <3>2
  <2>3. \A p \in Principals : Admitted(p)' = Admitted(p)
    BY <2>2, AdmittedStays
  <2> QED
    BY <2>1, <2>3, RateStays
<1>3. ASSUME NEW c \in Calls, Emit(c)
      PROVE  RateInv'
  <2>1. /\ SameRequests /\ UNCHANGED now
        /\ \A d \in Calls \ {c} : call'[d].sent = call[d].sent
    BY <1>3, EmittedCall DEF Emit
  <2>2. CASE call'[c].sent = call[c].sent /\ UNCHANGED hits
    <3>1. \A p \in Principals : Admitted(p)' = Admitted(p)
      BY <2>1, <2>2, AdmittedStays
    <3> QED
      BY <2>1, <2>2, <3>1, RateStays
  <2>3. CASE call'[c].sent = now /\ Admit(ServedBy(call[c].kind), Event(c))
    <3> DEFINE e == [at |-> now, of |-> Event(c)]
    <3>0. PICK p \in Principals : p = ServedBy(call[c].kind)
      BY DEF ServedBy, Principals
    <3>1. Event(c) \in Calls \X {"request", "event"}
      BY DEF Event
    <3>2. ASSUME NEW q, NEW a \in Admitted(q)'
          PROVE  a \in Admitted(q) \/ (q = p /\ a = e)
      <4>1. CASE \E d \in Calls : /\ call'[d].stage # "none"
                                  /\ q = KeyOf(call'[d].kind, call'[d].by)
                                  /\ a = [at |-> call'[d].admitted, of |-> Request(d)]
        BY <2>1, <4>1 DEF Admitted, SameRequests
      <4>2. CASE \E d \in Calls : /\ call'[d].sent # 0 /\ q = ServedBy(call'[d].kind)
                                  /\ a = [at |-> call'[d].sent, of |-> Event(d)]
        BY <2>1, <2>3, <3>0, <4>2 DEF Admitted, SameRequests
      <4> QED
        BY <4>1, <4>2 DEF Admitted
    <3> HIDE DEF e
    <3>3. /\ Admitted(p)' \subseteq Admitted(p) \cup {e}
          /\ \A q \in Principals \ {p} : Admitted(q)' \subseteq Admitted(q)
      <4>1. \A a \in Admitted(p)' : a \in Admitted(p) \cup {e}
        BY <3>2
      <4>2. \A q \in Principals \ {p} : \A a \in Admitted(q)' : a \in Admitted(q)
        BY <3>2
      <4> QED
        BY <4>1, <4>2
    <3>4. Admit(p, Event(c))
      BY <2>3, <3>0
    <3> QED
      BY <2>1, <3>1, <3>3, <3>4, AdmitKeepsRate DEF e
  <2> QED
    BY <1>3, <2>2, <2>3, EmittedCall
<1>4. ASSUME SameRequests, UNCHANGED <<now, hits>>,
             \A d \in Calls : call'[d].sent = call[d].sent
      PROVE  RateInv'
  <2>1. \A p \in Principals : Admitted(p)' = Admitted(p)
    BY <1>4, AdmittedStays
  <2> QED
    BY <1>4, <2>1, RateStays
<1>5. ASSUME NEW c \in Calls, ReadLast(c)
      PROVE  RateInv'
  BY <1>4, <1>5, ReadingCall DEF ReadLast
<1>6. ASSUME NEW c \in Calls, AppendEvent(c)
      PROVE  RateInv'
  BY <1>4, <1>6, RecordedCall DEF AppendEvent
<1>7. CASE AuditCrash
  BY <1>4, <1>7, CrashedCalls DEF AuditCrash
<1>8. CASE Tick \/ UNCHANGED vars
  <2>1. now' \in {now, now + 1} /\ UNCHANGED hits /\ call' = call
    BY <1>8 DEF Tick, vars
  <2>2. \A p \in Principals : Admitted(p)' = Admitted(p)
    BY <2>1 DEF Admitted
  <2> QED
    BY <2>1, <2>2, RateStays
<1> QED
  BY <1>1, <1>2, <1>3, <1>5, <1>6, <1>7, <1>8 DEF Next

-----------------------------------------------------------------------------
(* Rights *)

LEMMA RightsInit == Init => RightsInv
<1> SUFFICES ASSUME Init PROVE RightsInv
  OBVIOUS
<1>1. now = 1 /\ TokenLife \in Nat /\ TokenLife > 0 /\ \A u \in Users : RolesOf(u) \in SUBSET Roles
  BY Constants DEF Init, RolesOf, Roles
<1>2. ASSUME NEW u \in Users
      PROVE  /\ \A r \in Roles : held[u][r] = IF r \in RolesOf(u) THEN 1 ELSE 0
             /\ users[u].roles = RolesOf(u)
             /\ token[u].roles = RolesOf(u) /\ token[u].exp = 1 + TokenLife
  BY <1>1 DEF Init, NewToken
<1>3. ASSUME NEW u \in Users
      PROVE  /\ \A r \in Roles : held[u][r] <= now
             /\ \A r \in users[u].roles : held[u][r] = now
             /\ Backed(u, token[u])
  BY <1>1, <1>2 DEF Backed
<1>4. \A c \in Calls : call[c].stage # "admitted" /\ call[c].lag = 0
  BY DEF Init, NoCall
<1> QED
  BY <1>1, <1>3, <1>4 DEF RightsInv

\* a token, once backed, stays so
LEMMA StaysBacked ==
  ASSUME TypeInv, held' \in [Users -> [Roles -> Nat]],
         \A u \in Users, r \in Roles : held[u][r] <= held'[u][r]
  PROVE  \A u \in Users, t \in Token \cup {NoToken} : Backed(u, t) => Backed(u, t)'
<1> SUFFICES ASSUME NEW u \in Users, NEW t \in Token, Backed(u, t), t # NoToken, NEW r \in t.roles
             PROVE  t.exp <= held'[u][r] + TokenLife
  BY DEF Backed
<1>1. /\ t.exp \in Nat /\ r \in Roles /\ TokenLife \in Nat
      /\ held[u][r] \in Nat /\ held'[u][r] \in Nat
      /\ t.exp <= held[u][r] + TokenLife /\ held[u][r] <= held'[u][r]
  BY Constants DEF TypeInv, Token, Backed
<1> QED
  BY <1>1

\* what a valid token entitles to was held less than a token life ago
LEMMA LagIsBounded ==
  ASSUME TypeInv, NEW u \in Users, NEW t \in Token, Backed(u, t), Valid(t),
         NEW kind \in Kinds, kind # "login", Can(t.roles, kind)
  PROVE  Lag(u, kind) < TokenLife
<1>1. TokenLife \in Nat /\ TokenLife > 0 /\ now \in Nat /\ t.exp \in Nat /\ now < t.exp
  BY Constants DEF TypeInv, Token, Valid
<1>2. \A r \in t.roles : r \in Roles /\ held[u][r] \in Nat /\ t.exp <= held[u][r] + TokenLife
  BY DEF TypeInv, Token, Backed, Valid
<1>3. CASE kind = "note"
  BY <1>1, <1>3, WhatLagIs
<1>4. CASE kind = "patch_user"
  <2>1. "it_admin" \in t.roles
    BY <1>2, <1>4 DEF Can, Needs, Matrix, Roles
  <2> QED
    BY <1>1, <1>2, <1>4, <2>1, WhatLagIs
<1>5. CASE kind = "create_run"
  <2>1. "analyst" \in t.roles
    BY <1>2, <1>5 DEF Can, Needs, Matrix, Roles
  <2> QED
    BY <1>1, <1>2, <1>5, <2>1, WhatLagIs
<1> QED
  BY <1>3, <1>4, <1>5 DEF Kinds

\* calls that move leave the stage "admitted", or are new and carry the caller's token
LEMMA CallsKeepRights ==
  ASSUME TypeInv, RightsInv, UNCHANGED <<now, users, token, held>>,
         \A d \in Calls : \/ call'[d] = call[d]
                          \/ call'[d].stage # "admitted" /\ call'[d].lag < TokenLife
  PROVE  RightsInv'
<1>1. \A u \in Users : Backed(u, token[u])'
  BY DEF RightsInv, Backed
<1>2. ASSUME NEW d \in Calls
      PROVE  /\ call'[d].stage = "admitted" => Backed(call[d].by, call[d].token)'
             /\ call'[d].lag < TokenLife
  <2>1. CASE call'[d] = call[d]
    <3>1. /\ call[d].stage = "admitted" => Backed(call[d].by, call[d].token)
          /\ call[d].lag < TokenLife
      BY DEF RightsInv
    <3> QED
      BY <2>1, <3>1 DEF Backed
  <2>2. CASE call'[d].stage # "admitted" /\ call'[d].lag < TokenLife
    BY <2>2
  <2> QED
    BY <2>1, <2>2
<1> QED
  BY <1>1, <1>2 DEF RightsInv

\* the rights of an authorised call are not older than a token life
LEMMA AuthorisedLag ==
  ASSUME TypeInv, RightsInv, NEW c \in Calls, Authorised(c)
  PROVE  Lag(call[c].by, call[c].kind) < TokenLife
<1>1. /\ call[c].stage = "admitted" /\ call[c].kind # "login" /\ call[c].kind \in Kinds
      /\ call[c].by \in Users /\ Valid(call[c].token) /\ Can(call[c].token.roles, call[c].kind)
  BY DEF Authorised, TypeInv, CallRecord
<1>2. call[c].token \in Token
  BY <1>1 DEF TypeInv, CallRecord, Valid
<1>3. Backed(call[c].by, call[c].token)
  BY <1>1 DEF RightsInv
<1> QED
  BY <1>1, <1>2, <1>3, LagIsBounded

LEMMA ServeKeepsRights ==
  ASSUME TypeInv, RightsInv, NEW c \in Calls, Serve(c)
  PROVE  RightsInv'
<1>1. /\ Authorised(c) /\ call[c].stage = "admitted" /\ Served(c)
      /\ UNCHANGED <<now, users, token, held>>
  BY DEF Serve, Authorised
<1>2. /\ \A d \in Calls \ {c} : call'[d] = call[d]
      /\ call'[c].stage # "admitted" /\ call'[c].lag = Lag(call[c].by, call[c].kind)
  BY <1>1, ServedCall
<1> QED
  BY <1>1, <1>2, AuthorisedLag, CallsKeepRights

LEMMA RefuseKeepsRights ==
  ASSUME TypeInv, RightsInv, NEW c \in Calls, call[c].stage = "admitted", Refuse(c)
  PROVE  RightsInv'
<1>1. /\ \A d \in Calls \ {c} : call'[d] = call[d]
      /\ call'[c].stage # "admitted" /\ call'[c].lag = call[c].lag
      /\ UNCHANGED <<now, users, token, held>>
  BY RefusedCall DEF Refuse
<1>2. call[c].lag < TokenLife
  BY DEF RightsInv
<1> QED
  BY <1>1, <1>2, CallsKeepRights

\* only an active user signs in, with the roles of that moment
LEMMA LoginKeepsRights ==
  ASSUME TypeInv, RightsInv, NEW c \in Calls, Login(c)
  PROVE  RightsInv'
<1> DEFINE u == call[c].by
<1>1. call[c].stage = "admitted" /\ call[c].kind = "login" /\ u \in Users
  BY DEF Login, TypeInv
<1>2. CASE ~MaySignIn(u)
  BY <1>1, <1>2, RefuseKeepsRights DEF Login
<1>3. CASE MaySignIn(u)
  <2>1. /\ Served(c) /\ token' = [token EXCEPT ![u] = NewToken(u)]
        /\ UNCHANGED <<now, users, held>>
    BY <1>3 DEF Login
  <2>2. /\ \A d \in Calls \ {c} : call'[d] = call[d]
        /\ call'[c].stage # "admitted" /\ call'[c].lag = Lag(u, "login")
    BY <1>1, <2>1, ServedCall
  <2>3. Lag(u, "login") = 0 /\ 0 < TokenLife
    BY WhatLagIs, Constants DEF Kinds
  <2>4. ASSUME NEW r \in users[u].roles
        PROVE  now + TokenLife <= held[u][r] + TokenLife
    <3>1. held[u][r] = now
      BY <1>1, <1>3 DEF RightsInv, MaySignIn
    <3> QED
      BY <3>1, Constants DEF TypeInv
  <2>5. Backed(u, NewToken(u))
    BY <1>1, <2>4, NewTokenType DEF Backed
  <2>6. \A v \in Users : Backed(v, token'[v])
    BY <2>1, <2>5 DEF RightsInv, TypeInv
  <2>7. \A v, t : Backed(v, t)' <=> Backed(v, t)
    BY <2>1 DEF Backed
  <2>8. \A v \in Users : Backed(v, token[v])'
    BY <2>6, <2>7
  <2>9. ASSUME NEW d \in Calls
        PROVE  /\ call'[d].stage = "admitted" => Backed(call[d].by, call[d].token)'
               /\ call'[d].lag < TokenLife
    <3>1. CASE d = c
      BY <2>2, <2>3, <3>1
    <3>2. CASE d # c
      <4>1. call'[d] = call[d]
        BY <2>2, <3>2
      <4> QED
        BY <2>7, <4>1 DEF RightsInv
    <3> QED
      BY <3>1, <3>2
  <2> QED
    BY <2>1, <2>8, <2>9 DEF RightsInv
<1> QED
  BY <1>2, <1>3

\* a change of the users, or time, only moves forward what was held
LEMMA HeldMovesOn ==
  ASSUME TypeInv, RightsInv, UNCHANGED token,
         now' \in Nat, held' \in [Users -> [Roles -> Nat]],
         \A u \in Users, r \in Roles : held[u][r] <= held'[u][r] /\ held'[u][r] <= now',
         \A u \in Users : users'[u].active => \A r \in users'[u].roles : held'[u][r] = now',
         \A d \in Calls : \/ call'[d] = call[d]
                          \/ call'[d].stage # "admitted" /\ call'[d].lag < TokenLife
  PROVE  RightsInv'
<1>1. \A u \in Users, t \in Token \cup {NoToken} : Backed(u, t) => Backed(u, t)'
  BY StaysBacked
<1>2. \A u \in Users : Backed(u, token[u])'
  <2> SUFFICES ASSUME NEW u \in Users PROVE Backed(u, token[u])'
    OBVIOUS
  <2>1. token'[u] = token[u] /\ token[u] \in Token /\ Backed(u, token[u])
    BY DEF TypeInv, RightsInv
  <2> QED
    BY <1>1, <2>1
<1>3. ASSUME NEW d \in Calls
      PROVE  /\ call'[d].stage = "admitted" => Backed(call[d].by, call[d].token)'
             /\ call'[d].lag < TokenLife
  <2>1. CASE call'[d] = call[d]
    <3>1. /\ call[d].stage = "admitted" => Backed(call[d].by, call[d].token)
          /\ call[d].lag < TokenLife
      BY DEF RightsInv
    <3>2. /\ call[d].stage # "none" => call[d].by \in Users
          /\ call[d].token \in Token \cup {NoToken}
      BY DEF TypeInv, CallRecord
    <3> QED
      BY <1>1, <2>1, <3>1, <3>2
  <2>2. CASE call'[d].stage # "admitted" /\ call'[d].lag < TokenLife
    BY <2>2
  <2> QED
    BY <2>1, <2>2
<1> QED
  BY <1>2, <1>3 DEF RightsInv

LEMMA PatchUserKeepsRights ==
  ASSUME TypeInv, RightsInv, NEW c \in Calls, PatchUser(c)
  PROVE  RightsInv'
<1>1. /\ Authorised(c) /\ call[c].stage = "admitted" /\ Served(c)
      /\ UNCHANGED <<now, token>>
  BY DEF PatchUser, Authorised
<1>2. \A d \in Calls : \/ call'[d] = call[d]
                       \/ call'[d].stage # "admitted" /\ call'[d].lag < TokenLife
  BY <1>1, ServedCall, AuthorisedLag
<1>3. /\ users' \in [Users -> User] /\ held' \in [Users -> [Roles -> Nat]]
      /\ \A u \in Users, r \in Roles :
           /\ held'[u][r] \in {held[u][r], now}
           /\ users'[u].active /\ r \in users'[u].roles =>
                held'[u][r] = now \/ users'[u] = users[u]
  BY PatchedUsers
<1>4. now \in Nat /\ now' = now
  BY <1>1 DEF TypeInv
<1>5. \A u \in Users, r \in Roles : held[u][r] <= held'[u][r] /\ held'[u][r] <= now'
  <2> SUFFICES ASSUME NEW u \in Users, NEW r \in Roles
               PROVE  held[u][r] <= held'[u][r] /\ held'[u][r] <= now'
    OBVIOUS
  <2>1. held[u][r] \in Nat /\ held[u][r] <= now /\ held'[u][r] \in {held[u][r], now}
    BY <1>3 DEF RightsInv, TypeInv
  <2> QED
    BY <1>4, <2>1
<1>6. ASSUME NEW u \in Users, users'[u].active, NEW r \in users'[u].roles
      PROVE  held'[u][r] = now'
  <2>1. r \in Roles
    BY <1>3 DEF User
  <2>2. held'[u][r] = now \/ users'[u] = users[u]
    BY <1>3, <1>6, <2>1
  <2>3. users'[u] = users[u] => held[u][r] = now
    BY <1>6 DEF RightsInv
  <2>4. held'[u][r] \in {held[u][r], now}
    BY <1>3, <2>1
  <2> QED
    BY <1>4, <2>2, <2>3, <2>4
<1> QED
  BY <1>1, <1>2, <1>3, <1>4, <1>5, <1>6, HeldMovesOn

LEMMA TickKeepsRights ==
  ASSUME TypeInv, RightsInv, Tick
  PROVE  RightsInv'
<1>1. /\ now' = now + 1 /\ UNCHANGED <<users, token, call>>
      /\ held' \in [Users -> [Roles -> Nat]]
      /\ \A u \in Users, r \in Roles :
           held'[u][r] = IF users[u].active /\ r \in users[u].roles THEN now'
                                                                  ELSE held[u][r]
  BY TickedClock
<1>2. now \in Nat /\ now' \in Nat
  BY <1>1 DEF TypeInv
<1>3. \A u \in Users, r \in Roles : held[u][r] \in Nat /\ held[u][r] <= now
  BY DEF TypeInv, RightsInv
<1>4. \A u \in Users, r \in Roles : held[u][r] <= held'[u][r] /\ held'[u][r] <= now'
  BY <1>1, <1>2, <1>3
<1>5. ASSUME NEW u \in Users, users'[u].active, NEW r \in users'[u].roles
      PROVE  held'[u][r] = now'
  <2>1. r \in Roles
    BY <1>1 DEF TypeInv, User
  <2> QED
    BY <1>1, <1>5, <2>1
<1> QED
  BY <1>1, <1>2, <1>4, <1>5, HeldMovesOn

LEMMA ArriveKeepsRights ==
  ASSUME TypeInv, RightsInv, NEW c \in Calls, NEW u \in Users, NEW kind \in Kinds,
         Arrive(c, u, kind)
  PROVE  RightsInv'
<1>1. UNCHANGED <<now, users, token, held>>
  BY DEF Arrive
<1>2. /\ \A d \in Calls \ {c} : call'[d] = call[d]
      /\ call'[c].by = u /\ call'[c].token = token[u] /\ call'[c].lag = 0
  BY ArrivedCall
<1>3. \A v, t : Backed(v, t)' <=> Backed(v, t)
  BY <1>1 DEF Backed
<1>4. ASSUME NEW d \in Calls
      PROVE  /\ call'[d].stage = "admitted" => Backed(call[d].by, call[d].token)'
             /\ call'[d].lag < TokenLife
  <2>1. CASE d = c
    <3>1. Backed(u, token[u]) /\ 0 < TokenLife
      BY Constants DEF RightsInv
    <3> QED
      BY <1>2, <1>3, <2>1, <3>1
  <2>2. CASE d # c
    <3>1. call'[d] = call[d]
      BY <1>2, <2>2
    <3> QED
      BY <1>3, <3>1 DEF RightsInv
  <2> QED
    BY <2>1, <2>2
<1>5. \A v \in Users : Backed(v, token[v])'
  BY <1>1, <1>3 DEF RightsInv
<1> QED
  BY <1>1, <1>4, <1>5 DEF RightsInv

LEMMA RightsNext == TypeInv /\ RightsInv /\ [Next]_vars => RightsInv'
<1> SUFFICES ASSUME TypeInv, RightsInv, [Next]_vars PROVE RightsInv'
  OBVIOUS
<1>1. ASSUME NEW c \in Calls, NEW u \in Users, NEW kind \in DOMAIN Needs, Arrive(c, u, kind)
      PROVE  RightsInv'
  BY <1>1, ArriveKeepsRights, Constants
<1>2. ASSUME NEW c \in Calls, Login(c) PROVE RightsInv'
  BY <1>2, LoginKeepsRights
<1>3. ASSUME NEW c \in Calls, PatchUser(c) PROVE RightsInv'
  BY <1>3, PatchUserKeepsRights
<1>4. ASSUME NEW c \in Calls, Serve(c) PROVE RightsInv'
  BY <1>4, ServeKeepsRights
<1>5. ASSUME NEW c \in Calls, Forbid(c) PROVE RightsInv'
  BY <1>5, RefuseKeepsRights DEF Forbid
<1>6. \A d \in Calls : call[d].lag < TokenLife
  BY DEF RightsInv
<1>7. ASSUME NEW c \in Calls, Emit(c)
      PROVE  RightsInv'
  <2>1. UNCHANGED <<now, users, token, held>>
    BY <1>7 DEF Emit
  <2>2. /\ \A d \in Calls \ {c} : call'[d] = call[d]
        /\ call'[c].stage # "admitted" /\ call'[c].lag = call[c].lag
    BY <1>7, EmittedCall
  <2> QED
    BY <1>6, <2>1, <2>2, CallsKeepRights
<1>8. ASSUME NEW c \in Calls, ReadLast(c)
      PROVE  RightsInv'
  <2>1. UNCHANGED <<now, users, token, held>>
    BY <1>8 DEF ReadLast
  <2>2. /\ \A d \in Calls \ {c} : call'[d] = call[d]
        /\ call'[c].stage # "admitted" /\ call'[c].lag = call[c].lag
    BY <1>8, ReadingCall
  <2> QED
    BY <1>6, <2>1, <2>2, CallsKeepRights
<1>9. ASSUME NEW c \in Calls, AppendEvent(c)
      PROVE  RightsInv'
  <2>1. UNCHANGED <<now, users, token, held>>
    BY <1>9 DEF AppendEvent
  <2>2. /\ \A d \in Calls \ {c} : call'[d] = call[d]
        /\ call'[c].stage # "admitted" /\ call'[c].lag = call[c].lag
    BY <1>9, RecordedCall
  <2> QED
    BY <1>6, <2>1, <2>2, CallsKeepRights
<1>10. CASE AuditCrash
  <2>1. UNCHANGED <<now, users, token, held>>
    BY <1>10 DEF AuditCrash
  <2>2. \A d \in Calls : /\ call'[d].lag = call[d].lag
                         /\ call'[d] = call[d] \/ call'[d].stage # "admitted"
    BY <1>10, CrashedCalls
  <2> QED
    BY <1>6, <2>1, <2>2, CallsKeepRights
<1>11. CASE Tick
  BY <1>11, TickKeepsRights
<1>12. CASE UNCHANGED vars
  <2>1. UNCHANGED <<now, users, token, held>> /\ call' = call
    BY <1>12 DEF vars
  <2> QED
    BY <2>1, CallsKeepRights
<1> QED
  BY <1>1, <1>2, <1>3, <1>4, <1>5, <1>7, <1>8, <1>9, <1>10, <1>11, <1>12 DEF Next

-----------------------------------------------------------------------------
(* The trail *)

LEMMA TrailInit == Init => TrailInv
<1> SUFFICES ASSUME Init PROVE TrailInv
  OBVIOUS
<1>1. DOMAIN trail = {}
  BY DEF Init
<1>2. \A c \in Calls : call[c].stage # "writing"
  BY DEF Init, NoCall
<1> QED
  BY <1>1, <1>2 DEF TrailInv, TrailIsSound, Intact

\* no row is written, and what the rows rest on stays
LEMMA TrailStays ==
  ASSUME TypeInv, TrailInv, UNCHANGED trail,
         \A d \in Calls :
           /\ call[d].stage = "recorded" => call'[d].stage = "recorded" /\ call'[d].by = call[d].by
           /\ call'[d].stage = "writing" => lock' = d /\ call'[d].prev = LastHash
  PROVE  TrailInv'
<1>1. LastHash' = LastHash /\ Intact'
  BY DEF LastHash, TrailInv, TrailIsSound, Intact
<1>2. \A i \in DOMAIN trail : trail[i].core.call \in Calls
  <2> SUFFICES ASSUME NEW i \in DOMAIN trail PROVE trail[i].core.call \in Calls
    OBVIOUS
  <2>1. i \in 1..Len(trail)
    BY LenProperties DEF TypeInv
  <2>2. trail[i] \in Row
    BY <2>1, ElementOfSeq DEF TypeInv
  <2> QED
    BY <2>2 DEF Row, Core
<1>3. \A i \in DOMAIN trail :
        LET core == trail[i].core
        IN /\ call'[core.call].stage = "recorded"
           /\ core.actor = call'[core.call].by
           /\ \A j \in DOMAIN trail : trail[j].core.call = core.call => j = i
  BY <1>2 DEF TrailInv, TrailIsSound
<1> QED
  BY <1>1, <1>3 DEF TrailInv, TrailIsSound

LEMMA ReadLastKeepsTrail ==
  ASSUME TypeInv, TrailInv, NEW c \in Calls, ReadLast(c)
  PROVE  TrailInv'
<1>1. lock = Nobody /\ lock' = c /\ UNCHANGED trail
  BY DEF ReadLast, MayWrite
<1>2. /\ SameRequests /\ \A d \in Calls \ {c} : call'[d] = call[d]
      /\ call[c].stage = "waiting" /\ call'[c].prev = LastHash
  BY ReadingCall
<1>3. \A d \in Calls : call[d].stage # "writing"
  BY <1>1, Constants DEF TrailInv
<1>4. \A d \in Calls :
        /\ call[d].stage = "recorded" => call'[d].stage = "recorded" /\ call'[d].by = call[d].by
        /\ call'[d].stage = "writing" => lock' = d /\ call'[d].prev = LastHash
  BY <1>1, <1>2, <1>3 DEF SameRequests
<1> QED
  BY <1>1, <1>4, TrailStays

LEMMA AppendEventKeepsTrail ==
  ASSUME TypeInv, TrailInv, NEW c \in Calls, AppendEvent(c)
  PROVE  TrailInv'
<1> DEFINE core == [call |-> c, actor |-> call[c].by]
           row  == [core |-> core, prev |-> call[c].prev, hash |-> Append(call[c].prev, core)]
           n    == Len(trail)
<1>1. trail' = Append(trail, row) /\ row \in Row
  BY WrittenRow
<1>2. /\ SameRequests /\ \A d \in Calls \ {c} : call'[d] = call[d]
      /\ call[c].stage = "writing" /\ call'[c].stage = "recorded"
  BY RecordedCall
<1>3. lock = c /\ call[c].prev = LastHash
  BY <1>2 DEF TrailInv
<1>4. row.core = core /\ row.prev = LastHash /\ row.hash = Append(LastHash, core)
  BY <1>3
<1> HIDE DEF row, core
<1>5. /\ n \in Nat /\ DOMAIN trail = 1..n /\ DOMAIN trail' = 1..(n + 1)
      /\ \A i \in 1..n : trail'[i] = trail[i]
      /\ trail'[n + 1] = row
  BY <1>1, LenProperties DEF TypeInv
<1>6. LastHash = IF n = 0 THEN <<>> ELSE trail[n].hash
  <2>1. trail = <<>> <=> n = 0
    BY EmptySeq DEF TypeInv
  <2> QED
    BY <2>1 DEF LastHash, Last
<1>7. Intact'
  <2> SUFFICES ASSUME NEW i \in 1..(n + 1)
               PROVE  LET prev == IF i = 1 THEN <<>> ELSE trail'[i - 1].hash
                      IN trail'[i].prev = prev /\ trail'[i].hash = Append(prev, trail'[i].core)
    BY <1>5 DEF Intact
  <2>1. CASE i \in 1..n
    <3>1. /\ trail'[i] = trail[i]
          /\ i # 1 => i - 1 \in 1..n /\ trail'[i - 1] = trail[i - 1]
      BY <1>5, <2>1
    <3>2. LET prev == IF i = 1 THEN <<>> ELSE trail[i - 1].hash
          IN trail[i].prev = prev /\ trail[i].hash = Append(prev, trail[i].core)
      BY <1>5, <2>1 DEF TrailInv, TrailIsSound, Intact
    <3> QED
      BY <3>1, <3>2
  <2>2. CASE i = n + 1
    <3>1. LastHash = IF i = 1 THEN <<>> ELSE trail'[i - 1].hash
      BY <1>5, <1>6, <2>2
    <3> QED
      BY <1>4, <1>5, <2>2, <3>1
  <2> QED
    BY <1>5, <2>1, <2>2
<1>8. /\ core.call = c /\ core.actor = call[c].by
      /\ \A i \in 1..n : /\ trail[i].core.call # c
                         /\ trail[i].core.call \in Calls
                         /\ call[trail[i].core.call].stage = "recorded"
                         /\ trail[i].core.actor = call[trail[i].core.call].by
                         /\ \A j \in 1..n : trail[j].core.call = trail[i].core.call => j = i
  <2>1. ASSUME NEW i \in 1..n PROVE trail[i].core.call \in Calls
    <3>1. trail[i] \in Row
      BY ElementOfSeq DEF TypeInv
    <3> QED
      BY <3>1 DEF Row, Core
  <2>2. \A i \in 1..n : /\ call[trail[i].core.call].stage = "recorded"
                        /\ trail[i].core.actor = call[trail[i].core.call].by
                        /\ \A j \in 1..n : trail[j].core.call = trail[i].core.call => j = i
    BY <1>5 DEF TrailInv, TrailIsSound
  <2>3. \A i \in 1..n : trail[i].core.call # c
    BY <1>2, <2>2
  <2> QED
    BY <2>1, <2>2, <2>3 DEF core
<1>9. ASSUME NEW i \in 1..(n + 1)
      PROVE  LET k == trail'[i].core
             IN /\ call'[k.call].stage = "recorded"
                /\ k.actor = call'[k.call].by
                /\ \A j \in 1..(n + 1) : trail'[j].core.call = k.call => j = i
  <2>1. CASE i \in 1..n
    <3>1. trail'[i] = trail[i]
      BY <1>5, <2>1
    <3>2. call'[trail[i].core.call] = call[trail[i].core.call]
      BY <1>2, <1>8, <2>1
    <3>3. ASSUME NEW j \in 1..(n + 1), trail'[j].core.call = trail[i].core.call
          PROVE  j = i
      <4>1. CASE j \in 1..n
        BY <1>5, <1>8, <2>1, <3>3, <4>1
      <4>2. CASE j = n + 1
        BY <1>4, <1>5, <1>8, <2>1, <3>3, <4>2
      <4> QED
        BY <1>5, <4>1, <4>2
    <3> QED
      BY <1>8, <2>1, <3>1, <3>2, <3>3
  <2>2. CASE i = n + 1
    <3>1. trail'[i].core = core
      BY <1>4, <1>5, <2>2
    <3>2. call'[c].stage = "recorded" /\ call'[c].by = call[c].by
      BY <1>2 DEF SameRequests
    <3>3. \A j \in 1..(n + 1) : trail'[j].core.call = c => j = i
      BY <1>5, <1>8, <2>2
    <3> QED
      BY <1>8, <3>1, <3>2, <3>3
  <2> QED
    BY <1>5, <2>1, <2>2
<1>10. \A d \in Calls : call'[d].stage # "writing"
  BY <1>2, <1>3 DEF TrailInv
<1> QED
  BY <1>5, <1>7, <1>9, <1>10 DEF TrailInv, TrailIsSound

LEMMA TrailNext == TypeInv /\ TrailInv /\ [Next]_vars => TrailInv'
<1> SUFFICES ASSUME TypeInv, TrailInv, [Next]_vars PROVE TrailInv'
  OBVIOUS
<1>1. ASSUME NEW c \in Calls, UNCHANGED <<lock, trail>>,
             \A d \in Calls \ {c} : call'[d] = call[d],
             call[c].stage # "recorded", call'[c].stage # "writing"
      PROVE  TrailInv'
  <2>1. \A d \in Calls : call[d].stage = "writing" => lock = d /\ call[d].prev = LastHash
    BY DEF TrailInv
  <2> QED
    BY <1>1, <2>1, TrailStays
<1>2. ASSUME NEW c \in Calls, NEW u \in Users, NEW kind \in DOMAIN Needs, Arrive(c, u, kind)
      PROVE  TrailInv'
  <2>1. UNCHANGED <<lock, trail>>
    BY <1>2 DEF Arrive
  <2>2. /\ \A d \in Calls \ {c} : call'[d] = call[d]
        /\ call[c].stage = "none" /\ call'[c].stage = "admitted"
    BY <1>2, ArrivedCall, Constants
  <2> QED
    BY <1>1, <2>1, <2>2
<1>3. ASSUME NEW c \in Calls, Login(c) \/ PatchUser(c) \/ Serve(c) \/ Forbid(c)
      PROVE  TrailInv'
  <2>1. call[c].stage = "admitted" /\ (Served(c) \/ Refuse(c)) /\ UNCHANGED <<lock, trail>>
    BY <1>3 DEF Login, PatchUser, Serve, Forbid, Authorised, Refuse
  <2>2. /\ \A d \in Calls \ {c} : call'[d] = call[d]
        /\ call'[c].stage # "writing"
    <3>1. CASE Served(c)
      BY <2>1, <3>1, ServedCall
    <3>2. CASE Refuse(c)
      BY <2>1, <3>2, RefusedCall
    <3> QED
      BY <2>1, <3>1, <3>2
  <2> QED
    BY <1>1, <2>1, <2>2
<1>4. ASSUME NEW c \in Calls, Emit(c)
      PROVE  TrailInv'
  <2>1. UNCHANGED <<lock, trail>>
    BY <1>4 DEF Emit
  <2>2. /\ \A d \in Calls \ {c} : call'[d] = call[d]
        /\ call[c].stage = "served" /\ call'[c].stage # "writing"
    BY <1>4, EmittedCall
  <2> QED
    BY <1>1, <2>1, <2>2
<1>5. ASSUME NEW c \in Calls, ReadLast(c) PROVE TrailInv'
  BY <1>5, ReadLastKeepsTrail
<1>6. ASSUME NEW c \in Calls, AppendEvent(c) PROVE TrailInv'
  BY <1>6, AppendEventKeepsTrail
<1>7. CASE AuditCrash
  <2>1. UNCHANGED trail
    BY <1>7 DEF AuditCrash
  <2>2. \A d \in Calls : /\ call'[d].stage # "writing"
                         /\ call[d].stage = "recorded" => call'[d] = call[d]
    BY <1>7, CrashedCalls
  <2> QED
    BY <2>1, <2>2, TrailStays
<1>8. CASE Tick \/ UNCHANGED vars
  <2>1. UNCHANGED <<lock, trail>> /\ call' = call
    BY <1>8 DEF Tick, vars
  <2>2. \A d \in Calls : call[d].stage = "writing" => lock = d /\ call[d].prev = LastHash
    BY DEF TrailInv
  <2> QED
    BY <2>1, <2>2, TrailStays
<1> QED
  BY <1>2, <1>3, <1>4, <1>5, <1>6, <1>7, <1>8 DEF Next

-----------------------------------------------------------------------------
\* The gateway lets no more than the limit in for one principal in any window, wherever it
\* starts (_throttle), and nothing is done in a user's name a token life or more after the
\* user was last active with the role for it, whoever changed the users in the meantime
\* (login, decode_token, require); for any number of users and calls.
THEOREM AdmissionStaysBounded == Spec => []AdmissionIsBounded
<1>1. TypeInv /\ RateInv /\ RightsInv => AdmissionIsBounded
  <2> SUFFICES ASSUME RateInv, RightsInv PROVE AdmissionIsBounded
    OBVIOUS
  <2>1. 0..MaxTime \subseteq Nat
    BY Constants
  <2> QED
    BY <2>1 DEF RateInv, RightsInv, AdmissionIsBounded
<1> QED
  BY <1>1, InitTypes, TypesNext, RateInit, RateNext, RightsInit, RightsNext, PTL DEF Spec

\* The chain verifies at every moment, also while a row is being written or after the
\* service died on one; an event is recorded once, for a call that was served, in the name
\* of the user who made it (ingest, verify_chain).
THEOREM TrailStaysSound == Spec => []TrailIsSound
<1>1. TrailInv => TrailIsSound
  BY DEF TrailInv
<1> QED
  BY <1>1, InitTypes, TypesNext, TrailInit, TrailNext, PTL DEF Spec
=============================================================================
