------------------------------- MODULE Access -------------------------------
(***************************************************************************)
(* Who is let in: the dependencies every request passes (api/deps.py,      *)
(* api/oidc_auth.py), the routes that change what they look at (users,     *)
(* keys, kill switch, engagements) and the route whose job needs an        *)
(* engagement.                                                             *)
(*                                                                         *)
(* A request is one Read Committed transaction, committed after its        *)
(* response.  A SELECT sees what is committed at that moment and what its  *)
(* own transaction has changed; an UPDATE changes the columns it names,    *)
(* and waits for a row another transaction has changed; an INSERT waits    *)
(* for one of the same key and then fails.  Objects loaded once are not    *)
(* read again.                                                             *)
(***************************************************************************)
EXTENDS Integers, FiniteSets, SequencesExt

CONSTANTS Requests,       \* requests; the key a request mints is named after it
          Users,          \* email addresses
          Keys,           \* API keys that exist from the start
          Engagements,
          Targets,        \* targets of engagements and of lookups
          Subdomains,     \* pairs of a target and a subdomain of it
          Plans,          \* the requests that are made, and what is stored before them
          SwitchDefault,  \* settings.kill_switch_enabled_default
          RoleMap,        \* settings.oidc_role_map: what a role the identity provider gives means
          TTL,            \* _JWKS_TTL_SECONDS
          MaxGen,         \* bound on the key sets of the identity provider
          MaxFailed,      \* bound on the failed requests before another call raises
          Absent          \* there is no such row

Role == {"admin", "analyst", "viewer"}
U(u) == <<"user", u>>
K(k) == <<"key", k>>
E(e) == <<"engagement", e>>
Switch == <<"setting", "kill_switch">>
Source == <<"source", "connector">>
Job(r) == <<"job", r>>
Row == {U(u) : u \in Users} \cup {K(k) : k \in Keys \cup Requests}
       \cup {E(e) : e \in Engagements} \cup {Job(r) : r \in Requests} \cup {Switch, Source}

UserRow == [role : Role, revoked : BOOLEAN]
KeyRow == [user : Users, revoked : BOOLEAN]

ASSUME NameAssumption == /\ Requests \cap Keys = {} /\ IsFiniteSet(Requests) /\ IsFiniteSet(Keys)
                         /\ Absent \notin Requests \cup UserRow \cup KeyRow
ASSUME ScopeAssumption == Subdomains \subseteq Targets \X Targets
ASSUME NumberAssumption == /\ TTL \in Nat \ {0} /\ MaxGen \in Nat \ {0} /\ MaxFailed \in Nat
                           /\ SwitchDefault \in BOOLEAN
ASSUME RoleAssumption == \A c \in DOMAIN RoleMap : RoleMap[c] \in Role
\* Every key is a user's; a token names a key, or a user, the claims of its role and the key set
\* that signed it; a route's parameters are names of the right kind.
ASSUME PlanAssumption ==
  \A p \in Plans :
    /\ p.mode \in {"api_key", "oidc"} /\ p.until \in Nat
    /\ DOMAIN p.rows = Row /\ DOMAIN p.of = Requests
    /\ \A u \in Users : p.rows[U(u)] \in UserRow \cup {Absent}
    /\ \A k \in Keys \cup Requests :
         p.rows[K(k)] # Absent => p.rows[K(k)] \in KeyRow /\ p.rows[U(p.rows[K(k)].user)] # Absent
    /\ \A r \in Requests :
         LET token == p.of[r].token
             op == p.of[r].op
         IN  /\ p.mode = "api_key" => token \in Keys \cup Requests
             /\ p.mode = "oidc" => /\ token.user \in Users /\ token.gen \in Nat \ {0}
                                   /\ token.claims \in Seq(STRING)
             /\ op.name \in {"user", "revoke_user"} => op.user \in Users
             /\ op.name = "user" => op.role \in Role
             /\ op.name \in {"engagement", "revoke_engagement"} => op.engagement \in Engagements

VARIABLES
  plan,       \* mode, rows before the requests, the requests, and the time they may take
  rows,       \* committed rows
  owner,      \* owner[row]: the transaction that has changed it
  phase,      \* phase[r]: where request r is
  then,       \* then[r]: where it goes once its statements are executed
  todo,       \* todo[r]: statements to execute
  mine,       \* mine[r]: the rows r has changed and not committed, as they are now
  me,         \* me[r]: the User object r has loaded
  clock,
  gen,        \* the key set the identity provider signs with
  retiredAt,  \* when it ceased to use each earlier one
  cache,      \* _jwks_cache: a key set and its time stamp
  jwks,       \* jwks[r]: the key set r goes by, and when r asked for one
  saw,        \* history: what was the case at some moment since r arrived
  expelled    \* history: the users and keys that were ever revoked

txVars == <<then, todo, mine, me>>
idpVars == <<gen, retiredAt, cache, jwks>>
vars == <<plan, rows, owner, phase, txVars, clock, idpVars, saw, expelled>>

Phase == {"new", "key", "user", "jwks", "fetching", "fetched", "token", "check", "switch",
          "body", "keys", "writing", "committing", "done", "refused", "failed"}
Ended == {"done", "refused", "failed"}

Token(r) == plan.of[r].token
Op(r) == plan.of[r].op

TypeOK ==
  /\ plan \in Plans
  /\ DOMAIN rows = Row
  /\ owner \in [Row -> Requests \cup {Absent}]
  /\ phase \in [Requests -> Phase]
  /\ then \in [Requests -> {"check", "keys", "committing"}]
  /\ \A r \in Requests : DOMAIN mine[r] \subseteq Row /\ \A s \in ToSet(todo[r]) : s.row \in Row
  \* A row is locked by the statement that changed it, until the transaction ends.
  /\ \A row \in Row, r \in Requests : owner[row] = r <=> row \in DOMAIN mine[r]
  /\ \A r \in Requests : phase[r] \in Ended => todo[r] = <<>> /\ DOMAIN mine[r] = {}
  /\ \A r \in Requests : me[r].role \in Role /\ me[r].revoked \in BOOLEAN
  /\ clock \in 0..plan.until
  /\ gen \in 1..MaxGen /\ retiredAt \in Seq(Nat) /\ Len(retiredAt) = gen - 1
  /\ cache.gen \in 0..gen /\ \A r \in Requests : jwks[r].gen \in 0..gen
  /\ expelled \subseteq Row

-----------------------------------------------------------------------------
(* Statements. *)

Insert(row, values) == [row |-> row, insert |-> TRUE, set |-> values]
Update(row, values) == [row |-> row, insert |-> FALSE, set |-> values]
Touch(row) == Update(row, <<>>)    \* only a time stamp

NewUser(u, role) == Insert(U(u), [role |-> role, revoked |-> FALSE])
NewKey(r, u) == Insert(K(r), [user |-> u, revoked |-> FALSE])

\* old, with new in its place where there is any.
With(old, new) ==
  [x \in DOMAIN old \cup DOMAIN new |-> IF x \in DOMAIN new THEN new[x] ELSE old[x]]

\* What r reads of a row.
Read(r, row) == IF row \in DOMAIN mine[r] THEN mine[r][row] ELSE rows[row]

\* The row of s, once r has executed it.
Executed(r, s) == IF s.insert THEN s.set ELSE With(Read(r, s.row), s.set)

\* Variant: the session is not closed.
KeptLocks(r) == owner

\* The rows r holds when its transaction has ended: none.
Released(r) == [row \in Row |-> IF owner[row] = r THEN Absent ELSE owner[row]]

\* The transaction r waits for; itself if it waits for none.
Blocker(r) == IF phase[r] = "writing" /\ owner[Head(todo[r]).row] # Absent
              THEN owner[Head(todo[r]).row] ELSE r
Deadlocked(r) ==
  /\ Blocker(r) # r
  /\ LET ahead[n \in Nat] == IF n = 0 THEN r ELSE Blocker(ahead[n - 1])
     IN  \E n \in 1..Cardinality(Requests) : ahead[n] = r

-----------------------------------------------------------------------------
(* What r must be let in by. *)

\* _resolve_role: the first role the token claims that is known here; none: a viewer.
ResolveRole(claims) ==
  LET known == {i \in DOMAIN claims : claims[i] \in DOMAIN RoleMap}
  IN  IF known = {} THEN "viewer" ELSE RoleMap[claims[Min(known)]]

Allowed(op) == CASE op.name \in {"user", "revoke_user", "switch", "engagement", "revoke_engagement"} -> {"admin"}
                 [] op.name = "run" -> {"admin", "analyst"}
                 [] OTHER -> Role

SwitchOn == IF rows[Switch] = Absent THEN SwitchDefault ELSE rows[Switch].on

TargetInScope(scope, target) == target = scope \/ <<scope, target>> \in Subdomains

IsActive(e) == ~e.revoked /\ e.opens <= clock /\ clock <= e.closes

\* enforce_engagement_scope
InEngagement(op) ==
  /\ op.engagement # Absent
  /\ rows[E(op.engagement)] # Absent
  /\ IsActive(rows[E(op.engagement)])
  /\ TargetInScope(rows[E(op.engagement)].target, op.target)

\* Variant: the check is made on every route.
AllFrozen(op) == TRUE

\* enforce_authenticated, on the object in memory.
Authenticated(user) == ~user.revoked

\* The routes behind get_current_user_active.
Frozen(op) == op.name = "query"

-----------------------------------------------------------------------------
(* The moments of r's life, for the properties. *)

Expelled(row) == row \in expelled

\* A key set that was asked for less than TTL ago is cached.
FreshJwks == cache.gen # 0 /\ clock - cache.stamp < TTL

\* The first of the claims that means anything here stands for one of the roles.
Entitled(claims, roles) ==
  LET known == {i \in DOMAIN claims : claims[i] \in DOMAIN RoleMap}
  IN  IF known = {} THEN "viewer" \in roles
      ELSE \E i \in known : (\A j \in known : i <= j) /\ RoleMap[claims[i]] \in roles

\* Nobody has revoked r's user or key, and the user has a role for the route.
Fit(r) ==
  IF plan.mode = "oidc"
  THEN ~Expelled(U(Token(r).user)) /\ Entitled(Token(r).claims, Allowed(Op(r)))
  ELSE LET key == rows[K(Token(r))]
       IN  /\ key # Absent /\ ~Expelled(K(Token(r))) /\ ~Expelled(U(key.user))
           /\ rows[U(key.user)].role \in Allowed(Op(r))

Circumstances(r) ==
  {IF Fit(r) THEN "fit" ELSE "unfit"}
  \cup (IF Op(r).name # "query" THEN {} ELSE {IF SwitchOn THEN "frozen" ELSE "calm"})
  \cup (IF Op(r).name # "run" THEN {} ELSE {IF InEngagement(Op(r)) THEN "sanctioned" ELSE "unsanctioned"})
  \cup (IF plan.mode # "oidc" \/ FreshJwks THEN {} ELSE {"keyless"})

Watch == saw' = [r \in Requests |-> CASE phase'[r] \in {"new", "failed"} -> {}
                                     [] phase'[r] \in {"done", "refused"} -> saw[r]
                                     [] OTHER -> saw[r] \cup Circumstances(r)']

-----------------------------------------------------------------------------
Revoked(values) == "revoked" \in DOMAIN values /\ values.revoked

Nobody == [user |-> Absent, role |-> "viewer", revoked |-> FALSE]

Init ==
  /\ plan \in Plans
  /\ rows = plan.rows
  /\ owner = [row \in Row |-> Absent]
  /\ phase = [r \in Requests |-> "new"]
  /\ then = [r \in Requests |-> "check"]
  /\ todo = [r \in Requests |-> <<>>]
  /\ mine = [r \in Requests |-> <<>>]
  /\ me = [r \in Requests |-> Nobody]
  /\ clock = 0
  /\ gen = 1
  /\ retiredAt = <<>>
  /\ cache = [gen |-> 0, stamp |-> 0]
  /\ jwks = [r \in Requests |-> [gen |-> 0, at |-> 0]]
  /\ saw = [r \in Requests |-> {}]
  /\ expelled = {row \in Row : rows[row] # Absent /\ Revoked(rows[row])}

Goto(r, p) == phase' = [phase EXCEPT ![r] = p]

\* r executes the statements and goes on at p.
Execute(r, statements, p) ==
  /\ todo' = [todo EXCEPT ![r] = statements]
  /\ then' = [then EXCEPT ![r] = p]
  /\ Goto(r, IF statements = <<>> THEN p ELSE "writing")

\* The transaction is over; r ends as p.
End(r, p) ==
  /\ Goto(r, p)
  /\ owner' = Released(r)
  /\ todo' = [todo EXCEPT ![r] = <<>>]
  /\ mine' = [mine EXCEPT ![r] = <<>>]
  /\ me' = [me EXCEPT ![r] = Nobody]
  /\ UNCHANGED then

\* An exception leaves the handler: sync_session rolls back.
RollBack(r, p) == End(r, p) /\ UNCHANGED <<rows, idpVars, expelled>>

-----------------------------------------------------------------------------
(* get_current_user, API keys. *)

\* The client has its token: a new key is in the response, which precedes the commit.
Arrive(r) ==
  /\ phase[r] = "new"
  /\ IF plan.mode = "oidc" THEN Token(r).gen <= gen
     ELSE rows[K(Token(r))] # Absent \/ owner[K(Token(r))] # Absent
  /\ Goto(r, IF plan.mode = "oidc" THEN "jwks" ELSE "key")
  /\ UNCHANGED <<rows, owner, txVars, idpVars, expelled>>

\* The SELECT for a key that is not revoked.
FindKey(r) ==
  /\ phase[r] = "key"
  /\ IF rows[K(Token(r))] # Absent /\ ~rows[K(Token(r))].revoked
     THEN Goto(r, "user") /\ UNCHANGED <<rows, owner, txVars, idpVars, expelled>>
     ELSE RollBack(r, "refused")

\* The SELECT for its user, and last_used_at: the key's row is locked until the commit.
LoadUser(r) ==
  /\ phase[r] = "user"
  /\ LET u == rows[K(Token(r))].user
     IN  me' = [me EXCEPT ![r] = [user |-> u, role |-> rows[U(u)].role, revoked |-> rows[U(u)].revoked]]
  /\ Execute(r, <<Touch(K(Token(r)))>>, "check")
  /\ UNCHANGED <<rows, owner, mine, idpVars, expelled>>

-----------------------------------------------------------------------------
(* get_current_user, OIDC. *)

\* _get_jwks: now is read before the cache's entry is judged and before a new one is asked for.
AskJwks(r) ==
  /\ phase[r] = "jwks"
  /\ jwks' = [jwks EXCEPT ![r] = [gen |-> IF FreshJwks THEN cache.gen ELSE 0, at |-> clock]]
  /\ Goto(r, IF FreshJwks THEN "token" ELSE "fetching")
  /\ UNCHANGED <<rows, owner, txVars, gen, retiredAt, cache, expelled>>

IdpAnswers(r) ==
  /\ phase[r] = "fetching"
  /\ jwks' = [jwks EXCEPT ![r].gen = gen]
  /\ Goto(r, "fetched")
  /\ UNCHANGED <<rows, owner, txVars, gen, retiredAt, cache, expelled>>

\* The provider is not reached, or answers with an error: validate_token makes the client's
\* token an invalid one, a 401 like any other; an old key set in the cache is not resorted to.
IdpFails(r) ==
  /\ phase[r] = "fetching"
  /\ RollBack(r, "refused")

Stamp(r) == jwks[r].at
StoreJwks(r) ==
  /\ phase[r] = "fetched"
  /\ cache' = [gen |-> jwks[r].gen, stamp |-> Stamp(r)]
  /\ Goto(r, "token")
  /\ UNCHANGED <<rows, owner, txVars, gen, retiredAt, jwks, expelled>>

\* Variant: the whole row is written.
SyncUser(u, role) == Update(U(u), [role |-> role, revoked |-> FALSE])

\* Role synchronization writes the column that differs.
SyncRole(u, role) == Update(U(u), [role |-> role])

\* jwt.decode, then the SELECT for the user: created at the first login, its role kept in step.
Login(r) ==
  LET t == Token(r)
      user == rows[U(t.user)]
      role == ResolveRole(t.claims)
  IN  /\ phase[r] = "token"
      /\ \/ t.gen # jwks[r].gen /\ RollBack(r, "refused")
         \/ /\ t.gen = jwks[r].gen
            /\ me' = [me EXCEPT ![r] = [user |-> t.user, role |-> role,
                                        revoked |-> user # Absent /\ user.revoked]]
            /\ Execute(r, IF user = Absent THEN <<NewUser(t.user, role)>>
                          ELSE IF user.role # role THEN <<SyncRole(t.user, role)>> ELSE <<>>, "check")
            /\ UNCHANGED <<rows, owner, mine, idpVars, expelled>>

-----------------------------------------------------------------------------
(* The rest of the door. *)

Check(r) ==
  /\ phase[r] = "check"
  /\ IF Authenticated(me[r]) /\ me[r].role \in Allowed(Op(r))
     THEN /\ Goto(r, IF Frozen(Op(r)) THEN "switch" ELSE "body")
          /\ UNCHANGED <<rows, owner, txVars, idpVars, expelled>>
     ELSE RollBack(r, "refused")

CheckSwitch(r) ==
  /\ phase[r] = "switch"
  /\ IF SwitchOn THEN RollBack(r, "refused")
     ELSE Goto(r, "body") /\ UNCHANGED <<rows, owner, txVars, idpVars, expelled>>

-----------------------------------------------------------------------------
(* The routes. *)

\* create_user: the user if there is none, a key in any case.
CreateUser(op, r) ==
  IF Read(r, U(op.user)) = Absent THEN <<NewUser(op.user, op.role), NewKey(r, op.user)>>
  ELSE <<NewKey(r, op.user)>>

\* revoke_user: an object already loaded is not read again, and no change is no statement.
RevokeUser(op, r) ==
  IF \/ Read(r, U(op.user)) = Absent
     \/ Read(r, U(op.user)).revoked /\ me[r].user # op.user
  THEN <<>>
  ELSE <<Update(U(op.user), [revoked |-> TRUE])>>

\* set_enabled: the time stamp always changes, the value perhaps not.
SetSwitch(op) ==
  IF rows[Switch] = Absent THEN <<Insert(Switch, [on |-> op.on])>>
  ELSE IF rows[Switch].on = op.on THEN <<Touch(Switch)>> ELSE <<Update(Switch, [on |-> op.on])>>

CreateEngagement(op) ==
  <<Insert(E(op.engagement), [target |-> op.target, opens |-> op.opens, closes |-> op.closes,
                              revoked |-> FALSE])>>

\* register_source, then the job.
RunConnector(r) ==
  IF rows[Source] = Absent THEN <<Insert(Source, <<>>), Insert(Job(r), <<>>)>>
  ELSE <<Insert(Job(r), <<>>)>>

Statements(r) ==
  LET op == Op(r)
  IN  CASE op.name = "user" -> CreateUser(op, r)
        [] op.name = "revoke_user" -> RevokeUser(op, r)
        [] op.name = "switch" -> SetSwitch(op)
        [] op.name = "engagement" -> CreateEngagement(op)
        [] op.name = "revoke_engagement" -> <<Update(E(op.engagement), [revoked |-> TRUE])>>
        [] op.name = "run" -> RunConnector(r)
        [] OTHER -> <<>>

\* An empty window is answered with 400, an unknown engagement with 404.
Malformed(op) == \/ op.name = "engagement" /\ op.closes <= op.opens
                 \/ op.name = "revoke_engagement" /\ rows[E(op.engagement)] = Absent

Body(r) ==
  LET op == Op(r)
  IN  /\ phase[r] = "body"
      /\ IF Malformed(op) THEN RollBack(r, "failed")
         ELSE IF op.name = "run" /\ ~InEngagement(op) THEN RollBack(r, "refused")
         ELSE /\ Execute(r, Statements(r),
                         IF op.name = "revoke_user" /\ Read(r, U(op.user)) # Absent THEN "keys" ELSE "committing")
              /\ UNCHANGED <<rows, owner, mine, me, idpVars, expelled>>

\* revoke_user goes on: the SELECT for the user's keys comes after the UPDATE it flushes.
RevokeKeys(r) ==
  /\ phase[r] = "keys"
  /\ LET keys == {k \in Keys \cup Requests : /\ rows[K(k)] # Absent /\ rows[K(k)].user = Op(r).user
                                             /\ ~rows[K(k)].revoked}
     IN  \E order \in SetToSeqs(keys) :
           Execute(r, [i \in DOMAIN order |-> Update(K(order[i]), [revoked |-> TRUE])], "committing")
  /\ UNCHANGED <<rows, owner, mine, me, idpVars, expelled>>

-----------------------------------------------------------------------------
(* The transaction. *)

\* The next statement is executed, or fails on a row of the same key.
Write(r) ==
  LET s == Head(todo[r])
      rest == Tail(todo[r])
  IN  /\ phase[r] = "writing"
      /\ owner[s.row] \in {Absent, r}
      /\ \/ s.insert /\ Read(r, s.row) # Absent /\ RollBack(r, "failed")
         \/ /\ ~(s.insert /\ Read(r, s.row) # Absent)
            /\ mine' = [mine EXCEPT ![r] = With(@, [row \in {s.row} |-> Executed(r, s)])]
            /\ owner' = [owner EXCEPT ![s.row] = r]
            /\ todo' = [todo EXCEPT ![r] = rest]
            /\ Goto(r, IF rest = <<>> THEN then[r] ELSE "writing")
            /\ UNCHANGED <<rows, then, me, idpVars, expelled>>

Commit(r) ==
  /\ phase[r] = "committing"
  /\ rows' = With(rows, mine[r])
  /\ expelled' = expelled \cup {row \in DOMAIN mine[r] : Revoked(mine[r][row])}
  /\ End(r, "done")
  /\ UNCHANGED idpVars

\* Any call may raise what no handler makes a refusal of: an error of the database, an answer
\* of the identity provider that is no JSON.
Abort(r) ==
  /\ phase[r] \notin Ended \cup {"new"}
  /\ Cardinality({q \in Requests : phase[q] = "failed"}) < MaxFailed
  /\ RollBack(r, "failed")
  /\ UNCHANGED <<plan, clock>>
  /\ Watch

\* Postgres ends a deadlock by failing one of the transactions.
BreakDeadlock(r) == Deadlocked(r) /\ RollBack(r, "failed")

Step(r) ==
  /\ \/ Arrive(r) \/ FindKey(r) \/ LoadUser(r)
     \/ AskJwks(r) \/ IdpAnswers(r) \/ IdpFails(r) \/ StoreJwks(r) \/ Login(r)
     \/ Check(r) \/ CheckSwitch(r) \/ Body(r) \/ RevokeKeys(r)
     \/ Write(r) \/ Commit(r) \/ BreakDeadlock(r)
  /\ UNCHANGED <<plan, clock>>
  /\ Watch

Tick ==
  /\ clock < plan.until
  /\ clock' = clock + 1
  /\ UNCHANGED <<plan, rows, owner, phase, txVars, idpVars, expelled>>
  /\ Watch

\* The identity provider replaces its keys.
Rotate ==
  /\ plan.mode = "oidc" /\ gen < MaxGen
  /\ gen' = gen + 1
  /\ retiredAt' = Append(retiredAt, clock)
  /\ UNCHANGED <<plan, rows, owner, phase, txVars, clock, cache, jwks, expelled>>
  /\ Watch

Next == Tick \/ Rotate \/ \E r \in Requests : Step(r) \/ Abort(r)

Spec == Init /\ [][Next]_vars

\* A handler runs on; nothing need fail and no key need be replaced.
FairSpec == Spec /\ WF_vars(\E r \in Requests : Step(r))

-----------------------------------------------------------------------------
(* Properties. *)

\* Requests past every check.
Admitted(r) == phase[r] \in {"body", "keys", "committing", "done"}
               \/ (phase[r] = "writing" /\ then[r] # "check")

\* No request is admitted whose user or key was revoked before it came, whatever was minted,
\* synchronized or rolled back since: the check reads the user, not only the key.  A query
\* had a moment at which the kill switch was off, a job of a dual-use connector one at which
\* its engagement covered the target, and a token is never taken longer than
\* _JWKS_TTL_SECONDS after its key was retired.
OnlyTheFitAreServed ==
  \A r \in Requests : Admitted(r) =>
    /\ "fit" \in saw[r]
    /\ Op(r).name = "query" => "calm" \in saw[r]
    /\ Op(r).name = "run" /\ phase[r] \in {"writing", "committing", "done"} => "sanctioned" \in saw[r]
    /\ plan.mode = "oidc" /\ Token(r).gen < gen => jwks[r].at < retiredAt[Token(r).gen] + TTL

\* The key set r went by lacks its token's key: retired, or younger than the cached set.
KeyUnknown(r) ==
  /\ plan.mode = "oidc" /\ jwks[r].gen \notin {0, Token(r).gen}
  /\ Token(r).gen > jwks[r].gen => jwks[r].at < retiredAt[jwks[r].gen] + TTL

\* r got no key set, and there was a moment when the cache had none to go by.
NoKeySet(r) == plan.mode = "oidc" /\ jwks[r].gen = 0 /\ "keyless" \in saw[r]

\* Access is refused for a reason that held while the request was served: to the revoked, to
\* the wrong role, to queries under the kill switch, to jobs outside an engagement, to unknown
\* keys, and to anybody whose token cannot be judged, because the identity provider fails and
\* no key set younger than _JWKS_TTL_SECONDS is cached: with one, its failure refuses nobody.
\* The kill switch refuses no admin route, so the switch can be turned off again.
OnlyTheUnfitAreRefused ==
  \A r \in Requests : phase[r] = "refused" =>
    \/ "unfit" \in saw[r]
    \/ Op(r).name = "query" /\ "frozen" \in saw[r]
    \/ Op(r).name = "run" /\ "unsanctioned" \in saw[r]
    \/ KeyUnknown(r)
    \/ NoKeySet(r)

\* Every request that has come ends, although requests with one key wait for each other and
\* two administrators may wait for each other's keys.
RequestsEnd == \A r \in Requests : phase[r] # "new" ~> phase[r] \in Ended
=============================================================================
