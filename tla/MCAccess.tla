------------------------------ MODULE MCAccess ------------------------------
(* Requests that meet each other, for the instances of Access. *)
EXTENDS Access

CONSTANTS r1, r2, r3, root, ann, bob, eve, kr, ka, kb, e1, e2, site, sub, other

\* site covers its subdomain.
Covered == {<<site, sub>>}

Account(role) == [role |-> role, revoked |-> FALSE]
KeyOf(u) == [user |-> u, revoked |-> FALSE]
Granted == [target |-> site, opens |-> 0, closes |-> 1, revoked |-> FALSE]

\* Two administrators, an analyst who may be revoked already, an engagement, the switch as given.
Stored(banned, switch) ==
  [row \in Row |->
    CASE row \in {U(root), U(ann)} -> Account("admin")
      [] row = U(bob) -> [Account("analyst") EXCEPT !.revoked = banned]
      [] row = K(kr) -> KeyOf(root) [] row = K(ka) -> KeyOf(ann)
      [] row = K(kb) -> [KeyOf(bob) EXCEPT !.revoked = banned]
      [] row = E(e1) -> Granted
      [] row = Switch -> switch
      [] OTHER -> Absent]

Ask(token, op) == [token |-> token, op |-> op]
Query == [name |-> "query"]
List == [name |-> "list"]
Mint(u) == [name |-> "user", user |-> u, role |-> "viewer"]
Revoke(u) == [name |-> "revoke_user", user |-> u]
Set(on) == [name |-> "switch", on |-> on]
Run(e, target) == [name |-> "run", engagement |-> e, target |-> target]
Engage(e, opens, closes) == [name |-> "engagement", engagement |-> e, target |-> other,
                             opens |-> opens, closes |-> closes]
Withdraw(e) == [name |-> "revoke_engagement", engagement |-> e]

Plan(mode, until, stored, a, b, c) ==
  [mode |-> mode, until |-> until, rows |-> stored,
   of |-> [r \in Requests |-> CASE r = r1 -> a [] r = r2 -> b [] OTHER -> c]]
Jwt(u, claims, g) == [user |-> u, claims |-> claims, gen |-> g]

\* What the identity provider calls an editor is an analyst here; other roles mean nothing.
Meaning == [c \in {"admin", "editor", "viewer"} |-> IF c = "editor" THEN "analyst" ELSE c]

Asked == {
  \* A key is minted for a user who is being revoked, or was, and used.
  Plan("api_key", 0, Stored(FALSE, Absent), Ask(kr, Revoke(bob)), Ask(ka, Mint(bob)), Ask(r2, Query)),
  Plan("api_key", 0, Stored(TRUE, Absent), Ask(kr, Mint(bob)), Ask(r1, List), Ask(kb, Query)),
  \* An account is created twice, and its key used on an admin route.
  Plan("api_key", 0, Stored(FALSE, Absent), Ask(kr, Mint(eve)), Ask(ka, Mint(eve)), Ask(r1, Set(TRUE))),
  \* The switch is turned on and off under a query, without and with a row.
  Plan("api_key", 0, Stored(FALSE, Absent), Ask(kr, Set(TRUE)), Ask(ka, Set(FALSE)), Ask(kb, Query)),
  Plan("api_key", 0, Stored(FALSE, [on |-> TRUE]), Ask(kr, Set(TRUE)), Ask(ka, Set(FALSE)), Ask(kb, Query)),
  \* Two administrators revoke each other while one key is used twice.
  Plan("api_key", 0, Stored(FALSE, Absent), Ask(kr, Revoke(ann)), Ask(ka, Revoke(root)), Ask(ka, List)),
  \* An engagement is withdrawn, expires or does not cover the target; two first jobs.
  Plan("api_key", 2, Stored(FALSE, Absent), Ask(kr, Withdraw(e1)), Ask(kb, Run(e1, sub)), Ask(ka, Run(e1, site))),
  Plan("api_key", 1, Stored(FALSE, Absent), Ask(kr, Engage(e2, 0, 1)), Ask(kb, Run(e2, other)), Ask(ka, Run(e1, other))),
  Plan("api_key", 0, Stored(FALSE, Absent), Ask(kr, Engage(e2, 1, 1)), Ask(kb, Run(Absent, site)), Ask(ka, Withdraw(e2))),
  \* A login in another role while the user is revoked, and one after; two first logins, one of
  \* an administrator who takes the account away again.
  Plan("oidc", 0, Stored(FALSE, Absent), Ask(Jwt(root, <<"staff", "admin", "viewer">>, 1), Revoke(bob)),
       Ask(Jwt(bob, <<"viewer", "editor">>, 1), List), Ask(Jwt(bob, <<"staff">>, 1), Query)),
  Plan("oidc", 0, Stored(FALSE, Absent), Ask(Jwt(eve, <<>>, 1), List),
       Ask(Jwt(eve, <<"editor", "viewer">>, 1), Query), Ask(Jwt(eve, <<"admin">>, 1), Revoke(eve))),
  \* Tokens of two key sets while the provider changes from one to the other.
  Plan("oidc", 1, Stored(FALSE, Absent), Ask(Jwt(root, <<"admin">>, 1), List),
       Ask(Jwt(ann, <<"admin">>, 1), List), Ask(Jwt(bob, <<"editor">>, 2), List)) }
=============================================================================
