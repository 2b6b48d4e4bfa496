------------------------------ MODULE AccessProofs ------------------------------
(***************************************************************************)
(* Safety of Access for any users, keys, engagements and plans of          *)
(* requests.  Whoever is admitted was fit at some moment since it arrived: *)
(* every check reads something that was true when it was read, and no      *)
(* transaction makes an expelled user or key a good one again.  Whoever is *)
(* refused was unfit, or unwanted, for the same reason.                    *)
(***************************************************************************)
EXTENDS Access, FiniteSetTheorems, SequenceTheorems, WellFoundedInduction, TLAPS

AnyKey == Keys \cup Requests

\* The rows of users and keys.
Account == {U(u) : u \in Users} \cup {K(k) : k \in AnyKey}

IsSeq(f) == f \in Seq(ToSet(f))

-----------------------------------------------------------------------------
(* The invariant. *)

\* What is indexed by requests is so, and has the fields it should have.
ShapeInv ==
  /\ DOMAIN todo = Requests /\ DOMAIN mine = Requests /\ DOMAIN saw = Requests
  /\ me \in [Requests -> [user : Users \cup {Absent}, role : Role, revoked : BOOLEAN]]
  /\ jwks \in [Requests -> [gen : Nat, at : Nat]]
  /\ cache \in [gen : Nat, stamp : Nat]

\* Committed users and keys are well formed, keys have users, and the expelled are
\* those that are revoked: nobody is taken back.
RowInv ==
  /\ \A u \in Users : /\ rows[U(u)] \in UserRow \cup {Absent}
                      /\ Expelled(U(u)) <=> rows[U(u)] # Absent /\ rows[U(u)].revoked
  /\ \A k \in AnyKey : /\ rows[K(k)] # Absent => /\ rows[K(k)] \in KeyRow
                                                 /\ rows[U(rows[K(k)].user)] # Absent
                       /\ Expelled(K(k)) <=> rows[K(k)] # Absent /\ rows[K(k)].revoked

\* The row is there for r; or will be when r has executed its statements.
Known(r, row) == rows[row] # Absent \/ row \in DOMAIN mine[r]
Expected(r, row) == Known(r, row) \/ \E s \in ToSet(todo[r]) : s.row = row

\* A user of r's making: it revokes nobody's revocation, and no role changes but by a login.
UserInv(r) ==
  \A u \in Users : U(u) \in DOMAIN mine[r] =>
    /\ mine[r][U(u)] \in UserRow
    /\ rows[U(u)] # Absent =>
         /\ rows[U(u)].revoked => mine[r][U(u)].revoked
         /\ plan.mode = "api_key" => mine[r][U(u)].role = rows[U(u)].role

\* A key of r's making: it is somebody's, and stays so.
KeyInv(r) ==
  \A k \in AnyKey : K(k) \in DOMAIN mine[r] =>
    /\ mine[r][K(k)] \in KeyRow
    /\ Expected(r, U(mine[r][K(k)].user))
    /\ rows[K(k)] # Absent => /\ rows[K(k)].revoked => mine[r][K(k)].revoked
                              /\ mine[r][K(k)].user = rows[K(k)].user

\* A statement of r's makes no such user or key.
StatementInv(r, s) ==
  /\ s.row \in Row /\ s.insert \in BOOLEAN
  /\ ~s.insert /\ "revoked" \in DOMAIN s.set => s.set.revoked = TRUE
  /\ \A u \in Users : s.row = U(u) =>
       /\ s.insert => s.set \in UserRow
       /\ ~s.insert => /\ Known(r, s.row) /\ DOMAIN s.set \subseteq {"role", "revoked"}
                       /\ "role" \in DOMAIN s.set => s.set.role \in Role /\ plan.mode = "oidc"
  /\ \A k \in AnyKey : s.row = K(k) =>
       /\ s.insert => s.set \in KeyRow /\ Expected(r, U(s.set.user))
       /\ ~s.insert => Known(r, s.row) /\ DOMAIN s.set \subseteq {"revoked"}

TodoInv(r) ==
  /\ IsSeq(todo[r])
  /\ phase[r] = "writing" <=> todo[r] # <<>>
  /\ \A s \in ToSet(todo[r]) : StatementInv(r, s)

\* No key set is used for long after it was retired.
CacheInv ==
  cache.gen # 0 => /\ cache.stamp <= clock
                   /\ cache.gen < gen => cache.stamp <= retiredAt[cache.gen]

JwksInv(r) ==
  /\ jwks[r].at <= clock
  /\ jwks[r].gen # 0 /\ jwks[r].gen < gen => jwks[r].at < retiredAt[jwks[r].gen] + TTL
  /\ phase[r] \in {"fetched", "token"} => jwks[r].gen # 0
  /\ phase[r] = "fetching" => jwks[r].gen = 0
  /\ phase[r] = "fetched" /\ jwks[r].gen < gen => jwks[r].at <= retiredAt[jwks[r].gen]

\* r is in the middle of something.
Live(r) == phase[r] \notin Ended \cup {"new"}

\* r has its user, and is to be checked; r has passed the check of its user.
AtDoor(r) == phase[r] = "check" \/ (phase[r] = "writing" /\ then[r] = "check")
Passed(r) == phase[r] = "switch" \/ Admitted(r)

\* What r has been through bears witness that it was fit.
DoorInv(r) ==
  /\ Live(r) => Circumstances(r) \subseteq saw[r]
  /\ phase[r] \in {"key", "user"} => plan.mode = "api_key"
  /\ phase[r] \in {"jwks", "fetching", "fetched", "token"} => plan.mode = "oidc"
  /\ phase[r] = "fetching" => "keyless" \in saw[r]
  /\ phase[r] = "user" =>
       LET key == rows[K(Token(r))]
       IN  /\ key # Absent
           /\ \/ "fit" \in saw[r] \/ Expelled(U(key.user))
              \/ rows[U(key.user)].role \notin Allowed(Op(r))
  /\ AtDoor(r) => "fit" \in saw[r] \/ me[r].revoked \/ me[r].role \notin Allowed(Op(r))
  /\ Passed(r) => "fit" \in saw[r]
  /\ Admitted(r) /\ Op(r).name = "query" => "calm" \in saw[r]
  /\ Admitted(r) /\ Op(r).name = "run" /\ phase[r] # "body" => "sanctioned" \in saw[r]
  /\ plan.mode = "oidc" /\ (AtDoor(r) \/ Passed(r)) => Token(r).gen = jwks[r].gen

\* What speaks against r; of the keys, the set r went by was at its time not outdated.
Reason(r) ==
  \/ "unfit" \in saw[r]
  \/ Op(r).name = "query" /\ "frozen" \in saw[r]
  \/ Op(r).name = "run" /\ "unsanctioned" \in saw[r]
  \/ KeyUnknown(r)
  \/ NoKeySet(r)

\* What r has been through bears witness against it, where it is to be refused.
RefusalInv(r) ==
  /\ phase[r] # "new" /\ plan.mode = "oidc" => Token(r).gen <= gen
  /\ AtDoor(r) => "unfit" \in saw[r] \/ (~me[r].revoked /\ me[r].role \in Allowed(Op(r)))
  /\ phase[r] = "switch" => Op(r).name = "query"
  /\ phase[r] = "refused" => Reason(r)

RequestInv(r) ==
  UserInv(r) /\ KeyInv(r) /\ TodoInv(r) /\ JwksInv(r) /\ DoorInv(r) /\ RefusalInv(r)

IInv == TypeOK /\ ShapeInv /\ RowInv /\ CacheInv /\ \A r \in Requests : RequestInv(r)

-----------------------------------------------------------------------------
(* Facts about the operators the model is built from. *)

\* A row is one of its table, and of no other.
LEMMA RowNames ==
  /\ \A u \in Users : U(u) \in Row
  /\ \A k \in AnyKey : K(k) \in Row
  /\ \A e \in Engagements : E(e) \in Row
  /\ \A r \in Requests : Job(r) \in Row
  /\ Switch \in Row /\ Source \in Row
  /\ \A u, v : U(u) = U(v) => u = v
  /\ \A k, l : K(k) = K(l) => k = l
  /\ \A u, k : U(u) # K(k)
<1>1. \A u, v : U(u) = U(v) => u = v
  BY DEF U
<1>2. \A k, l : K(k) = K(l) => k = l
  BY DEF K
<1>3. \A u, k : U(u) # K(k)
  BY DEF U, K
<1>4. QED
  BY <1>1, <1>2, <1>3 DEF Row, AnyKey

\* Neither a route's statements nor a setting are about users or keys.
LEMMA OtherNames ==
  ASSUME NEW x
  PROVE  /\ \A e : E(e) # U(x) /\ E(e) # K(x)
         /\ \A r : Job(r) # U(x) /\ Job(r) # K(x)
         /\ Switch # U(x) /\ Switch # K(x)
         /\ Source # U(x) /\ Source # K(x)
  BY DEF E, U, K, Job, Switch, Source

\* Where new has something it says what there is.
LEMMA WithFacts ==
  ASSUME NEW old, NEW new
  PROVE  /\ DOMAIN With(old, new) = DOMAIN old \cup DOMAIN new
         /\ \A x \in DOMAIN new : With(old, new)[x] = new[x]
         /\ \A x \in DOMAIN old \ DOMAIN new : With(old, new)[x] = old[x]
  BY DEF With

\* An UPDATE of a user makes a user.
LEMMA UserWith ==
  ASSUME NEW v \in UserRow, NEW s, DOMAIN s \subseteq {"role", "revoked"},
         "revoked" \in DOMAIN s => s.revoked = TRUE,
         "role" \in DOMAIN s => s.role \in Role
  PROVE  /\ With(v, s) \in UserRow
         /\ v.revoked => With(v, s).revoked
         /\ "role" \notin DOMAIN s => With(v, s).role = v.role
<1> DEFINE w == With(v, s)
<1>1. DOMAIN v = {"role", "revoked"} /\ v.role \in Role /\ v.revoked \in BOOLEAN
  BY DEF UserRow
<1>2. w = [x \in {"role", "revoked"} |-> w[x]]
  BY <1>1 DEF With
<1>3. w.role = IF "role" \in DOMAIN s THEN s.role ELSE v.role
  BY <1>1 DEF With
<1>4. w.revoked = IF "revoked" \in DOMAIN s THEN s.revoked ELSE v.revoked
  BY <1>1 DEF With
<1> HIDE DEF w
<1>5. w.role \in Role /\ w.revoked \in BOOLEAN
  BY <1>1, <1>3, <1>4
<1>6. w \in UserRow
  BY <1>2, <1>5 DEF UserRow
<1>7. QED
  BY <1>3, <1>4, <1>6 DEF w

\* An UPDATE of a key makes a key of the same user.
LEMMA KeyWith ==
  ASSUME NEW v \in KeyRow, NEW s, DOMAIN s \subseteq {"revoked"},
         "revoked" \in DOMAIN s => s.revoked = TRUE
  PROVE  /\ With(v, s) \in KeyRow
         /\ v.revoked => With(v, s).revoked
         /\ With(v, s).user = v.user
<1> DEFINE w == With(v, s)
<1>1. DOMAIN v = {"user", "revoked"} /\ v.user \in Users /\ v.revoked \in BOOLEAN
  BY DEF KeyRow
<1>2. w = [x \in {"user", "revoked"} |-> w[x]]
  BY <1>1 DEF With
<1>3. w.user = v.user
  BY <1>1 DEF With
<1>4. w.revoked = IF "revoked" \in DOMAIN s THEN s.revoked ELSE v.revoked
  BY <1>1 DEF With
<1> HIDE DEF w
<1>5. w.user \in Users /\ w.revoked \in BOOLEAN
  BY <1>1, <1>3, <1>4
<1>6. w \in KeyRow
  BY <1>2, <1>5 DEF KeyRow
<1>7. QED
  BY <1>3, <1>4, <1>6 DEF w

\* A non-empty set of naturals has a least element.
LEMMA LeastNatural ==
  ASSUME NEW S \in SUBSET Nat, S # {}
  PROVE  Min(S) \in S /\ \A y \in S : Min(S) <= y
<1> DEFINE R == OpToRel(<, Nat)
<1>1. \A x, y \in Nat : x < y => <<x, y>> \in R
  BY DEF OpToRel
<1>2. IsWellFoundedOn(R, Nat)
  BY NatLessThanWellFounded
<1> HIDE DEF R
<1>3. PICK x \in S : \A y \in S : ~(<<y, x>> \in R)
  BY <1>2, WFMin
<1>4. \A y \in S : x \in Nat /\ y \in Nat /\ ~(y < x)
  BY <1>1, <1>3
<1>5. \A y \in S : x <= y
  BY <1>4
<1>6. QED
  BY <1>5 DEF Min

\* The role a login gives is a role, and the one the claims entitle to.
LEMMA ResolvedRole ==
  ASSUME NEW claims \in Seq(STRING)
  PROVE  /\ ResolveRole(claims) \in Role
         /\ \A roles : ResolveRole(claims) \in roles <=> Entitled(claims, roles)
<1> DEFINE known == {i \in DOMAIN claims : claims[i] \in DOMAIN RoleMap}
<1>1. CASE known = {}
  BY <1>1 DEF ResolveRole, Entitled, Role
<1>2. CASE known # {}
  <2>1. known \in SUBSET Nat
    OBVIOUS
  <2>2. Min(known) \in known /\ \A y \in known : Min(known) <= y
    BY <1>2, <2>1, LeastNatural
  <2>3. ResolveRole(claims) = RoleMap[claims[Min(known)]]
    BY <1>2 DEF ResolveRole
  <2>4. ResolveRole(claims) \in Role
    BY <2>2, <2>3, RoleAssumption
  <2>5. ASSUME NEW roles, ResolveRole(claims) \in roles
        PROVE  Entitled(claims, roles)
    BY <1>2, <2>2, <2>3, <2>5 DEF Entitled
  <2>6. ASSUME NEW roles, Entitled(claims, roles)
        PROVE  ResolveRole(claims) \in roles
    <3>1. PICK i \in known : (\A j \in known : i <= j) /\ RoleMap[claims[i]] \in roles
      BY <1>2, <2>6 DEF Entitled
    <3>2. i <= Min(known) /\ Min(known) <= i /\ i \in Nat /\ Min(known) \in Nat
      BY <2>1, <2>2, <3>1
    <3>3. i = Min(known)
      BY <3>2
    <3>4. QED
      BY <2>3, <3>1, <3>3
  <2>7. QED
    BY <2>4, <2>5, <2>6
<1>3. QED
  BY <1>1, <1>2

\* Sequences of statements.
LEMMA NoStatement == IsSeq(<<>>) /\ ToSet(<<>>) = {}
<1>1. DOMAIN <<>> = {}
  OBVIOUS
<1>2. QED
  BY <1>1 DEF IsSeq, ToSet

\* One statement.
LEMMA OneStatement ==
  ASSUME NEW a
  PROVE  IsSeq(<<a>>) /\ ToSet(<<a>>) = {a} /\ <<a>> # <<>>
<1>1. ToSet(<<a>>) = {a}
  BY DEF ToSet
<1>2. QED
  BY <1>1 DEF IsSeq

\* Two statements.
LEMMA TwoStatements ==
  ASSUME NEW a, NEW b
  PROVE  IsSeq(<<a, b>>) /\ ToSet(<<a, b>>) = {a, b} /\ <<a, b>> # <<>>
<1>1. ToSet(<<a, b>>) = {a, b}
  BY DEF ToSet
<1>2. QED
  BY <1>1 DEF IsSeq

\* A function on 1..n is a sequence of what it yields.
LEMMA Listed ==
  ASSUME NEW f, NEW n \in Nat, f = [i \in 1..n |-> f[i]]
  PROVE  IsSeq(f)
<1> DEFINE S == ToSet(f)
<1>1. \A i \in 1..n : f[i] \in S
  BY DEF ToSet
<1> HIDE DEF S
<1>2. f \in Seq(S)
  BY <1>1
<1>3. QED
  BY <1>2 DEF IsSeq, S

\* What is left of the statements when the first is executed.
LEMMA NextStatement ==
  ASSUME NEW f, IsSeq(f), f # <<>>
  PROVE  IsSeq(Tail(f)) /\ ToSet(f) = {Head(f)} \cup ToSet(Tail(f))
<1> DEFINE S == ToSet(f)
           g == Tail(f)
           n == Len(f) - 1
<1>1. f \in Seq(S)
  BY DEF IsSeq
<1>2. ToSet(f) = S
  OBVIOUS
<1> HIDE DEF S
<1>3. g \in Seq(S) /\ Len(g) = n /\ Head(f) = f[1] /\ \A i \in 1..n : g[i] = f[i + 1]
  BY <1>1, HeadTailProperties
<1>4. Len(f) \in Nat \ {0} /\ DOMAIN f = 1..Len(f) /\ DOMAIN g = 1..n
  BY <1>1, <1>3, EmptySeq, LenProperties
<1> HIDE DEF g
<1>5. n \in Nat /\ g = [i \in 1..n |-> g[i]]
  BY <1>3, <1>4
<1> HIDE DEF n
<1>6. IsSeq(g)
  BY <1>5, Listed
<1>7. 1..Len(f) = {1} \cup {i + 1 : i \in 1..n}
  <2>1. ASSUME NEW i \in 1..Len(f), i # 1
        PROVE  \E k \in 1..n : i = k + 1
    <3>1. i - 1 \in 1..n /\ i = (i - 1) + 1
      BY <1>4, <2>1 DEF n
    <3>2. QED
      BY <3>1
  <2>2. \A i \in 1..n : i + 1 \in 1..Len(f)
    BY <1>4 DEF n
  <2>3. 1 \in 1..Len(f)
    BY <1>4
  <2>4. QED
    BY <2>1, <2>2, <2>3
<1>8. ToSet(f) = {f[1]} \cup {f[i + 1] : i \in 1..n}
  BY <1>4, <1>7 DEF ToSet
<1>9. ToSet(g) = {f[i + 1] : i \in 1..n}
  BY <1>3, <1>4 DEF ToSet
<1>10. QED
  BY <1>3, <1>6, <1>8, <1>9 DEF g

-----------------------------------------------------------------------------
(* Facts about plans and moments. *)

\* What r asks for, and with what.
LEMMA PlanFacts ==
  ASSUME IInv, NEW r \in Requests
  PROVE  /\ plan.mode \in {"api_key", "oidc"}
         /\ plan.mode = "api_key" => Token(r) \in AnyKey
         /\ plan.mode = "oidc" => /\ Token(r).user \in Users /\ Token(r).gen \in Nat \ {0}
                                  /\ Token(r).claims \in Seq(STRING)
         /\ Op(r).name \in {"user", "revoke_user"} => Op(r).user \in Users
         /\ Op(r).name = "user" => Op(r).role \in Role
         /\ Op(r).name \in {"engagement", "revoke_engagement"} => Op(r).engagement \in Engagements
<1>1. plan \in Plans
  BY DEF IInv, TypeOK
<1>2. QED
  BY <1>1, PlanAssumption DEF Token, Op, AnyKey

\* The times of retirement.
LEMMA RetiredType ==
  ASSUME IInv
  PROVE  /\ gen \in Nat /\ clock \in Nat
         /\ DOMAIN retiredAt = 1..(gen - 1) /\ \A g \in 1..(gen - 1) : retiredAt[g] \in Nat
<1>1. gen \in Nat /\ retiredAt \in Seq(Nat) /\ Len(retiredAt) = gen - 1
  BY NumberAssumption DEF IInv, TypeOK
<1>2. clock \in Nat
  BY PlanAssumption DEF IInv, TypeOK
<1>3. QED
  BY <1>1, <1>2

\* What is the case after a step has been seen, and what was seen stays so.
LEMMA WatchFacts ==
  ASSUME IInv, Watch
  PROVE  /\ DOMAIN saw' = Requests
         /\ \A r \in Requests : Live(r)' => Circumstances(r)' \subseteq saw'[r]
         /\ \A r \in Requests : Live(r)' \/ phase'[r] \in {"done", "refused"} => saw[r] \subseteq saw'[r]
  BY DEF Watch, Live, Ended

\* A step of r leaves the other requests alone, and changes what is committed only as
\* commits do.
Frame(r) ==
  /\ Watch /\ UNCHANGED <<plan, clock, gen, retiredAt>>
  /\ \A q \in Requests \ {r} :
       /\ phase'[q] = phase[q] /\ then'[q] = then[q] /\ todo'[q] = todo[q]
       /\ mine'[q] = mine[q] /\ me'[q] = me[q] /\ jwks'[q] = jwks[q]
  /\ expelled \subseteq expelled'
  /\ \A row \in Row : row \notin DOMAIN mine[r] => rows'[row] = rows[row]
  /\ \A row \in Account : rows[row] # Absent => rows'[row] # Absent
  /\ \A k \in AnyKey : rows[K(k)] # Absent => rows'[K(k)].user = rows[K(k)].user
  /\ \A u \in Users : rows[U(u)] # Absent /\ plan.mode = "api_key" =>
                        rows'[U(u)].role = rows[U(u)].role

\* Nobody holds what another has changed.
LEMMA Apart ==
  ASSUME IInv, NEW r \in Requests, NEW q \in Requests, q # r
  PROVE  DOMAIN mine[q] \subseteq Row /\ \A row \in DOMAIN mine[q] : row \notin DOMAIN mine[r]
<1>1. \A p \in Requests : DOMAIN mine[p] \subseteq Row
  BY DEF IInv, TypeOK
<1>2. \A row \in Row : /\ owner[row] = q <=> row \in DOMAIN mine[q]
                       /\ owner[row] = r <=> row \in DOMAIN mine[r]
  BY DEF IInv, TypeOK
<1>3. QED
  BY <1>1, <1>2

\* What is expected by q stays expected.
LEMMA ExpectedStays ==
  ASSUME NEW r \in Requests, NEW q \in Requests, q # r, Frame(r), NEW row \in Account
  PROVE  /\ Known(q, row) => Known(q, row)'
         /\ Expected(q, row) => Expected(q, row)'
  BY DEF Frame, Known, Expected

\* A step of r leaves the transactions of the others in order.
LEMMA OtherTransactions ==
  ASSUME IInv, NEW r \in Requests, NEW q \in Requests, q # r, Frame(r)
  PROVE  UserInv(q)' /\ KeyInv(q)' /\ TodoInv(q)'
<1>1. UserInv(q) /\ KeyInv(q) /\ TodoInv(q)
  BY DEF IInv, RequestInv
<1>2. mine'[q] = mine[q] /\ todo'[q] = todo[q] /\ phase'[q] = phase[q] /\ plan' = plan
  BY DEF Frame
<1>3. \A row \in DOMAIN mine[q] : rows'[row] = rows[row]
  BY Apart DEF Frame
<1>4. \A row \in Account : /\ Known(q, row) => Known(q, row)'
                           /\ Expected(q, row) => Expected(q, row)'
  BY ExpectedStays
<1>5. UserInv(q)'
  BY <1>1, <1>2, <1>3 DEF UserInv
<1>6. KeyInv(q)'
  <2>1. \A k \in AnyKey : K(k) \in DOMAIN mine[q] => U(mine[q][K(k)].user) \in Account
    BY <1>1 DEF KeyInv, KeyRow, Account
  <2>2. QED
    BY <1>1, <1>2, <1>3, <1>4, <2>1 DEF KeyInv
<1>7. TodoInv(q)'
  <2>1. ASSUME NEW s \in ToSet(todo[q])
        PROVE  StatementInv(q, s)'
    <3>1. StatementInv(q, s) /\ s.row \in Row
      BY <1>1, <2>1 DEF TodoInv, StatementInv
    <3>2. \A k \in AnyKey : s.row = K(k) /\ s.insert => U(s.set.user) \in Account
      BY <3>1 DEF StatementInv, KeyRow, Account
    <3>3. QED
      BY <1>2, <1>4, <3>1, <3>2 DEF StatementInv, Account
  <2>2. QED
    BY <1>1, <1>2, <2>1 DEF TodoInv
<1>8. QED
  BY <1>5, <1>6, <1>7

\* A step of r leaves the others where they are, with what bears witness for them.
LEMMA OtherDoors ==
  ASSUME IInv, NEW r \in Requests, NEW q \in Requests, q # r, Frame(r)
  PROVE  JwksInv(q)' /\ DoorInv(q)'
<1>1. JwksInv(q) /\ DoorInv(q)
  BY DEF IInv, RequestInv
<1>2. /\ phase'[q] = phase[q] /\ then'[q] = then[q] /\ me'[q] = me[q] /\ jwks'[q] = jwks[q]
      /\ plan' = plan /\ gen' = gen /\ clock' = clock /\ retiredAt' = retiredAt
      /\ Token(q)' = Token(q) /\ Op(q)' = Op(q)
  BY DEF Frame, Token, Op
<1>3. JwksInv(q)'
  BY <1>1, <1>2 DEF JwksInv
<1>4. /\ Live(q)' => Circumstances(q)' \subseteq saw'[q]
      /\ Live(q) \/ phase[q] = "done" => saw[q] \subseteq saw'[q]
      /\ Live(q)' <=> Live(q)
  BY <1>2, WatchFacts DEF Frame, Live
<1>5. /\ AtDoor(q)' <=> AtDoor(q)
      /\ Passed(q)' <=> Passed(q)
      /\ Admitted(q)' <=> Admitted(q)
  BY <1>2 DEF AtDoor, Passed, Admitted
<1>6. phase[q] \in {"user", "fetching"} \/ AtDoor(q) \/ Passed(q) => saw[q] \subseteq saw'[q]
  BY <1>4 DEF AtDoor, Passed, Admitted, Live, Ended
<1>7. ASSUME phase[q] = "user"
      PROVE  LET key == rows[K(Token(q))]
             IN  /\ key # Absent /\ rows'[K(Token(q))] # Absent
                 /\ rows'[K(Token(q))].user = key.user
                 /\ rows'[U(key.user)].role = rows[U(key.user)].role
                 /\ Expelled(U(key.user)) => U(key.user) \in expelled'
  <2>1. plan.mode = "api_key" /\ rows[K(Token(q))] # Absent
    BY <1>1, <1>7 DEF DoorInv
  <2>2. Token(q) \in AnyKey
    BY <2>1, PlanFacts
  <2>3. /\ rows[K(Token(q))].user \in Users /\ rows[U(rows[K(Token(q))].user)] # Absent
    BY <2>1, <2>2 DEF IInv, RowInv, KeyRow
  <2>4. K(Token(q)) \in Account
    BY <2>2 DEF Account
  <2>5. PICK u \in Users : u = rows[K(Token(q))].user
    BY <2>3
  <2>6. rows'[K(Token(q))] # Absent /\ rows'[K(Token(q))].user = u
    BY <2>1, <2>2, <2>4, <2>5 DEF Frame
  <2>7. rows'[U(u)].role = rows[U(u)].role /\ (Expelled(U(u)) => U(u) \in expelled')
    BY <2>1, <2>3, <2>5 DEF Frame, Expelled
  <2>8. QED
    BY <2>1, <2>5, <2>6, <2>7
<1>8. DoorInv(q)'
  <2>1. Live(q)' => Circumstances(q)' \subseteq saw'[q]
    BY <1>4
  <2>2. /\ phase'[q] \in {"key", "user"} => plan'.mode = "api_key"
        /\ phase'[q] \in {"jwks", "fetching", "fetched", "token"} => plan'.mode = "oidc"
        /\ phase'[q] = "fetching" => "keyless" \in saw'[q]
    BY <1>1, <1>2, <1>6 DEF DoorInv
  <2>3. phase'[q] = "user" =>
          LET key == rows'[K(Token(q))]
          IN  /\ key # Absent
              /\ \/ "fit" \in saw'[q] \/ U(key.user) \in expelled'
                 \/ rows'[U(key.user)].role \notin Allowed(Op(q))
    BY <1>1, <1>2, <1>6, <1>7 DEF DoorInv, Expelled
  <2>4. AtDoor(q)' => "fit" \in saw'[q] \/ me'[q].revoked \/ me'[q].role \notin Allowed(Op(q))
    BY <1>1, <1>2, <1>5, <1>6 DEF DoorInv
  <2>5. Passed(q)' => "fit" \in saw'[q]
    BY <1>1, <1>5, <1>6 DEF DoorInv
  <2>6. /\ Admitted(q)' /\ Op(q).name = "query" => "calm" \in saw'[q]
        /\ Admitted(q)' /\ Op(q).name = "run" /\ phase'[q] # "body" => "sanctioned" \in saw'[q]
    <3>1. Admitted(q) => Passed(q)
      BY DEF Passed
    <3>2. QED
      BY <1>1, <1>2, <1>5, <1>6, <3>1 DEF DoorInv
  <2>7. plan'.mode = "oidc" /\ (AtDoor(q)' \/ Passed(q)') => Token(q).gen = jwks'[q].gen
    BY <1>1, <1>2, <1>5 DEF DoorInv
  <2>8. QED
    BY <1>2, <2>1, <2>2, <2>3, <2>4, <2>5, <2>6, <2>7 DEF DoorInv, Expelled
<1>9. QED
  BY <1>3, <1>8

\* Nor does it take away what speaks against another.
LEMMA OtherRefusals ==
  ASSUME IInv, NEW r \in Requests, NEW q \in Requests, q # r, Frame(r)
  PROVE  RefusalInv(q)'
<1>1. RefusalInv(q)
  BY DEF IInv, RequestInv
<1>2. /\ phase'[q] = phase[q] /\ then'[q] = then[q] /\ me'[q] = me[q] /\ jwks'[q] = jwks[q]
      /\ plan' = plan /\ gen' = gen /\ retiredAt' = retiredAt
      /\ Token(q)' = Token(q) /\ Op(q)' = Op(q) /\ (AtDoor(q)' <=> AtDoor(q))
  BY DEF Frame, Token, Op, AtDoor
<1>3. AtDoor(q) \/ phase[q] = "refused" => saw[q] \subseteq saw'[q]
  BY <1>2, WatchFacts DEF Frame, AtDoor, Live, Ended
<1>4. KeyUnknown(q)' <=> KeyUnknown(q)
  BY <1>2 DEF KeyUnknown
<1>5. phase[q] = "refused" => Reason(q)'
  BY <1>1, <1>2, <1>3, <1>4 DEF RefusalInv, Reason, NoKeySet
<1>6. QED
  BY <1>1, <1>2, <1>3, <1>5 DEF RefusalInv

\* A step of r to where it is neither at the door nor refused.
LEMMA OwnRefusal ==
  ASSUME IInv, NEW r \in Requests, phase[r] # "new", phase'[r] \notin {"switch", "refused"},
         ~AtDoor(r)', UNCHANGED <<plan, gen>>
  PROVE  RefusalInv(r)'
<1>1. RefusalInv(r) /\ Token(r)' = Token(r)
  BY DEF IInv, RequestInv, Token
<1>2. QED
  BY <1>1 DEF RefusalInv

\* So a step of r preserves the invariant if it does so where r is concerned.
LEMMA Assemble ==
  ASSUME IInv, NEW r \in Requests, Frame(r), TypeOK', ShapeInv', RowInv', CacheInv',
         RequestInv(r)'
  PROVE  IInv'
<1>1. ASSUME NEW q \in Requests
      PROVE  RequestInv(q)'
  BY OtherTransactions, OtherDoors, OtherRefusals DEF RequestInv
<1>2. QED
  BY <1>1 DEF IInv

-----------------------------------------------------------------------------
(* Steps that write no row. *)

\* The clock, the key set in use and the times of retirement bound what is remembered of them.
KeySetsOK ==
  /\ jwks' \in [Requests -> [gen : Nat, at : Nat]] /\ cache' \in [gen : Nat, stamp : Nat]
  /\ cache'.gen \in 0..gen /\ \A q \in Requests : jwks'[q].gen \in 0..gen

\* Most steps leave them alone.
LEMMA KeySetsSame ==
  ASSUME IInv, UNCHANGED idpVars
  PROVE  KeySetsOK
  BY DEF IInv, TypeOK, ShapeInv, KeySetsOK, idpVars

\* A step that moves r on and changes no row.
LEMMA QuietInv ==
  ASSUME IInv, NEW r \in Requests, NEW p \in Phase \ (Ended \cup {"new", "writing"}),
         phase[r] # "writing", Goto(r, p), Watch,
         UNCHANGED <<plan, rows, owner, txVars, clock, gen, retiredAt, expelled>>,
         KeySetsOK, \A q \in Requests \ {r} : jwks'[q] = jwks[q],
         CacheInv', JwksInv(r)', DoorInv(r)', RefusalInv(r)'
  PROVE  IInv'
<1>1. /\ phase \in [Requests -> Phase] /\ phase' = [phase EXCEPT ![r] = p]
      /\ then' = then /\ todo' = todo /\ mine' = mine /\ me' = me
  BY DEF IInv, TypeOK, Goto, txVars
<1>2. phase'[r] = p /\ \A q \in Requests \ {r} : phase'[q] = phase[q]
  BY <1>1
<1>3. Frame(r)
  BY <1>1, <1>2 DEF Frame
<1>4. TypeOK'
  BY <1>1, <1>2 DEF IInv, TypeOK, KeySetsOK, Ended
<1>5. ShapeInv' /\ RowInv'
  BY <1>1, WatchFacts DEF IInv, ShapeInv, RowInv, KeySetsOK, Expelled
<1>6. UserInv(r)' /\ KeyInv(r)' /\ TodoInv(r)'
  <2>1. UserInv(r) /\ KeyInv(r) /\ TodoInv(r)
    BY DEF IInv, RequestInv
  <2>2. UserInv(r)'
    BY <1>1, <2>1 DEF UserInv
  <2>3. \A row : (Known(r, row) <=> Known(r, row)') /\ (Expected(r, row) <=> Expected(r, row)')
    BY <1>1 DEF Known, Expected
  <2>4. KeyInv(r)'
    BY <1>1, <2>1, <2>3 DEF KeyInv
  <2>5. \A s \in ToSet(todo[r]) : StatementInv(r, s)'
    BY <1>1, <2>1, <2>3 DEF TodoInv, StatementInv
  <2>6. QED
    BY <1>1, <1>2, <2>1, <2>2, <2>4, <2>5 DEF TodoInv
<1>7. QED
  BY <1>3, <1>4, <1>5, <1>6, Assemble DEF RequestInv

\* A transaction that is given up leaves nothing.
LEMMA RollBackInv ==
  ASSUME IInv, NEW r \in Requests, NEW p \in {"refused", "failed"}, RollBack(r, p), Watch,
         UNCHANGED <<plan, clock>>, phase[r] # "new", p = "refused" => Reason(r)
  PROVE  IInv'
<1>1. /\ phase \in [Requests -> Phase] /\ phase' = [phase EXCEPT ![r] = p]
      /\ todo' = [todo EXCEPT ![r] = <<>>] /\ mine' = [mine EXCEPT ![r] = <<>>]
      /\ me' = [me EXCEPT ![r] = Nobody] /\ then' = then /\ owner' = Released(r)
      /\ UNCHANGED <<rows, idpVars, expelled>>
  BY DEF IInv, TypeOK, Goto, RollBack, End
<1>2. /\ phase'[r] = p /\ todo'[r] = <<>> /\ mine'[r] = <<>> /\ me'[r] = Nobody
      /\ \A q \in Requests \ {r} : /\ phase'[q] = phase[q] /\ todo'[q] = todo[q]
                                   /\ mine'[q] = mine[q] /\ me'[q] = me[q]
  BY <1>1 DEF IInv, ShapeInv
<1>3. Frame(r)
  BY <1>1, <1>2 DEF Frame, idpVars
<1>4. DOMAIN <<>> = {} /\ ToSet(<<>>) = {} /\ IsSeq(<<>>)
  BY NoStatement, Zenon DEF ToSet
<1>5. TypeOK'
  <2>1. owner' \in [Row -> Requests \cup {Absent}]
    BY <1>1 DEF IInv, TypeOK, Released
  <2>2. \A row \in Row, q \in Requests : owner'[row] = q <=> row \in DOMAIN mine'[q]
    BY <1>1, <1>2, <1>4, NameAssumption DEF IInv, TypeOK, Released
  <2>3. \A q \in Requests : phase'[q] \in Ended => todo'[q] = <<>> /\ DOMAIN mine'[q] = {}
    BY <1>2, <1>4 DEF IInv, TypeOK
  <2>4. \A q \in Requests : DOMAIN mine'[q] \subseteq Row /\ \A s \in ToSet(todo'[q]) : s.row \in Row
    BY <1>2, <1>4 DEF IInv, TypeOK
  <2>5. \A q \in Requests : me'[q].role \in Role /\ me'[q].revoked \in BOOLEAN
    <3>1. Nobody.role \in Role /\ Nobody.revoked \in BOOLEAN
      BY DEF Nobody, Role
    <3>2. \A q \in Requests : me[q].role \in Role /\ me[q].revoked \in BOOLEAN
      BY DEF IInv, TypeOK
    <3>3. QED
      BY <1>2, <3>1, <3>2
  <2>6. phase' \in [Requests -> Phase]
    BY <1>1 DEF Phase
  <2>7. QED
    BY <1>1, <2>1, <2>2, <2>3, <2>4, <2>5, <2>6 DEF IInv, TypeOK, idpVars
<1>6. ShapeInv' /\ RowInv' /\ CacheInv'
  <2>1. Nobody \in [user : Users \cup {Absent}, role : Role, revoked : BOOLEAN]
    BY DEF Nobody, Role
  <2>2. ShapeInv'
    BY <1>1, <2>1, WatchFacts DEF IInv, ShapeInv, idpVars
  <2>3. QED
    BY <1>1, <2>2 DEF IInv, RowInv, CacheInv, idpVars, Expelled
<1>7. UserInv(r)' /\ KeyInv(r)' /\ TodoInv(r)'
  BY <1>2, <1>4 DEF UserInv, KeyInv, TodoInv
<1>8. JwksInv(r)' /\ DoorInv(r)' /\ RefusalInv(r)'
  <2>1. JwksInv(r)
    BY DEF IInv, RequestInv
  <2>2. phase'[r] \in {"refused", "failed"}
    BY <1>2
  <2>3. JwksInv(r)'
    BY <1>1, <2>1, <2>2 DEF JwksInv, idpVars
  <2>4. ~Live(r)' /\ ~AtDoor(r)' /\ ~Passed(r)'
    BY <2>2 DEF Live, AtDoor, Passed, Admitted, Ended
  <2>5. ~Admitted(r)'
    BY <2>4 DEF Passed
  <2>6. DoorInv(r)'
    BY <2>2, <2>3, <2>4, <2>5 DEF DoorInv
  <2>7. RefusalInv(r) /\ Token(r)' = Token(r) /\ Op(r)' = Op(r)
    BY DEF IInv, RequestInv, Token, Op
  <2>8. p = "refused" => Reason(r)'
    <3>1. KeyUnknown(r)' <=> KeyUnknown(r)
      BY <1>1, <2>7 DEF KeyUnknown, idpVars
    <3>2. p = "refused" => saw[r] \subseteq saw'[r]
      BY <1>2, WatchFacts
    <3>3. QED
      BY <1>1, <2>7, <3>1, <3>2 DEF Reason, NoKeySet, idpVars
  <2>9. RefusalInv(r)'
    BY <1>1, <1>2, <2>2, <2>4, <2>7, <2>8 DEF RefusalInv, idpVars
  <2>10. QED
    BY <2>3, <2>6, <2>9
<1>9. QED
  BY <1>3, <1>5, <1>6, <1>7, <1>8, Assemble DEF RequestInv

\* Statements to execute: r has changed nothing yet but its plans.
LEMMA ExecuteInv ==
  ASSUME IInv, NEW r \in Requests, NEW statements, NEW p \in {"check", "keys", "committing"},
         phase[r] \notin Ended \cup {"writing"}, Execute(r, statements, p), Watch,
         UNCHANGED <<plan, rows, owner, mine, clock, idpVars, expelled>>,
         me' \in [Requests -> [user : Users \cup {Absent}, role : Role, revoked : BOOLEAN]],
         \A q \in Requests \ {r} : me'[q] = me[q],
         IsSeq(statements), \A s \in ToSet(statements) : StatementInv(r, s)',
         DoorInv(r)', RefusalInv(r)'
  PROVE  IInv'
<1>1. /\ phase \in [Requests -> Phase] /\ DOMAIN todo = Requests
      /\ then \in [Requests -> {"check", "keys", "committing"}]
      /\ phase' = [phase EXCEPT ![r] = IF statements = <<>> THEN p ELSE "writing"]
      /\ todo' = [todo EXCEPT ![r] = statements] /\ then' = [then EXCEPT ![r] = p]
  BY DEF IInv, TypeOK, ShapeInv, Goto, Execute
<1>2. /\ phase'[r] = IF statements = <<>> THEN p ELSE "writing"
      /\ todo'[r] = statements /\ then'[r] = p
      /\ \A q \in Requests \ {r} : phase'[q] = phase[q] /\ todo'[q] = todo[q] /\ then'[q] = then[q]
  BY <1>1
<1>3. Frame(r)
  BY <1>2 DEF Frame, idpVars
<1>4. TypeOK'
  <2>1. phase' \in [Requests -> Phase] /\ then' \in [Requests -> {"check", "keys", "committing"}]
    BY <1>1 DEF Phase
  <2>2. \A s \in ToSet(statements) : s.row \in Row
    BY DEF StatementInv
  <2>3. \A q \in Requests : phase'[q] \in Ended => todo'[q] = <<>> /\ DOMAIN mine'[q] = {}
    BY <1>2 DEF IInv, TypeOK, Ended
  <2>4. \A q \in Requests : DOMAIN mine'[q] \subseteq Row /\ \A s \in ToSet(todo'[q]) : s.row \in Row
    BY <1>2, <2>2 DEF IInv, TypeOK
  <2>5. QED
    BY <2>1, <2>3, <2>4 DEF IInv, TypeOK, idpVars
<1>5. ShapeInv' /\ RowInv' /\ CacheInv'
  BY <1>1, WatchFacts DEF IInv, ShapeInv, RowInv, CacheInv, idpVars, Expelled
<1>6. UserInv(r)' /\ KeyInv(r)' /\ TodoInv(r)' /\ JwksInv(r)'
  <2>1. UserInv(r) /\ KeyInv(r) /\ TodoInv(r) /\ JwksInv(r)
    BY DEF IInv, RequestInv
  <2>2. todo[r] = <<>> /\ ToSet(todo[r]) = {}
    BY <2>1, NoStatement DEF TodoInv
  <2>3. \A row : Expected(r, row) => Expected(r, row)'
    BY <2>2 DEF Expected, Known
  <2>4. KeyInv(r)'
    BY <2>1, <2>3 DEF KeyInv
  <2>5. TodoInv(r)'
    BY <1>2 DEF TodoInv
  <2>6. JwksInv(r)'
    BY <1>2, <2>1 DEF JwksInv, idpVars
  <2>7. UserInv(r)'
    BY <2>1 DEF UserInv
  <2>8. QED
    BY <2>4, <2>5, <2>6, <2>7
<1>7. QED
  BY <1>3, <1>4, <1>5, <1>6, Assemble DEF RequestInv

-----------------------------------------------------------------------------
(* The door. *)

\* A step that is seen and ends alive has its circumstances seen.
LEMMA LiveDoor ==
  ASSUME IInv, NEW r \in Requests, Live(r), Live(r)', Watch
  PROVE  saw[r] \subseteq saw'[r] /\ Circumstances(r)' \subseteq saw'[r]
  BY WatchFacts

\* Arrive preserves IInv.
LEMMA ArriveInv ==
  ASSUME IInv, NEW r \in Requests, Arrive(r), UNCHANGED <<plan, clock>>, Watch
  PROVE  IInv'
<1> DEFINE p == IF plan.mode = "oidc" THEN "jwks" ELSE "key"
<1>1. /\ Goto(r, p) /\ phase[r] = "new" /\ p \in {"jwks", "key"}
      /\ UNCHANGED <<rows, owner, txVars, idpVars, expelled>>
  BY DEF Arrive
<1>2. phase'[r] = p
  BY <1>1 DEF Goto, IInv, TypeOK
<1>3. JwksInv(r) /\ CacheInv
  BY DEF IInv, RequestInv
<1>4. JwksInv(r)' /\ CacheInv'
  BY <1>1, <1>2, <1>3 DEF JwksInv, CacheInv, idpVars
<1>5. DoorInv(r)'
  <2>1. Live(r)' => Circumstances(r)' \subseteq saw'[r]
    BY WatchFacts
  <2>2. ~AtDoor(r)' /\ ~Passed(r)' /\ ~Admitted(r)'
    BY <1>1, <1>2 DEF AtDoor, Passed, Admitted
  <2>3. plan' = plan /\ plan.mode \in {"api_key", "oidc"}
    BY PlanFacts
  <2>4. QED
    BY <1>2, <2>1, <2>2, <2>3 DEF DoorInv
<1>6. p \in Phase \ (Ended \cup {"new", "writing"})
  BY DEF Phase, Ended
<1>7. RefusalInv(r)'
  <2>1. plan.mode = "oidc" => Token(r).gen <= gen
    BY DEF Arrive
  <2>2. gen' = gen /\ Token(r)' = Token(r) /\ ~AtDoor(r)'
    BY <1>1, <1>2 DEF idpVars, Token, AtDoor
  <2>3. QED
    BY <1>1, <1>2, <2>1, <2>2 DEF RefusalInv
<1> HIDE DEF p
<1>8. QED
  BY <1>1, <1>4, <1>5, <1>6, <1>7, KeySetsSame, QuietInv DEF idpVars

\* A request whose user is fit, if only it is not expelled and has a role for the route.
LEMMA KeyFit ==
  ASSUME IInv, NEW r \in Requests, plan.mode = "api_key", Live(r),
         rows[K(Token(r))] # Absent, ~rows[K(Token(r))].revoked
  PROVE  LET key == rows[K(Token(r))]
         IN  \/ "fit" \in saw[r] \/ Expelled(U(key.user))
             \/ rows[U(key.user)].role \notin Allowed(Op(r))
<1>1. Token(r) \in AnyKey
  BY PlanFacts
<1>2. ~Expelled(K(Token(r)))
  BY <1>1 DEF IInv, RowInv
<1>3. Circumstances(r) \subseteq saw[r]
  BY DEF IInv, RequestInv, DoorInv
<1>4. SUFFICES ASSUME ~Expelled(U(rows[K(Token(r))].user)),
                      rows[U(rows[K(Token(r))].user)].role \in Allowed(Op(r))
               PROVE  "fit" \in saw[r]
  OBVIOUS
<1>5. Fit(r)
  BY <1>2, <1>4 DEF Fit
<1>6. QED
  BY <1>3, <1>5 DEF Circumstances

\* FindKey preserves IInv.
LEMMA FindKeyInv ==
  ASSUME IInv, NEW r \in Requests, FindKey(r), UNCHANGED <<plan, clock>>, Watch
  PROVE  IInv'
<1>1. CASE /\ RollBack(r, "refused")
           /\ ~(rows[K(Token(r))] # Absent /\ ~rows[K(Token(r))].revoked)
  <2>1. phase[r] = "key" /\ Live(r)
    BY DEF FindKey, Live, Ended
  <2>2. plan.mode = "api_key" /\ Circumstances(r) \subseteq saw[r]
    BY <2>1 DEF IInv, RequestInv, DoorInv
  <2>3. Token(r) \in AnyKey
    BY <2>2, PlanFacts
  <2>4. rows[K(Token(r))] = Absent \/ Expelled(K(Token(r)))
    BY <1>1, <2>3 DEF IInv, RowInv
  <2>5. ~Fit(r)
    BY <2>2, <2>4 DEF Fit
  <2>6. Reason(r)
    BY <2>2, <2>5 DEF Circumstances, Reason
  <2>7. QED
    BY <1>1, <2>1, <2>6, RollBackInv
<1>2. CASE /\ rows[K(Token(r))] # Absent /\ ~rows[K(Token(r))].revoked
           /\ Goto(r, "user") /\ UNCHANGED <<rows, owner, txVars, idpVars, expelled>>
  <2>1. phase[r] = "key" /\ phase'[r] = "user"
    BY <1>2 DEF FindKey, Goto, IInv, TypeOK
  <2>2. JwksInv(r) /\ CacheInv /\ plan.mode = "api_key"
    BY <2>1 DEF IInv, RequestInv, DoorInv
  <2>3. JwksInv(r)' /\ CacheInv'
    BY <1>2, <2>1, <2>2 DEF JwksInv, CacheInv, idpVars
  <2>4. Live(r) /\ Live(r)'
    BY <2>1 DEF Live, Ended
  <2>5. /\ Token(r)' = Token(r) /\ Op(r)' = Op(r) /\ rows' = rows
        /\ \A row : Expelled(row)' <=> Expelled(row)
    BY <1>2 DEF Token, Op, Expelled
  <2>6. LET key == rows[K(Token(r))]
        IN  \/ "fit" \in saw'[r] \/ Expelled(U(key.user))
            \/ rows[U(key.user)].role \notin Allowed(Op(r))
    BY <1>2, <2>2, <2>4, KeyFit, LiveDoor
  <2>7. ~AtDoor(r)' /\ ~Passed(r)' /\ ~Admitted(r)'
    BY <2>1 DEF AtDoor, Passed, Admitted
  <2>8. DoorInv(r)'
    BY <1>2, <2>1, <2>2, <2>4, <2>5, <2>6, <2>7, LiveDoor DEF DoorInv, Expelled
  <2>9. "user" \in Phase \ (Ended \cup {"new", "writing"})
    BY DEF Phase, Ended
  <2>10. RefusalInv(r)'
    BY <1>2, <2>1, <2>7, OwnRefusal DEF idpVars, AtDoor
  <2>11. QED
    BY <1>2, <2>1, <2>3, <2>8, <2>9, <2>10, KeySetsSame, QuietInv DEF idpVars
<1>3. QED
  BY <1>1, <1>2 DEF FindKey

\* LoadUser preserves IInv.
LEMMA LoadUserInv ==
  ASSUME IInv, NEW r \in Requests, LoadUser(r), UNCHANGED <<plan, clock>>, Watch
  PROVE  IInv'
<1>1. phase[r] = "user" /\ UNCHANGED <<rows, owner, mine, idpVars, expelled>>
  BY DEF LoadUser
<1>2. plan.mode = "api_key" /\ rows[K(Token(r))] # Absent
  BY <1>1 DEF IInv, RequestInv, DoorInv
<1>3. PICK k \in AnyKey : k = Token(r)
  BY <1>2, PlanFacts
<1> DEFINE touch == <<Touch(K(k))>>
<1>0. Execute(r, touch, "check")
  BY <1>3 DEF LoadUser
<1>4. PICK u \in Users : u = rows[K(Token(r))].user /\ rows[U(u)] # Absent
  BY <1>2, <1>3 DEF IInv, RowInv, KeyRow
<1>5. rows[U(u)].role \in Role /\ rows[U(u)].revoked \in BOOLEAN
  BY <1>4 DEF IInv, RowInv, UserRow
<1>6. me' = [me EXCEPT ![r] = [user |-> u, role |-> rows[U(u)].role, revoked |-> rows[U(u)].revoked]]
  BY <1>4 DEF LoadUser
<1>7. /\ me' \in [Requests -> [user : Users \cup {Absent}, role : Role, revoked : BOOLEAN]]
      /\ me'[r].role = rows[U(u)].role /\ me'[r].revoked = rows[U(u)].revoked
      /\ \A q \in Requests \ {r} : me'[q] = me[q]
  BY <1>5, <1>6 DEF IInv, ShapeInv
<1>8. IsSeq(touch) /\ ToSet(touch) = {Touch(K(k))} /\ touch # <<>>
  BY OneStatement
<1>9. StatementInv(r, Touch(K(k)))'
  <2>1. /\ Touch(K(k)).row = K(k) /\ Touch(K(k)).insert = FALSE
        /\ DOMAIN Touch(K(k)).set = {}
    <3>1. DOMAIN <<>> = {}
      OBVIOUS
    <3>2. QED
      BY <3>1 DEF Touch, Update
  <2>2. Known(r, K(k))'
    BY <1>1, <1>2, <1>3 DEF Known
  <2>3. K(k) \in Row /\ \A v : U(v) # K(k)
    BY RowNames
  <2> DEFINE s == Touch(K(k))
  <2> HIDE DEF s
  <2>4. QED
    BY <2>1, <2>2, <2>3 DEF StatementInv, s
<1>10. phase'[r] = "writing" /\ then'[r] = "check"
  BY <1>0, <1>8 DEF Execute, Goto, IInv, TypeOK
<1> HIDE DEF touch
<1>11. DoorInv(r)'
  <2>1. Live(r) /\ Live(r)' /\ plan' = plan /\ Op(r)' = Op(r)
    BY <1>1, <1>10 DEF Live, Ended, Op
  <2>2. \/ "fit" \in saw[r] \/ Expelled(U(u)) \/ rows[U(u)].role \notin Allowed(Op(r))
    BY <1>1, <1>4 DEF IInv, RequestInv, DoorInv
  <2>3. Expelled(U(u)) => rows[U(u)].revoked
    BY DEF IInv, RowInv
  <2>4. "fit" \in saw'[r] \/ me'[r].revoked \/ me'[r].role \notin Allowed(Op(r))
    BY <1>7, <2>1, <2>2, <2>3, LiveDoor
  <2>5. ~Passed(r)' /\ ~Admitted(r)'
    BY <1>10 DEF Passed, Admitted
  <2>6. QED
    BY <1>2, <1>10, <2>1, <2>4, <2>5, LiveDoor DEF DoorInv
<1>12. phase[r] \notin Ended \cup {"writing"}
  BY <1>1 DEF Ended
<1>13. RefusalInv(r)'
  <2>1. Live(r) /\ Live(r)' /\ plan' = plan /\ Op(r)' = Op(r) /\ Token(r)' = Token(r) /\ gen' = gen
    BY <1>1, <1>10 DEF Live, Ended, Op, Token, idpVars
  <2>2. Circumstances(r) \subseteq saw[r]
    BY <2>1 DEF IInv, RequestInv, DoorInv
  <2>3. rows[U(u)].revoked => Expelled(U(u))
    BY <1>4 DEF IInv, RowInv
  <2>4. rows[U(u)].revoked \/ rows[U(u)].role \notin Allowed(Op(r)) => ~Fit(r)
    BY <1>2, <1>3, <1>4, <2>3 DEF Fit
  <2>5. ~Fit(r) => "unfit" \in saw'[r]
    BY <2>1, <2>2, LiveDoor DEF Circumstances
  <2>6. RefusalInv(r)
    BY DEF IInv, RequestInv
  <2>7. QED
    BY <1>1, <1>7, <1>10, <2>1, <2>4, <2>5, <2>6 DEF RefusalInv
<1>14. QED
  BY <1>0, <1>1, <1>7, <1>8, <1>9, <1>11, <1>12, <1>13, ExecuteInv

-----------------------------------------------------------------------------
(* Key sets and logins. *)

\* A step of r from one phase before its login to another.
LEMMA TokenDoor ==
  ASSUME IInv, NEW r \in Requests, NEW p \in {"jwks", "fetching", "fetched", "token"},
         plan.mode = "oidc", phase'[r] = p, plan' = plan, Watch,
         p = "fetching" => "keyless" \in saw'[r]
  PROVE  DoorInv(r)' /\ ~AtDoor(r)'
<1>1. Live(r)' => Circumstances(r)' \subseteq saw'[r]
  BY WatchFacts
<1>2. ~AtDoor(r)' /\ ~Passed(r)' /\ ~Admitted(r)'
  BY DEF AtDoor, Passed, Admitted
<1>3. QED
  BY <1>1, <1>2 DEF DoorInv

\* AskJwks preserves IInv.
LEMMA AskJwksInv ==
  ASSUME IInv, NEW r \in Requests, AskJwks(r), UNCHANGED <<plan, clock>>, Watch
  PROVE  IInv'
<1> DEFINE hit == FreshJwks
           g == IF hit THEN cache.gen ELSE 0
           p == IF hit THEN "token" ELSE "fetching"
<1>1. /\ phase[r] = "jwks" /\ jwks' = [jwks EXCEPT ![r] = [gen |-> g, at |-> clock]] /\ Goto(r, p)
      /\ UNCHANGED <<rows, owner, txVars, gen, retiredAt, cache, expelled>>
  BY DEF AskJwks
<1>2. phase'[r] = p /\ plan.mode = "oidc"
  BY <1>1 DEF Goto, IInv, TypeOK, RequestInv, DoorInv
<1>3. gen \in Nat /\ clock \in Nat /\ DOMAIN retiredAt = 1..(gen - 1)
      /\ \A i \in 1..(gen - 1) : retiredAt[i] \in Nat
  BY RetiredType
<1>4. cache \in [gen : Nat, stamp : Nat] /\ cache.gen \in 0..gen /\ g \in 0..gen
  BY <1>3 DEF IInv, TypeOK, ShapeInv
<1>5. /\ jwks' \in [Requests -> [gen : Nat, at : Nat]]
      /\ jwks'[r].gen = g /\ jwks'[r].at = clock /\ \A q \in Requests \ {r} : jwks'[q] = jwks[q]
  <2>1. [gen |-> g, at |-> clock] \in [gen : Nat, at : Nat]
    BY <1>3, <1>4
  <2>2. jwks \in [Requests -> [gen : Nat, at : Nat]]
    BY DEF IInv, ShapeInv
  <2> HIDE DEF g
  <2>3. QED
    BY <1>1, <2>1, <2>2
<1>6. KeySetsOK
  <2>1. \A q \in Requests : jwks[q].gen \in 0..gen
    BY DEF IInv, TypeOK
  <2> HIDE DEF g
  <2>2. QED
    BY <1>1, <1>4, <1>5, <2>1 DEF KeySetsOK
<1>7. JwksInv(r)'
  <2>1. hit /\ cache.gen < gen => clock < retiredAt[cache.gen] + TTL
    <3>1. SUFFICES ASSUME hit, cache.gen < gen
                   PROVE  clock < retiredAt[cache.gen] + TTL
      OBVIOUS
    <3>2. cache.stamp <= retiredAt[cache.gen]
      BY <3>1 DEF IInv, CacheInv, FreshJwks
    <3>3. cache.gen \in 1..(gen - 1)
      BY <1>3, <1>4, <3>1 DEF FreshJwks
    <3>4. QED
      BY <1>3, <1>4, <3>1, <3>2, <3>3, NumberAssumption DEF FreshJwks
  <2>2. /\ phase'[r] # "fetched" /\ clock <= clock
        /\ phase'[r] = "token" => g # 0
        /\ phase'[r] = "fetching" => g = 0
    BY <1>2, <1>3 DEF FreshJwks
  <2>3. g # 0 => hit /\ g = cache.gen
    OBVIOUS
  <2> HIDE DEF g, hit
  <2>4. QED
    BY <1>1, <1>5, <2>1, <2>2, <2>3 DEF JwksInv
<1>8. DoorInv(r)' /\ ~AtDoor(r)' /\ p \in Phase \ (Ended \cup {"new", "writing"})
  <2>1. p = "fetching" => "keyless" \in saw'[r]
    <3>1. SUFFICES ASSUME ~FreshJwks
                   PROVE  "keyless" \in saw'[r]
      OBVIOUS
    <3>2. "keyless" \in Circumstances(r)'
      BY <1>1, <1>2, <3>1 DEF Circumstances, FreshJwks
    <3>3. Live(r)'
      BY <1>2 DEF Live, Ended
    <3>4. QED
      BY <3>2, <3>3, WatchFacts
  <2>2. p \in {"jwks", "fetching", "fetched", "token"} /\ phase'[r] = p /\ plan.mode = "oidc"
    BY <1>2
  <2> HIDE DEF p
  <2>3. QED
    BY <2>1, <2>2, TokenDoor DEF Phase, Ended
<1>9. CacheInv'
  BY <1>1 DEF IInv, CacheInv
<1>10. RefusalInv(r)'
  BY <1>1, <1>2, <1>8, OwnRefusal
<1> HIDE DEF p
<1>11. QED
  BY <1>1, <1>5, <1>6, <1>7, <1>8, <1>9, <1>10, QuietInv

\* IdpAnswers preserves IInv.
LEMMA IdpAnswersInv ==
  ASSUME IInv, NEW r \in Requests, IdpAnswers(r), UNCHANGED <<plan, clock>>, Watch
  PROVE  IInv'
<1>1. /\ phase[r] = "fetching" /\ jwks' = [jwks EXCEPT ![r].gen = gen] /\ Goto(r, "fetched")
      /\ UNCHANGED <<rows, owner, txVars, gen, retiredAt, cache, expelled>>
  BY DEF IdpAnswers
<1>2. phase'[r] = "fetched" /\ plan.mode = "oidc"
  BY <1>1 DEF Goto, IInv, TypeOK, RequestInv, DoorInv
<1>3. gen \in Nat \ {0}
  BY NumberAssumption DEF IInv, TypeOK
<1>4. /\ jwks' \in [Requests -> [gen : Nat, at : Nat]]
      /\ jwks'[r].gen = gen /\ jwks'[r].at = jwks[r].at
      /\ \A q \in Requests \ {r} : jwks'[q] = jwks[q]
  BY <1>1, <1>3 DEF IInv, ShapeInv
<1>5. KeySetsOK
  BY <1>1, <1>3, <1>4 DEF KeySetsOK, IInv, TypeOK, ShapeInv
<1>6. JwksInv(r)'
  BY <1>1, <1>2, <1>3, <1>4 DEF JwksInv, IInv, RequestInv
<1>7. DoorInv(r)' /\ "fetched" \in Phase \ (Ended \cup {"new", "writing"})
  BY <1>2, TokenDoor DEF Phase, Ended
<1>8. CacheInv'
  BY <1>1 DEF IInv, CacheInv
<1>9. RefusalInv(r)'
  BY <1>1, <1>2, TokenDoor, OwnRefusal
<1>10. QED
  BY <1>1, <1>4, <1>5, <1>6, <1>7, <1>8, <1>9, QuietInv

\* IdpFails preserves IInv: the cache had no fresh key set when r asked for one.
LEMMA IdpFailsInv ==
  ASSUME IInv, NEW r \in Requests, IdpFails(r), UNCHANGED <<plan, clock>>, Watch
  PROVE  IInv'
<1>1. phase[r] = "fetching" /\ RollBack(r, "refused")
  BY DEF IdpFails
<1>2. JwksInv(r) /\ DoorInv(r)
  BY DEF IInv, RequestInv
<1>3. NoKeySet(r)
  BY <1>1, <1>2 DEF JwksInv, DoorInv, NoKeySet
<1>4. QED
  BY <1>1, <1>3, RollBackInv DEF Reason

\* StoreJwks preserves IInv.
LEMMA StoreJwksInv ==
  ASSUME IInv, NEW r \in Requests, StoreJwks(r), UNCHANGED <<plan, clock>>, Watch
  PROVE  IInv'
<1>1. /\ phase[r] = "fetched" /\ cache' = [gen |-> jwks[r].gen, stamp |-> jwks[r].at]
      /\ Goto(r, "token") /\ UNCHANGED <<rows, owner, txVars, gen, retiredAt, jwks, expelled>>
  BY DEF StoreJwks, Stamp
<1>2. phase'[r] = "token" /\ plan.mode = "oidc"
  BY <1>1 DEF Goto, IInv, TypeOK, RequestInv, DoorInv
<1>3. jwks[r] \in [gen : Nat, at : Nat] /\ jwks[r].gen \in 0..gen /\ JwksInv(r)
  BY DEF IInv, TypeOK, ShapeInv, RequestInv
<1>4. cache'.gen = jwks[r].gen /\ cache'.stamp = jwks[r].at /\ cache' \in [gen : Nat, stamp : Nat]
  BY <1>1, <1>3
<1>5. KeySetsOK
  BY <1>1, <1>3, <1>4 DEF KeySetsOK, IInv, TypeOK, ShapeInv
<1>6. JwksInv(r)' /\ CacheInv'
  BY <1>1, <1>2, <1>3, <1>4 DEF JwksInv, CacheInv
<1>7. DoorInv(r)' /\ "token" \in Phase \ (Ended \cup {"new", "writing"})
  BY <1>2, TokenDoor DEF Phase, Ended
<1>8. RefusalInv(r)'
  BY <1>1, <1>2, TokenDoor, OwnRefusal
<1>9. QED
  BY <1>1, <1>5, <1>6, <1>7, <1>8, QuietInv

\* Login preserves IInv.
LEMMA LoginInv ==
  ASSUME IInv, NEW r \in Requests, Login(r), UNCHANGED <<plan, clock>>, Watch
  PROVE  IInv'
<1>1. CASE Token(r).gen # jwks[r].gen /\ RollBack(r, "refused")
  <2>1. phase[r] = "token" /\ JwksInv(r) /\ RefusalInv(r) /\ DoorInv(r)
    BY DEF Login, IInv, RequestInv
  <2>2. plan.mode = "oidc" /\ jwks[r].gen # 0 /\ Token(r).gen <= gen
    BY <2>1 DEF DoorInv, JwksInv, RefusalInv
  <2>3. jwks[r].gen \in Nat /\ Token(r).gen \in Nat /\ gen \in Nat
    BY <2>2, PlanFacts, RetiredType DEF IInv, ShapeInv
  <2>4. Token(r).gen > jwks[r].gen => jwks[r].gen < gen
    BY <2>2, <2>3
  <2>5. Token(r).gen > jwks[r].gen => jwks[r].at < retiredAt[jwks[r].gen] + TTL
    BY <2>1, <2>2, <2>4 DEF JwksInv
  <2>6. Reason(r)
    BY <1>1, <2>2, <2>5 DEF Reason, KeyUnknown
  <2>7. QED
    BY <1>1, <2>1, <2>6, RollBackInv
<1>2. CASE ~(Token(r).gen # jwks[r].gen /\ RollBack(r, "refused"))
  <2> DEFINE user == rows[U(Token(r).user)]
  <2>1. phase[r] = "token" /\ Token(r).gen = jwks[r].gen
        /\ UNCHANGED <<rows, owner, mine, idpVars, expelled>>
    BY <1>2 DEF Login
  <2>2. plan.mode = "oidc"
    BY <2>1 DEF IInv, RequestInv, DoorInv
  <2>3. PICK u \in Users : u = Token(r).user
    BY <2>2, PlanFacts
  <2>4. PICK role \in Role : role = ResolveRole(Token(r).claims)
    BY <2>2, PlanFacts, ResolvedRole
  <2> DEFINE banned == rows[U(u)] # Absent /\ rows[U(u)].revoked
             statements == IF rows[U(u)] = Absent THEN <<NewUser(u, role)>>
                           ELSE IF rows[U(u)].role # role THEN <<SyncRole(u, role)>> ELSE <<>>
  <2>5. /\ me' = [me EXCEPT ![r] = [user |-> u, role |-> role, revoked |-> banned]]
        /\ Execute(r, statements, "check")
    BY <1>2, <2>3, <2>4 DEF Login
  <2>6. banned \in BOOLEAN
    BY DEF IInv, RowInv, UserRow
  <2>7. /\ me' \in [Requests -> [user : Users \cup {Absent}, role : Role, revoked : BOOLEAN]]
        /\ me'[r].role = role /\ me'[r].revoked = banned
        /\ \A q \in Requests \ {r} : me'[q] = me[q]
    <3> HIDE DEF banned, statements
    <3>1. QED
      BY <2>5, <2>6 DEF IInv, ShapeInv
  <2>8. IsSeq(statements)
    BY NoStatement, OneStatement
  <2>9. ASSUME NEW s \in ToSet(statements)
        PROVE  StatementInv(r, s)'
    <3>1. U(u) \in Row /\ (\A k : U(u) # K(k)) /\ (\A v : U(u) = U(v) => u = v)
      BY RowNames
    <3>2. CASE rows[U(u)] = Absent
      <4>1. s = NewUser(u, role)
        BY <2>9, <3>2, OneStatement
      <4>2. s.row = U(u) /\ s.insert = TRUE /\ s.set = [role |-> role, revoked |-> FALSE]
        BY <4>1 DEF NewUser, Insert
      <4>3. s.set \in UserRow
        BY <4>2 DEF UserRow
      <4>4. QED
        BY <3>1, <4>2, <4>3 DEF StatementInv
    <3>3. CASE rows[U(u)] # Absent
      <4>1. s = SyncRole(u, role)
        BY <2>9, <3>3, OneStatement, NoStatement
      <4>2. s.row = U(u) /\ s.insert = FALSE /\ s.set = [role |-> role]
        BY <4>1 DEF SyncRole, Update
      <4>3. DOMAIN s.set = {"role"} /\ s.set.role = role
        BY <4>2
      <4>4. Known(r, U(u))'
        BY <2>1, <3>3 DEF Known
      <4>5. QED
        BY <2>2, <3>1, <4>2, <4>3, <4>4 DEF StatementInv
    <3>4. QED
      BY <3>2, <3>3
  <2>10. DoorInv(r)'
    <3>1. then'[r] = "check" /\ phase'[r] \in {"check", "writing"}
      BY <2>5 DEF Execute, Goto, IInv, TypeOK
    <3>2. Live(r) /\ Live(r)' /\ plan' = plan /\ Op(r)' = Op(r) /\ Token(r)' = Token(r)
      BY <2>1, <3>1 DEF Live, Ended, Op, Token
    <3>3. ASSUME ~banned, role \in Allowed(Op(r))
          PROVE  "fit" \in saw[r]
      <4>1. ~Expelled(U(u))
        BY <3>3 DEF IInv, RowInv
      <4>2. Entitled(Token(r).claims, Allowed(Op(r)))
        BY <2>2, <2>4, <3>3, PlanFacts, ResolvedRole
      <4>3. Fit(r)
        BY <2>2, <2>3, <4>1, <4>2 DEF Fit
      <4>4. Circumstances(r) \subseteq saw[r]
        BY <3>2 DEF IInv, RequestInv, DoorInv
      <4>5. QED
        BY <4>3, <4>4 DEF Circumstances
    <3>4. "fit" \in saw'[r] \/ me'[r].revoked \/ me'[r].role \notin Allowed(Op(r))
      BY <2>7, <3>2, <3>3, LiveDoor
    <3>5. ~Passed(r)' /\ ~Admitted(r)'
      BY <3>1 DEF Passed, Admitted
    <3>6. jwks' = jwks
      BY <2>1 DEF idpVars
    <3> HIDE DEF banned
    <3>7. QED
      BY <2>1, <3>1, <3>2, <3>4, <3>5, <3>6, LiveDoor DEF DoorInv
  <2>11. phase[r] \notin Ended \cup {"writing"}
    BY <2>1 DEF Ended
  <2>12. RefusalInv(r)'
    <3>1. then'[r] = "check" /\ phase'[r] \in {"check", "writing"}
      BY <2>5 DEF Execute, Goto, IInv, TypeOK
    <3>2. Live(r) /\ Live(r)' /\ plan' = plan /\ Op(r)' = Op(r) /\ Token(r)' = Token(r) /\ gen' = gen
      BY <2>1, <3>1 DEF Live, Ended, Op, Token, idpVars
    <3>3. Circumstances(r) \subseteq saw[r] /\ RefusalInv(r)
      BY <3>2 DEF IInv, RequestInv, DoorInv
    <3>4. banned => Expelled(U(u))
      BY DEF IInv, RowInv
    <3>5. role \notin Allowed(Op(r)) => ~Entitled(Token(r).claims, Allowed(Op(r)))
      BY <2>2, <2>4, PlanFacts, ResolvedRole
    <3>6. banned \/ role \notin Allowed(Op(r)) => ~Fit(r)
      BY <2>2, <2>3, <3>4, <3>5 DEF Fit
    <3>7. ~Fit(r) => "unfit" \in saw'[r]
      BY <3>2, <3>3, LiveDoor DEF Circumstances
    <3> HIDE DEF banned, statements
    <3>8. QED
      BY <2>1, <2>7, <3>1, <3>2, <3>3, <3>6, <3>7 DEF RefusalInv
  <2> HIDE DEF statements
  <2>13. QED
    BY <2>1, <2>5, <2>7, <2>8, <2>9, <2>10, <2>11, <2>12, ExecuteInv
<1>3. QED
  BY <1>1, <1>2

-----------------------------------------------------------------------------
(* Checks and routes. *)

\* A step of r past the check of its user that writes no row.
LEMMA PassInv ==
  ASSUME IInv, NEW r \in Requests, NEW p \in {"switch", "body"},
         phase[r] \in {"check", "switch"}, Goto(r, p), Watch,
         UNCHANGED <<plan, rows, owner, txVars, clock, idpVars, expelled>>,
         "fit" \in saw[r], p = "body" /\ Op(r).name = "query" => "calm" \in saw[r],
         p = "switch" => Op(r).name = "query"
  PROVE  IInv'
<1>1. phase'[r] = p
  BY DEF Goto, IInv, TypeOK
<1>2. Live(r) /\ Live(r)' /\ (AtDoor(r) \/ Passed(r)) /\ ~AtDoor(r)'
  BY <1>1 DEF Live, Ended, AtDoor, Passed
<1>3. Admitted(r)' <=> p = "body"
  BY <1>1 DEF Admitted
<1>4. DoorInv(r) /\ JwksInv(r) /\ CacheInv
  BY DEF IInv, RequestInv
<1>5. /\ Op(r)' = Op(r) /\ Token(r)' = Token(r) /\ jwks' = jwks
  BY DEF Op, Token, idpVars
<1>6. DoorInv(r)'
  BY <1>1, <1>2, <1>3, <1>4, <1>5, LiveDoor DEF DoorInv
<1>7. JwksInv(r)' /\ CacheInv'
  BY <1>1, <1>4 DEF JwksInv, CacheInv, idpVars
<1>8. p \in Phase \ (Ended \cup {"new", "writing"}) /\ phase[r] # "writing"
  BY DEF Phase, Ended
<1>9. RefusalInv(r)'
  <2>1. RefusalInv(r) /\ gen' = gen
    BY DEF IInv, RequestInv, idpVars
  <2>2. QED
    BY <1>1, <1>2, <1>5, <2>1 DEF RefusalInv
<1>10. QED
  BY <1>6, <1>7, <1>8, <1>9, KeySetsSame, QuietInv DEF idpVars

\* Check preserves IInv.
LEMMA CheckInv ==
  ASSUME IInv, NEW r \in Requests, Check(r), UNCHANGED <<plan, clock>>, Watch
  PROVE  IInv'
<1>1. CASE RollBack(r, "refused") /\ ~(Authenticated(me[r]) /\ me[r].role \in Allowed(Op(r)))
  <2>1. phase[r] = "check" /\ AtDoor(r) /\ RefusalInv(r)
    BY DEF Check, AtDoor, IInv, RequestInv
  <2>2. Reason(r)
    BY <1>1, <2>1 DEF RefusalInv, Reason, Authenticated
  <2>3. QED
    BY <1>1, <2>1, <2>2, RollBackInv
<1>2. CASE Authenticated(me[r]) /\ me[r].role \in Allowed(Op(r))
  <2> DEFINE p == IF Frozen(Op(r)) THEN "switch" ELSE "body"
  <2>1. /\ phase[r] = "check" /\ ~me[r].revoked /\ me[r].role \in Allowed(Op(r)) /\ Goto(r, p)
        /\ UNCHANGED <<rows, owner, txVars, idpVars, expelled>>
    BY <1>2 DEF Check, Authenticated
  <2>2. "fit" \in saw[r]
    BY <2>1 DEF IInv, RequestInv, DoorInv, AtDoor
  <2>3. /\ p \in {"switch", "body"} /\ (p = "body" => Op(r).name # "query")
        /\ p = "switch" => Op(r).name = "query"
    BY DEF Frozen
  <2> HIDE DEF p
  <2>4. QED
    BY <2>1, <2>2, <2>3, PassInv
<1>3. QED
  BY <1>1, <1>2 DEF Check

\* CheckSwitch preserves IInv.
LEMMA CheckSwitchInv ==
  ASSUME IInv, NEW r \in Requests, CheckSwitch(r), UNCHANGED <<plan, clock>>, Watch
  PROVE  IInv'
<1>1. CASE RollBack(r, "refused") /\ SwitchOn
  <2>1. phase[r] = "switch" /\ Live(r)
    BY DEF CheckSwitch, Live, Ended
  <2>2. Op(r).name = "query" /\ Circumstances(r) \subseteq saw[r]
    BY <2>1 DEF IInv, RequestInv, RefusalInv, DoorInv
  <2>3. Reason(r)
    BY <1>1, <2>2 DEF Reason, Circumstances
  <2>4. QED
    BY <1>1, <2>1, <2>3, RollBackInv
<1>2. CASE ~(RollBack(r, "refused") /\ SwitchOn)
  <2>1. /\ phase[r] = "switch" /\ ~SwitchOn /\ Goto(r, "body")
        /\ UNCHANGED <<rows, owner, txVars, idpVars, expelled>>
    BY <1>2 DEF CheckSwitch
  <2>2. Live(r) /\ Passed(r)
    BY <2>1 DEF Live, Ended, Passed
  <2>3. "fit" \in saw[r] /\ Circumstances(r) \subseteq saw[r]
    BY <2>2 DEF IInv, RequestInv, DoorInv
  <2>4. Op(r).name = "query" => "calm" \in saw[r]
    BY <2>1, <2>3 DEF Circumstances
  <2>5. QED
    BY <2>1, <2>3, <2>4, PassInv
<1>3. QED
  BY <1>1, <1>2

\* A statement that is about neither a user nor a key.
LEMMA OtherStatement ==
  ASSUME NEW r, NEW s, s.row \in Row, s.insert \in BOOLEAN,
         ~s.insert /\ "revoked" \in DOMAIN s.set => s.set.revoked = TRUE,
         \A x : s.row # U(x) /\ s.row # K(x)
  PROVE  StatementInv(r, s)'
  BY DEF StatementInv

\* The statements of a route make no bad user and no bad key.
LEMMA CreateUserStatements ==
  ASSUME IInv, NEW r \in Requests, Op(r).name = "user", UNCHANGED <<plan, rows, mine>>,
         todo'[r] = CreateUser(Op(r), r)
  PROVE  IsSeq(todo'[r]) /\ \A s \in ToSet(todo'[r]) : StatementInv(r, s)'
<1>1. PICK u \in Users, role \in Role : u = Op(r).user /\ role = Op(r).role
  BY PlanFacts
<1> DEFINE user == NewUser(u, role)
           key == NewKey(r, u)
           absent == Read(r, U(u)) = Absent
<1>2. todo'[r] = IF absent THEN <<user, key>> ELSE <<key>>
  BY <1>1 DEF CreateUser
<1>3. IsSeq(todo'[r]) /\ ToSet(todo'[r]) = IF absent THEN {user, key} ELSE {key}
  <2> HIDE DEF absent, user, key
  <2>1. QED
    BY <1>2, OneStatement, TwoStatements
<1>4. U(u) \in Row /\ K(r) \in Row /\ (\A k : U(u) # K(k)) /\ (\A v : U(v) # K(r))
      /\ (\A v : U(u) = U(v) => u = v) /\ r \in AnyKey
  BY RowNames DEF AnyKey
<1>5. absent => StatementInv(r, user)'
  <2>1. user.row = U(u) /\ user.insert = TRUE /\ user.set = [role |-> role, revoked |-> FALSE]
    BY DEF NewUser, Insert
  <2>2. user.set \in UserRow
    BY <2>1 DEF UserRow
  <2> HIDE DEF user
  <2>3. QED
    BY <1>4, <2>1, <2>2 DEF StatementInv
<1>6. StatementInv(r, key)'
  <2>1. key.row = K(r) /\ key.insert = TRUE /\ key.set = [user |-> u, revoked |-> FALSE]
    BY DEF NewKey, Insert
  <2>2. key.set \in KeyRow /\ key.set.user = u
    BY <2>1 DEF KeyRow
  <2>3. user.row = U(u)
    BY DEF NewUser, Insert
  <2>4. ~absent => Known(r, U(u))'
    BY DEF Read, Known
  <2>5. absent => user \in ToSet(todo'[r])
    BY <1>3
  <2> HIDE DEF user, key, absent
  <2>6. Expected(r, U(u))'
    BY <2>3, <2>4, <2>5 DEF Expected
  <2>7. QED
    BY <1>4, <2>1, <2>2, <2>6 DEF StatementInv
<1> HIDE DEF user, key, absent
<1>7. QED
  BY <1>3, <1>5, <1>6

\* One UPDATE that revokes a user or a key r can see.
LEMMA RevocationOK ==
  ASSUME IInv, NEW r \in Requests, NEW row \in Row, Known(r, row), UNCHANGED <<rows, mine>>
  PROVE  StatementInv(r, Update(row, [revoked |-> TRUE]))'
<1> DEFINE s == Update(row, [revoked |-> TRUE])
<1>1. s.row = row /\ s.insert = FALSE /\ DOMAIN s.set = {"revoked"} /\ s.set.revoked = TRUE
  BY DEF Update
<1>2. Known(r, row)'
  BY DEF Known
<1>3. \A x \in AnyKey : \A u : U(u) # K(x)
  BY RowNames
<1> HIDE DEF s
<1>4. StatementInv(r, s)'
  BY <1>1, <1>2, <1>3 DEF StatementInv
<1>5. QED
  BY <1>4 DEF s

\* So do those of the other routes.
LEMMA StatementsOK ==
  ASSUME IInv, NEW r \in Requests, UNCHANGED <<plan, rows, mine>>, todo'[r] = Statements(r)
  PROVE  IsSeq(todo'[r]) /\ \A s \in ToSet(todo'[r]) : StatementInv(r, s)'
<1>1. CASE Op(r).name = "user"
  BY <1>1, CreateUserStatements DEF Statements
<1>2. CASE Op(r).name = "revoke_user"
  <2>1. PICK u \in Users : u = Op(r).user
    BY <1>2, PlanFacts
  <2> DEFINE s == Update(U(u), [revoked |-> TRUE])
  <2>2. \/ todo'[r] = <<>>
        \/ todo'[r] = <<s>> /\ Read(r, U(u)) # Absent
    BY <1>2, <2>1 DEF Statements, RevokeUser
  <2>3. Read(r, U(u)) # Absent => StatementInv(r, s)'
    BY RevocationOK, RowNames DEF Read, Known
  <2> HIDE DEF s
  <2>4. QED
    BY <2>2, <2>3, NoStatement, OneStatement
<1>3. CASE Op(r).name = "switch"
  <2>1. PICK on : on = Op(r).on
    OBVIOUS
  <2> DEFINE a == Insert(Switch, [on |-> on])
             b == Touch(Switch)
             c == Update(Switch, [on |-> on])
             Plain(s) == s.row = Switch /\ s.insert \in BOOLEAN /\ "revoked" \notin DOMAIN s.set
  <2>2. todo'[r] = <<a>> \/ todo'[r] = <<b>> \/ todo'[r] = <<c>>
    BY <1>3, <2>1 DEF Statements, SetSwitch
  <2>3. Plain(a) /\ Plain(b) /\ Plain(c)
    <3>1. DOMAIN <<>> = {}
      OBVIOUS
    <3>2. QED
      BY <3>1 DEF Insert, Touch, Update
  <2> HIDE DEF a, b, c
  <2>4. Switch \in Row /\ \A x : Switch # U(x) /\ Switch # K(x)
    BY OtherNames, RowNames
  <2>5. StatementInv(r, a)' /\ StatementInv(r, b)' /\ StatementInv(r, c)'
    BY <2>3, <2>4, OtherStatement
  <2>6. QED
    BY <2>2, <2>5, OneStatement
<1>4. CASE Op(r).name = "engagement"
  <2>1. PICK e \in Engagements : e = Op(r).engagement
    BY <1>4, PlanFacts
  <2>2. PICK s : todo'[r] = <<s>> /\ s.row = E(e) /\ s.insert = TRUE
    BY <1>4, <2>1 DEF Statements, CreateEngagement, Insert
  <2>3. E(e) \in Row /\ \A x : E(e) # U(x) /\ E(e) # K(x)
    BY OtherNames, RowNames
  <2>4. StatementInv(r, s)'
    BY <2>2, <2>3, OtherStatement
  <2>5. QED
    BY <2>2, <2>4, OneStatement
<1>5. CASE Op(r).name = "revoke_engagement"
  <2>1. PICK e \in Engagements : e = Op(r).engagement
    BY <1>5, PlanFacts
  <2>2. PICK s : todo'[r] = <<s>> /\ s.row = E(e) /\ s.insert = FALSE /\ s.set.revoked = TRUE
    BY <1>5, <2>1 DEF Statements, Update
  <2>3. E(e) \in Row /\ \A x : E(e) # U(x) /\ E(e) # K(x)
    BY OtherNames, RowNames
  <2>4. StatementInv(r, s)'
    BY <2>2, <2>3, OtherStatement
  <2>5. QED
    BY <2>2, <2>4, OneStatement
<1>6. CASE Op(r).name = "run"
  <2> DEFINE a == Insert(Source, <<>>)
             b == Insert(Job(r), <<>>)
  <2>1. todo'[r] = <<a, b>> \/ todo'[r] = <<b>>
    BY <1>6 DEF Statements, RunConnector
  <2>2. a.row = Source /\ a.insert = TRUE /\ b.row = Job(r) /\ b.insert = TRUE
    BY DEF Insert
  <2> HIDE DEF a, b
  <2>3. StatementInv(r, a)' /\ StatementInv(r, b)'
    BY <2>2, OtherStatement, OtherNames, RowNames
  <2>4. QED
    BY <2>1, <2>3, OneStatement, TwoStatements
<1>7. CASE Op(r).name \notin {"user", "revoke_user", "switch", "engagement", "revoke_engagement", "run"}
  BY <1>7, NoStatement DEF Statements
<1>8. QED
  BY <1>1, <1>2, <1>3, <1>4, <1>5, <1>6, <1>7

\* Admitted requests go on, and stay admitted.
LEMMA GoOnDoor ==
  ASSUME IInv, NEW r \in Requests, Watch, phase[r] \in {"body", "keys", "writing"}, Admitted(r),
         phase'[r] \in {"keys", "writing", "committing"}, then'[r] # "check",
         UNCHANGED <<plan, jwks>>,
         phase[r] = "body" /\ Op(r).name = "run" => "sanctioned" \in saw[r]
  PROVE  DoorInv(r)'
<1>1. Live(r) /\ Live(r)' /\ Passed(r) /\ Passed(r)' /\ Admitted(r)' /\ ~AtDoor(r)'
  BY DEF Live, Ended, Passed, Admitted, AtDoor
<1>2. Op(r)' = Op(r) /\ Token(r)' = Token(r)
  BY DEF Op, Token
<1>3. DoorInv(r)
  BY DEF IInv, RequestInv
<1>4. QED
  BY <1>1, <1>2, <1>3, LiveDoor DEF DoorInv

\* Body preserves IInv.
LEMMA BodyInv ==
  ASSUME IInv, NEW r \in Requests, Body(r), UNCHANGED <<plan, clock>>, Watch
  PROVE  IInv'
<1> DEFINE barred == Op(r).name = "run" /\ ~InEngagement(Op(r))
<1>1. CASE (barred /\ RollBack(r, "refused")) \/ RollBack(r, "failed")
  <2>1. phase[r] = "body" /\ Live(r)
    BY DEF Body, Live, Ended
  <2>2. Circumstances(r) \subseteq saw[r]
    BY <2>1 DEF IInv, RequestInv, DoorInv
  <2>3. barred => Reason(r)
    BY <2>2 DEF Reason, Circumstances
  <2> HIDE DEF barred
  <2>4. QED
    BY <1>1, <2>1, <2>3, RollBackInv
<1>2. CASE ~((barred /\ RollBack(r, "refused")) \/ RollBack(r, "failed"))
  <2> DEFINE p == IF Op(r).name = "revoke_user" /\ Read(r, U(Op(r).user)) # Absent
                  THEN "keys" ELSE "committing"
  <2>1. /\ phase[r] = "body" /\ (Op(r).name = "run" => InEngagement(Op(r)))
        /\ Execute(r, Statements(r), p) /\ UNCHANGED <<rows, owner, mine, me, idpVars, expelled>>
    BY <1>2 DEF Body
  <2>2. p \in {"keys", "committing"}
    OBVIOUS
  <2> HIDE DEF p
  <2>3. /\ todo'[r] = Statements(r) /\ then'[r] = p /\ phase'[r] \in {p, "writing"}
    BY <2>1, <2>2 DEF Execute, Goto, IInv, TypeOK, ShapeInv
  <2>4. Live(r) /\ Admitted(r)
    BY <2>1 DEF Live, Ended, Admitted
  <2>5. Circumstances(r) \subseteq saw[r]
    BY <2>4 DEF IInv, RequestInv, DoorInv
  <2>6. Op(r).name = "run" => "sanctioned" \in saw[r]
    BY <2>1, <2>5 DEF Circumstances
  <2>7. DoorInv(r)'
    BY <2>1, <2>2, <2>3, <2>4, <2>6, GoOnDoor DEF idpVars
  <2>8. IsSeq(Statements(r)) /\ \A s \in ToSet(Statements(r)) : StatementInv(r, s)'
    BY <2>1, <2>3, StatementsOK
  <2>9. /\ me' \in [Requests -> [user : Users \cup {Absent}, role : Role, revoked : BOOLEAN]]
        /\ \A q \in Requests \ {r} : me'[q] = me[q]
    BY <2>1 DEF IInv, ShapeInv
  <2>10. phase[r] \notin Ended \cup {"writing"}
    BY <2>1 DEF Ended
  <2>11. RefusalInv(r)'
    BY <2>1, <2>2, <2>3, OwnRefusal DEF AtDoor, idpVars
  <2>12. QED
    BY <2>1, <2>2, <2>7, <2>8, <2>9, <2>10, <2>11, ExecuteInv
<1>3. QED
  BY <1>1, <1>2

\* RevokeKeys preserves IInv.
LEMMA RevokeKeysInv ==
  ASSUME IInv, NEW r \in Requests, RevokeKeys(r), UNCHANGED <<plan, clock>>, Watch
  PROVE  IInv'
<1> DEFINE keys == {k \in Keys \cup Requests : /\ rows[K(k)] # Absent /\ rows[K(k)].user = Op(r).user
                                               /\ ~rows[K(k)].revoked}
<1>1. phase[r] = "keys" /\ UNCHANGED <<rows, owner, mine, me, idpVars, expelled>>
  BY DEF RevokeKeys
<1>2. PICK order \in SetToSeqs(keys) :
        Execute(r, [i \in DOMAIN order |-> Update(K(order[i]), [revoked |-> TRUE])], "committing")
  BY DEF RevokeKeys
<1>3. PICK n \in Nat : order \in [1..n -> keys]
  <2>1. IsFiniteSet(Keys \cup Requests)
    BY NameAssumption, FS_Union, Zenon
  <2>2. IsFiniteSet(keys)
    BY <2>1, FS_Subset
  <2>3. Cardinality(keys) \in Nat
    BY <2>2, FS_CardinalityType
  <2> HIDE DEF keys
  <2>4. order \in [1..Cardinality(keys) -> keys]
    BY DEF SetToSeqs
  <2>5. QED
    BY <2>3, <2>4
<1> DEFINE statements == [i \in DOMAIN order |-> Update(K(order[i]), [revoked |-> TRUE])]
<1>4. ASSUME NEW k \in keys
      PROVE  StatementInv(r, Update(K(k), [revoked |-> TRUE]))'
  <2>1. K(k) \in Row /\ Known(r, K(k))
    BY RowNames DEF AnyKey, Known
  <2>2. QED
    BY <1>1, <2>1, RevocationOK
<1> HIDE DEF keys
<1>5. IsSeq(statements) /\ \A s \in ToSet(statements) : StatementInv(r, s)'
  <2>1. DOMAIN order = 1..n /\ \A i \in 1..n : order[i] \in keys
    BY <1>3
  <2>2. statements = [i \in 1..n |-> statements[i]]
    BY <2>1
  <2>3. DOMAIN statements = 1..n /\ \A i \in 1..n : StatementInv(r, statements[i])'
    BY <1>4, <2>1
  <2> HIDE DEF statements
  <2>4. QED
    BY <2>2, <2>3, Listed DEF ToSet
<1> HIDE DEF statements
<1>6. Execute(r, statements, "committing")
  BY <1>2 DEF statements
<1>7. then'[r] = "committing" /\ phase'[r] \in {"committing", "writing"}
  BY <1>6 DEF Execute, Goto, IInv, TypeOK
<1>8. Admitted(r)
  BY <1>1 DEF Admitted
<1>9. DoorInv(r)'
  BY <1>1, <1>7, <1>8, GoOnDoor DEF idpVars
<1>10. /\ me' \in [Requests -> [user : Users \cup {Absent}, role : Role, revoked : BOOLEAN]]
       /\ \A q \in Requests \ {r} : me'[q] = me[q]
  BY <1>1 DEF IInv, ShapeInv
<1>11. phase[r] \notin Ended \cup {"writing"}
  BY <1>1 DEF Ended
<1>12. RefusalInv(r)'
  BY <1>1, <1>7, OwnRefusal DEF AtDoor, idpVars
<1>13. QED
  BY <1>1, <1>5, <1>6, <1>9, <1>10, <1>11, <1>12, ExecuteInv

-----------------------------------------------------------------------------
(* The transaction. *)

\* What r makes of a user it may change.
LEMMA ExecutedUser ==
  ASSUME IInv, NEW r \in Requests, NEW s, StatementInv(r, s), NEW u \in Users, s.row = U(u),
         ~(s.insert /\ Read(r, s.row) # Absent)
  PROVE  /\ Executed(r, s) \in UserRow
         /\ rows[U(u)] # Absent =>
              /\ rows[U(u)].revoked => Executed(r, s).revoked
              /\ plan.mode = "api_key" => Executed(r, s).role = rows[U(u)].role
<1> DEFINE old == Read(r, U(u))
<1>1. /\ rows[U(u)] \in UserRow \cup {Absent}
      /\ U(u) \in DOMAIN mine[r] =>
           /\ mine[r][U(u)] \in UserRow
           /\ rows[U(u)] # Absent =>
                /\ rows[U(u)].revoked => mine[r][U(u)].revoked
                /\ plan.mode = "api_key" => mine[r][U(u)].role = rows[U(u)].role
  BY DEF IInv, RowInv, RequestInv, UserInv
<1>2. CASE s.insert
  <2>1. s.set \in UserRow /\ Executed(r, s) = s.set
    BY <1>2 DEF StatementInv, Executed
  <2>2. rows[U(u)] = Absent
    BY <1>1, <1>2, NameAssumption DEF Read
  <2>3. QED
    BY <2>1, <2>2
<1>3. CASE ~s.insert
  <2>1. /\ Known(r, U(u)) /\ DOMAIN s.set \subseteq {"role", "revoked"}
        /\ "role" \in DOMAIN s.set => s.set.role \in Role /\ plan.mode = "oidc"
        /\ "revoked" \in DOMAIN s.set => s.set.revoked = TRUE
    BY <1>3 DEF StatementInv
  <2>2. old \in UserRow /\ (rows[U(u)] # Absent =>
                              /\ rows[U(u)].revoked => old.revoked
                              /\ plan.mode = "api_key" => old.role = rows[U(u)].role)
    BY <1>1, <2>1 DEF Known, Read
  <2>3. Executed(r, s) = With(old, s.set)
    BY <1>3 DEF Executed
  <2> HIDE DEF old
  <2>4. /\ With(old, s.set) \in UserRow
        /\ old.revoked => With(old, s.set).revoked
        /\ plan.mode = "api_key" => With(old, s.set).role = old.role
    BY <2>1, <2>2, UserWith
  <2>5. QED
    BY <2>2, <2>3, <2>4
<1>4. QED
  BY <1>2, <1>3

\* What r makes of a key it may change.
LEMMA ExecutedKey ==
  ASSUME IInv, NEW r \in Requests, NEW s, StatementInv(r, s), NEW k \in AnyKey, s.row = K(k),
         ~(s.insert /\ Read(r, s.row) # Absent)
  PROVE  /\ Executed(r, s) \in KeyRow
         /\ Expected(r, U(Executed(r, s).user))
         /\ rows[K(k)] # Absent => /\ rows[K(k)].revoked => Executed(r, s).revoked
                                   /\ Executed(r, s).user = rows[K(k)].user
<1> DEFINE old == Read(r, K(k))
<1>1. /\ rows[K(k)] # Absent => /\ rows[K(k)] \in KeyRow
                                /\ Expected(r, U(rows[K(k)].user))
      /\ K(k) \in DOMAIN mine[r] =>
           /\ mine[r][K(k)] \in KeyRow
           /\ Expected(r, U(mine[r][K(k)].user))
           /\ rows[K(k)] # Absent => /\ rows[K(k)].revoked => mine[r][K(k)].revoked
                                     /\ mine[r][K(k)].user = rows[K(k)].user
  BY DEF IInv, RowInv, RequestInv, KeyInv, Expected, Known
<1>2. CASE s.insert
  <2>1. s.set \in KeyRow /\ Executed(r, s) = s.set /\ Expected(r, U(s.set.user))
    BY <1>2 DEF StatementInv, Executed
  <2>2. rows[K(k)] = Absent
    BY <1>1, <1>2, NameAssumption DEF Read
  <2>3. QED
    BY <2>1, <2>2
<1>3. CASE ~s.insert
  <2>1. /\ Known(r, K(k)) /\ DOMAIN s.set \subseteq {"revoked"}
        /\ "revoked" \in DOMAIN s.set => s.set.revoked = TRUE
    BY <1>3 DEF StatementInv
  <2>2. /\ old \in KeyRow /\ Expected(r, U(old.user))
        /\ rows[K(k)] # Absent => /\ rows[K(k)].revoked => old.revoked
                                  /\ old.user = rows[K(k)].user
    BY <1>1, <2>1 DEF Known, Read
  <2>3. Executed(r, s) = With(old, s.set)
    BY <1>3 DEF Executed
  <2> HIDE DEF old
  <2>4. /\ With(old, s.set) \in KeyRow
        /\ old.revoked => With(old, s.set).revoked
        /\ With(old, s.set).user = old.user
    BY <2>1, <2>2, KeyWith
  <2>5. QED
    BY <2>2, <2>3, <2>4
<1>4. QED
  BY <1>2, <1>3

\* Write preserves IInv.
LEMMA WriteInv ==
  ASSUME IInv, NEW r \in Requests, Write(r), UNCHANGED <<plan, clock>>, Watch
  PROVE  IInv'
<1>1. CASE RollBack(r, "failed")
  BY <1>1, RollBackInv DEF Write
<1>2. CASE ~RollBack(r, "failed")
  <2>0. UserInv(r) /\ KeyInv(r) /\ TodoInv(r) /\ JwksInv(r) /\ phase[r] = "writing"
    BY DEF IInv, RequestInv, Write
  <2>1. IsSeq(todo[r]) /\ todo[r] # <<>>
    BY <2>0 DEF TodoInv
  <2>2. PICK s, rest : s = Head(todo[r]) /\ rest = Tail(todo[r])
    OBVIOUS
  <2>3. IsSeq(rest) /\ ToSet(todo[r]) = {s} \cup ToSet(rest)
    BY <2>1, <2>2, NextStatement
  <2>4. PICK v : v = Executed(r, s)
    OBVIOUS
  <2> DEFINE m == With(mine[r], [row \in {s.row} |-> v])
             p == IF rest = <<>> THEN then[r] ELSE "writing"
  <2>5. /\ owner[s.row] \in {Absent, r} /\ ~(s.insert /\ Read(r, s.row) # Absent)
        /\ mine' = [mine EXCEPT ![r] = m] /\ owner' = [owner EXCEPT ![s.row] = r]
        /\ todo' = [todo EXCEPT ![r] = rest] /\ phase' = [phase EXCEPT ![r] = p]
        /\ UNCHANGED <<rows, then, me, idpVars, expelled>>
    BY <1>2, <2>2, <2>4 DEF Write, Goto
  <2>6. /\ DOMAIN m = DOMAIN mine[r] \cup {s.row} /\ m[s.row] = v
        /\ \A row \in DOMAIN mine[r] : row # s.row => m[row] = mine[r][row]
    <3> DEFINE changed == [row \in {s.row} |-> v]
    <3>1. DOMAIN changed = {s.row} /\ changed[s.row] = v
      OBVIOUS
    <3> HIDE DEF changed
    <3>2. PICK before : before = mine[r]
      OBVIOUS
    <3>3. m = With(before, changed)
      BY <3>2 DEF changed
    <3> HIDE DEF m
    <3>4. /\ DOMAIN m = DOMAIN before \cup DOMAIN changed
          /\ \A x \in DOMAIN changed : m[x] = changed[x]
          /\ \A x \in DOMAIN before \ DOMAIN changed : m[x] = before[x]
      BY <3>3 DEF With
    <3>5. QED
      BY <3>1, <3>2, <3>4
  <2> HIDE DEF m
  <2>7. then[r] \in {"check", "keys", "committing"} /\ p \in Phase /\ p \notin Ended
        /\ (p = "writing" <=> rest # <<>>)
    BY DEF IInv, TypeOK, Phase, Ended
  <2> HIDE DEF p
  <2>8. /\ phase'[r] = p /\ todo'[r] = rest /\ mine'[r] = m
        /\ \A q \in Requests \ {r} : phase'[q] = phase[q] /\ todo'[q] = todo[q] /\ mine'[q] = mine[q]
    BY <2>5 DEF IInv, TypeOK, ShapeInv
  <2>9. Frame(r)
    BY <2>5, <2>8 DEF Frame, idpVars
  <2>10. StatementInv(r, s) /\ s.row \in Row
    BY <2>0, <2>3 DEF TodoInv, StatementInv
  <2>11. \A row : /\ Known(r, row) => Known(r, row)'
                  /\ Expected(r, row) => Expected(r, row)'
    BY <2>3, <2>5, <2>6, <2>8 DEF Known, Expected
  <2>12. TypeOK'
    <3>1. phase' \in [Requests -> Phase]
      BY <2>5, <2>7 DEF IInv, TypeOK
    <3>2. owner' \in [Row -> Requests \cup {Absent}]
      BY <2>5 DEF IInv, TypeOK
    <3>3. \A q \in Requests : DOMAIN mine'[q] \subseteq Row /\ \A t \in ToSet(todo'[q]) : t.row \in Row
      BY <2>3, <2>6, <2>8, <2>10 DEF IInv, TypeOK
    <3>4. ASSUME NEW row \in Row, NEW q \in Requests
          PROVE  owner'[row] = q <=> row \in DOMAIN mine'[q]
      <4>1. owner[row] = q <=> row \in DOMAIN mine[q]
        BY DEF IInv, TypeOK
      <4>2. owner'[row] = IF row = s.row THEN r ELSE owner[row]
        BY <2>5, <2>10 DEF IInv, TypeOK
      <4>3. q # r => owner[s.row] # q
        BY <2>5, NameAssumption
      <4>4. QED
        BY <2>6, <2>8, <4>1, <4>2, <4>3
    <3>5. \A q \in Requests : phase'[q] \in Ended => todo'[q] = <<>> /\ DOMAIN mine'[q] = {}
      BY <2>7, <2>8 DEF IInv, TypeOK
    <3>6. QED
      BY <2>5, <3>1, <3>2, <3>3, <3>4, <3>5 DEF IInv, TypeOK, idpVars
  <2>13. ShapeInv' /\ RowInv' /\ CacheInv'
    BY <2>5, WatchFacts DEF IInv, ShapeInv, RowInv, CacheInv, idpVars, Expelled
  <2>14. UserInv(r)'
    <3>1. ASSUME NEW u \in Users, U(u) \in DOMAIN m
          PROVE  /\ m[U(u)] \in UserRow
                 /\ rows[U(u)] # Absent =>
                      /\ rows[U(u)].revoked => m[U(u)].revoked
                      /\ plan.mode = "api_key" => m[U(u)].role = rows[U(u)].role
      <4>1. CASE U(u) = s.row
        BY <2>4, <2>5, <2>6, <2>10, <4>1, ExecutedUser
      <4>2. CASE U(u) # s.row
        BY <2>0, <2>6, <3>1, <4>2 DEF UserInv
      <4>3. QED
        BY <4>1, <4>2
    <3>2. QED
      BY <2>5, <2>8, <3>1 DEF UserInv
  <2>15. KeyInv(r)'
    <3>1. ASSUME NEW k \in AnyKey, K(k) \in DOMAIN m
          PROVE  /\ m[K(k)] \in KeyRow
                 /\ Expected(r, U(m[K(k)].user))
                 /\ rows[K(k)] # Absent => /\ rows[K(k)].revoked => m[K(k)].revoked
                                           /\ m[K(k)].user = rows[K(k)].user
      <4>1. CASE K(k) = s.row
        BY <2>4, <2>5, <2>6, <2>10, <4>1, ExecutedKey
      <4>2. CASE K(k) # s.row
        BY <2>0, <2>6, <3>1, <4>2 DEF KeyInv
      <4>3. QED
        BY <4>1, <4>2
    <3>2. QED
      BY <2>5, <2>8, <2>11, <3>1 DEF KeyInv
  <2>16. TodoInv(r)'
    <3>1. \A t \in ToSet(rest) : StatementInv(r, t)
      BY <2>0, <2>3 DEF TodoInv
    <3>2. \A t \in ToSet(rest) : StatementInv(r, t)'
      BY <2>11, <3>1 DEF StatementInv
    <3>3. QED
      BY <2>3, <2>7, <2>8, <3>2 DEF TodoInv
  <2>17. JwksInv(r)'
    BY <2>0, <2>5, <2>7, <2>8 DEF JwksInv, idpVars, p
  <2>18. DoorInv(r)'
    <3>1. then'[r] = then[r] /\ me' = me /\ jwks' = jwks /\ (p = "writing" \/ p = then[r])
      BY <2>5 DEF idpVars, p
    <3>2. CASE then[r] = "check"
      <4>1. AtDoor(r) /\ AtDoor(r)' /\ Live(r) /\ Live(r)'
        BY <2>0, <2>7, <2>8, <3>1, <3>2 DEF AtDoor, Live, Ended, Phase
      <4>2. ~Passed(r)' /\ ~Admitted(r)' /\ phase'[r] \in {"writing", "check"}
        BY <2>8, <3>1, <3>2 DEF Passed, Admitted
      <4>3. Token(r)' = Token(r) /\ Op(r)' = Op(r)
        BY DEF Token, Op
      <4>4. DoorInv(r)
        BY DEF IInv, RequestInv
      <4>5. QED
        BY <3>1, <4>1, <4>2, <4>3, <4>4, LiveDoor DEF DoorInv
    <3>3. CASE then[r] # "check"
      <4>1. Admitted(r) /\ phase'[r] \in {"keys", "writing", "committing"} /\ then'[r] # "check"
        BY <2>0, <2>7, <2>8, <3>1, <3>3 DEF Admitted
      <4>2. QED
        BY <2>0, <3>1, <4>1, GoOnDoor
    <3>4. QED
      BY <3>2, <3>3
  <2>19. RefusalInv(r)'
    <3>1. /\ then'[r] = then[r] /\ me' = me /\ gen' = gen /\ (p = "writing" \/ p = then[r])
          /\ Token(r)' = Token(r) /\ Op(r)' = Op(r)
      BY <2>5 DEF idpVars, p, Token, Op
    <3>2. /\ AtDoor(r)' => AtDoor(r)
          /\ phase'[r] \notin {"switch", "refused", "new"}
      BY <2>0, <2>7, <2>8, <3>1 DEF AtDoor
    <3>3. saw[r] \subseteq saw'[r]
      BY <2>0, <2>7, <2>8, <3>1, LiveDoor DEF Live, Ended
    <3>4. RefusalInv(r)
      BY DEF IInv, RequestInv
    <3>5. QED
      BY <2>0, <3>1, <3>2, <3>3, <3>4 DEF RefusalInv
  <2>20. QED
    BY <2>9, <2>12, <2>13, <2>14, <2>15, <2>16, <2>17, <2>18, <2>19, Assemble DEF RequestInv
<1>3. QED
  BY <1>1, <1>2

\* What a commit makes of the rows: mine where I have changed them.
LEMMA CommitRows ==
  ASSUME IInv, NEW r \in Requests, phase[r] = "committing", rows' = With(rows, mine[r]),
         expelled' = expelled \cup {row \in DOMAIN mine[r] : Revoked(mine[r][row])}
  PROVE  /\ DOMAIN rows' = Row /\ expelled' \subseteq Row
         /\ \A row \in DOMAIN mine[r] : rows'[row] = mine[r][row]
         /\ \A row \in Row \ DOMAIN mine[r] : rows'[row] = rows[row]
         /\ \A row \in Account : rows[row] # Absent => rows'[row] # Absent
         /\ \A row \in Account : Known(r, row) => rows'[row] # Absent
         /\ \A k \in AnyKey : rows[K(k)] # Absent => rows'[K(k)].user = rows[K(k)].user
         /\ \A u \in Users : rows[U(u)] # Absent /\ plan.mode = "api_key" =>
                               rows'[U(u)].role = rows[U(u)].role
<1>1. DOMAIN rows = Row /\ DOMAIN mine[r] \subseteq Row /\ expelled \subseteq Row
  BY DEF IInv, TypeOK
<1>2. UserInv(r) /\ KeyInv(r)
  BY DEF IInv, RequestInv
<1>3. /\ DOMAIN rows' = Row
      /\ \A row \in DOMAIN mine[r] : rows'[row] = mine[r][row]
      /\ \A row \in Row \ DOMAIN mine[r] : rows'[row] = rows[row]
  BY <1>1 DEF With
<1>4. \A u \in Users : U(u) \in Row /\ (U(u) \in DOMAIN mine[r] => mine[r][U(u)] # Absent)
  BY <1>2, NameAssumption, RowNames DEF UserInv
<1>5. \A k \in AnyKey : K(k) \in Row /\ (K(k) \in DOMAIN mine[r] => mine[r][K(k)] # Absent)
  BY <1>2, NameAssumption, RowNames DEF KeyInv
<1>6. \A row \in Account : row \in Row /\ (row \in DOMAIN mine[r] => mine[r][row] # Absent)
  BY <1>4, <1>5 DEF Account
<1>7. /\ \A row \in Account : rows[row] # Absent => rows'[row] # Absent
      /\ \A row \in Account : Known(r, row) => rows'[row] # Absent
  BY <1>3, <1>6 DEF Known
<1>8. \A k \in AnyKey : rows[K(k)] # Absent => rows'[K(k)].user = rows[K(k)].user
  BY <1>2, <1>3, <1>5 DEF KeyInv
<1>9. \A u \in Users : rows[U(u)] # Absent /\ plan.mode = "api_key" =>
                         rows'[U(u)].role = rows[U(u)].role
  BY <1>2, <1>3, <1>4 DEF UserInv
<1>10. QED
  BY <1>1, <1>3, <1>7, <1>8, <1>9

\* Commit preserves IInv.
LEMMA CommitInv ==
  ASSUME IInv, NEW r \in Requests, Commit(r), UNCHANGED <<plan, clock>>, Watch
  PROVE  IInv'
<1>1. /\ phase[r] = "committing" /\ rows' = With(rows, mine[r])
      /\ expelled' = expelled \cup {row \in DOMAIN mine[r] : Revoked(mine[r][row])}
      /\ phase \in [Requests -> Phase] /\ phase' = [phase EXCEPT ![r] = "done"]
      /\ todo' = [todo EXCEPT ![r] = <<>>] /\ mine' = [mine EXCEPT ![r] = <<>>]
      /\ me' = [me EXCEPT ![r] = Nobody] /\ then' = then /\ owner' = Released(r)
      /\ UNCHANGED idpVars
  BY DEF IInv, TypeOK, Goto, Commit, End
<1>2. /\ phase'[r] = "done" /\ todo'[r] = <<>> /\ mine'[r] = <<>> /\ me'[r] = Nobody
      /\ \A q \in Requests \ {r} : /\ phase'[q] = phase[q] /\ todo'[q] = todo[q]
                                   /\ mine'[q] = mine[q] /\ me'[q] = me[q]
  BY <1>1 DEF IInv, ShapeInv
<1>3. /\ DOMAIN rows' = Row /\ expelled' \subseteq Row /\ expelled \subseteq expelled'
      /\ \A row \in DOMAIN mine[r] : rows'[row] = mine[r][row]
      /\ \A row \in Row \ DOMAIN mine[r] : rows'[row] = rows[row]
      /\ \A row \in Account : rows[row] # Absent => rows'[row] # Absent
      /\ \A row \in Account : Known(r, row) => rows'[row] # Absent
      /\ \A k \in AnyKey : rows[K(k)] # Absent => rows'[K(k)].user = rows[K(k)].user
      /\ \A u \in Users : rows[U(u)] # Absent /\ plan.mode = "api_key" =>
                            rows'[U(u)].role = rows[U(u)].role
  BY <1>1, CommitRows
<1>4. Frame(r)
  BY <1>1, <1>2, <1>3 DEF Frame, idpVars
<1>5. DOMAIN <<>> = {} /\ ToSet(<<>>) = {} /\ IsSeq(<<>>)
  BY NoStatement, Zenon DEF ToSet
<1>6. TypeOK'
  <2>1. owner' \in [Row -> Requests \cup {Absent}]
    BY <1>1 DEF IInv, TypeOK, Released
  <2>2. \A row \in Row, q \in Requests : owner'[row] = q <=> row \in DOMAIN mine'[q]
    BY <1>1, <1>2, <1>5, NameAssumption DEF IInv, TypeOK, Released
  <2>3. \A q \in Requests : phase'[q] \in Ended => todo'[q] = <<>> /\ DOMAIN mine'[q] = {}
    BY <1>2, <1>5 DEF IInv, TypeOK
  <2>4. \A q \in Requests : DOMAIN mine'[q] \subseteq Row /\ \A s \in ToSet(todo'[q]) : s.row \in Row
    BY <1>2, <1>5 DEF IInv, TypeOK
  <2>5. \A q \in Requests : me'[q].role \in Role /\ me'[q].revoked \in BOOLEAN
    <3>1. Nobody.role \in Role /\ Nobody.revoked \in BOOLEAN
      BY DEF Nobody, Role
    <3>2. \A q \in Requests : me[q].role \in Role /\ me[q].revoked \in BOOLEAN
      BY DEF IInv, TypeOK
    <3>3. QED
      BY <1>2, <3>1, <3>2
  <2>6. phase' \in [Requests -> Phase]
    BY <1>1 DEF Phase
  <2>7. QED
    BY <1>1, <1>3, <2>1, <2>2, <2>3, <2>4, <2>5, <2>6 DEF IInv, TypeOK, idpVars
<1>7. ShapeInv' /\ CacheInv'
  <2>1. Nobody \in [user : Users \cup {Absent}, role : Role, revoked : BOOLEAN]
    BY DEF Nobody, Role
  <2>2. QED
    BY <1>1, <2>1, WatchFacts DEF IInv, ShapeInv, CacheInv, idpVars
<1>8. RowInv'
  <2>1. UserInv(r) /\ KeyInv(r) /\ RowInv
    BY DEF IInv, RequestInv
  <2>2. todo[r] = <<>>
    BY <1>1 DEF IInv, RequestInv, TodoInv
  <2>3. \A row : Expected(r, row) => Known(r, row)
    BY <1>5, <2>2 DEF Expected
  <2>4. ASSUME NEW u \in Users
        PROVE  /\ rows'[U(u)] \in UserRow \cup {Absent}
               /\ U(u) \in expelled' <=> rows'[U(u)] # Absent /\ rows'[U(u)].revoked
    <3>1. U(u) \in Row /\ U(u) \in Account
      BY RowNames DEF Account
    <3>2. CASE U(u) \in DOMAIN mine[r]
      <4>1. rows'[U(u)] = mine[r][U(u)] /\ mine[r][U(u)] \in UserRow
        BY <1>3, <2>1, <3>2 DEF UserInv
      <4>2. U(u) \in expelled => rows[U(u)] # Absent /\ rows[U(u)].revoked
        BY <2>1 DEF RowInv, Expelled
      <4>3. U(u) \in expelled' => mine[r][U(u)].revoked
        BY <1>1, <2>1, <3>2, <4>2 DEF UserInv, Revoked
      <4>4. mine[r][U(u)].revoked => U(u) \in expelled'
        BY <1>1, <3>2, <4>1 DEF Revoked, UserRow
      <4>5. QED
        BY <4>1, <4>3, <4>4, NameAssumption
    <3>3. CASE U(u) \notin DOMAIN mine[r]
      BY <1>1, <1>3, <2>1, <3>1, <3>3 DEF RowInv, Expelled
    <3>4. QED
      BY <3>2, <3>3
  <2>5. ASSUME NEW k \in AnyKey
        PROVE  /\ rows'[K(k)] # Absent => /\ rows'[K(k)] \in KeyRow
                                          /\ rows'[U(rows'[K(k)].user)] # Absent
               /\ K(k) \in expelled' <=> rows'[K(k)] # Absent /\ rows'[K(k)].revoked
    <3>1. K(k) \in Row /\ K(k) \in Account
      BY RowNames DEF Account
    <3>2. CASE K(k) \in DOMAIN mine[r]
      <4>1. rows'[K(k)] = mine[r][K(k)] /\ mine[r][K(k)] \in KeyRow
        BY <1>3, <2>1, <3>2 DEF KeyInv
      <4>2. Known(r, U(mine[r][K(k)].user))
        BY <2>1, <2>3, <3>2 DEF KeyInv
      <4>3. U(mine[r][K(k)].user) \in Account
        BY <4>1 DEF KeyRow, Account
      <4>4. K(k) \in expelled => rows[K(k)] # Absent /\ rows[K(k)].revoked
        BY <2>1 DEF RowInv, Expelled
      <4>5. K(k) \in expelled' => mine[r][K(k)].revoked
        BY <1>1, <2>1, <3>2, <4>4 DEF KeyInv, Revoked
      <4>6. mine[r][K(k)].revoked => K(k) \in expelled'
        BY <1>1, <3>2, <4>1 DEF Revoked, KeyRow
      <4>7. QED
        BY <1>3, <4>1, <4>2, <4>3, <4>5, <4>6, NameAssumption
    <3>3. CASE K(k) \notin DOMAIN mine[r]
      <4>1. rows'[K(k)] = rows[K(k)] /\ (K(k) \in expelled' <=> K(k) \in expelled)
        BY <1>1, <1>3, <3>1, <3>3
      <4>2. rows[K(k)] # Absent => U(rows[K(k)].user) \in Account /\ rows[U(rows[K(k)].user)] # Absent
        BY <2>1 DEF RowInv, KeyRow, Account
      <4>3. QED
        BY <1>3, <2>1, <4>1, <4>2 DEF RowInv, Expelled
    <3>4. QED
      BY <3>2, <3>3
  <2>6. QED
    BY <2>4, <2>5 DEF RowInv, Expelled
<1>9. UserInv(r)' /\ KeyInv(r)' /\ TodoInv(r)'
  BY <1>2, <1>5 DEF UserInv, KeyInv, TodoInv
<1>10. JwksInv(r)' /\ DoorInv(r)' /\ RefusalInv(r)'
  <2>1. JwksInv(r) /\ DoorInv(r)
    BY DEF IInv, RequestInv
  <2>2. JwksInv(r)'
    BY <1>1, <1>2, <2>1 DEF JwksInv, idpVars
  <2>3. /\ ~Live(r)' /\ ~AtDoor(r)' /\ Admitted(r) /\ Passed(r)
        /\ saw[r] \subseteq saw'[r]
    BY <1>1, <1>2, WatchFacts DEF Live, AtDoor, Passed, Admitted, Ended
  <2>4. Token(r)' = Token(r) /\ Op(r)' = Op(r) /\ jwks' = jwks
    BY <1>1 DEF Token, Op, idpVars
  <2>5. DoorInv(r)'
    BY <1>1, <1>2, <2>1, <2>2, <2>3, <2>4 DEF DoorInv
  <2>6. RefusalInv(r)'
    BY <1>1, <1>2, <2>3, OwnRefusal DEF idpVars
  <2>7. QED
    BY <2>2, <2>5, <2>6
<1>11. QED
  BY <1>4, <1>6, <1>7, <1>8, <1>9, <1>10, Assemble DEF RequestInv

-----------------------------------------------------------------------------
(* Time, and the keys of the identity provider. *)

\* A step of the world leaves requests and rows alone.
LEMMA WorldInv ==
  ASSUME IInv, Watch, UNCHANGED <<plan, rows, owner, phase, txVars, cache, jwks, expelled>>,
         clock' \in 0..plan.until, clock <= clock', gen' \in Nat, gen <= gen', gen' <= MaxGen,
         retiredAt' \in Seq(Nat), Len(retiredAt') = gen' - 1,
         \A i \in 1..(gen - 1) : retiredAt'[i] = retiredAt[i],
         CacheInv', \A r \in Requests : JwksInv(r)'
  PROVE  IInv'
<1>1. then' = then /\ todo' = todo /\ mine' = mine /\ me' = me
  BY DEF txVars
<1>2. gen \in 1..MaxGen /\ MaxGen \in Nat
  BY NumberAssumption DEF IInv, TypeOK
<1>3. TypeOK'
  BY <1>1, <1>2 DEF IInv, TypeOK
<1>4. ShapeInv' /\ RowInv'
  BY <1>1, WatchFacts DEF IInv, ShapeInv, RowInv, Expelled
<1>5. ASSUME NEW r \in Requests
      PROVE  UserInv(r)' /\ KeyInv(r)' /\ TodoInv(r)'
  <2>1. UserInv(r) /\ KeyInv(r) /\ TodoInv(r)
    BY DEF IInv, RequestInv
  <2>2. \A row : (Known(r, row) <=> Known(r, row)') /\ (Expected(r, row) <=> Expected(r, row)')
    BY <1>1 DEF Known, Expected
  <2>3. UserInv(r)'
    BY <1>1, <2>1 DEF UserInv
  <2>4. KeyInv(r)'
    BY <1>1, <2>1, <2>2 DEF KeyInv
  <2>5. \A s \in ToSet(todo[r]) : StatementInv(r, s)'
    BY <1>1, <2>1, <2>2 DEF TodoInv, StatementInv
  <2>6. QED
    BY <1>1, <2>1, <2>3, <2>4, <2>5 DEF TodoInv
<1>6. ASSUME NEW r \in Requests
      PROVE  DoorInv(r)'
  <2>1. DoorInv(r)
    BY DEF IInv, RequestInv
  <2>2. /\ AtDoor(r)' <=> AtDoor(r)
        /\ Passed(r)' <=> Passed(r)
        /\ Admitted(r)' <=> Admitted(r)
        /\ Live(r)' <=> Live(r)
        /\ Token(r)' = Token(r) /\ Op(r)' = Op(r)
    BY <1>1 DEF AtDoor, Passed, Admitted, Live, Token, Op
  <2>3. Live(r)' => Circumstances(r)' \subseteq saw'[r]
    BY WatchFacts
  <2>4. phase[r] \in {"user", "fetching"} \/ AtDoor(r) \/ Passed(r) => saw[r] \subseteq saw'[r]
    BY <2>2, WatchFacts DEF AtDoor, Passed, Admitted, Live, Ended
  <2>5. Admitted(r) => Passed(r)
    BY DEF Passed
  <2>6. QED
    BY <1>1, <2>1, <2>2, <2>3, <2>4, <2>5 DEF DoorInv, Expelled
<1>7. ASSUME NEW r \in Requests
      PROVE  RefusalInv(r)'
  <2>1. RefusalInv(r)
    BY DEF IInv, RequestInv
  <2>2. /\ AtDoor(r)' <=> AtDoor(r)
        /\ Token(r)' = Token(r) /\ Op(r)' = Op(r)
    BY <1>1 DEF AtDoor, Token, Op
  <2>3. AtDoor(r) \/ phase[r] = "refused" => saw[r] \subseteq saw'[r]
    BY <2>2, WatchFacts DEF AtDoor, Live, Ended
  <2>4. /\ gen \in Nat /\ gen' \in Nat /\ jwks[r].gen \in Nat
        /\ plan.mode = "oidc" => Token(r).gen \in Nat
    BY <1>2, PlanFacts DEF IInv, ShapeInv
  <2>5. phase[r] = "refused" /\ KeyUnknown(r) => KeyUnknown(r)'
    <3>1. SUFFICES ASSUME phase[r] = "refused", KeyUnknown(r)
                   PROVE  KeyUnknown(r)'
      OBVIOUS
    <3>2. plan.mode = "oidc" /\ jwks[r].gen # 0 /\ Token(r).gen <= gen
      BY <2>1, <3>1 DEF KeyUnknown, RefusalInv
    <3>3. Token(r).gen > jwks[r].gen => jwks[r].gen \in 1..(gen - 1)
      BY <2>4, <3>1, <3>2
    <3>4. QED
      BY <2>2, <3>1, <3>3 DEF KeyUnknown
  <2>6. phase[r] = "refused" => Reason(r)'
    BY <1>1, <2>1, <2>2, <2>3, <2>5 DEF RefusalInv, Reason, NoKeySet
  <2>7. phase[r] # "new" /\ plan.mode = "oidc" => Token(r).gen <= gen'
    BY <2>1, <2>4 DEF RefusalInv
  <2>8. QED
    BY <1>1, <2>1, <2>2, <2>3, <2>6, <2>7 DEF RefusalInv
<1>8. QED
  BY <1>3, <1>4, <1>5, <1>6, <1>7 DEF IInv, RequestInv

\* Tick preserves IInv.
LEMMA TickInv ==
  ASSUME IInv, Tick
  PROVE  IInv'
<1>1. /\ clock' = clock + 1 /\ clock < plan.until /\ plan.until \in Nat /\ clock \in Nat /\ gen \in Nat
      /\ UNCHANGED <<plan, rows, owner, phase, txVars, gen, retiredAt, cache, jwks, expelled>> /\ Watch
  BY PlanAssumption, RetiredType DEF Tick, IInv, TypeOK, idpVars
<1>2. retiredAt \in Seq(Nat) /\ Len(retiredAt) = gen - 1 /\ gen <= MaxGen
  BY NumberAssumption DEF IInv, TypeOK
<1>3. cache.stamp \in Nat /\ \A r \in Requests : jwks[r].at \in Nat
  BY DEF IInv, ShapeInv
<1>4. CacheInv'
  BY <1>1, <1>3 DEF IInv, CacheInv
<1>5. \A r \in Requests : JwksInv(r)'
  BY <1>1, <1>3 DEF IInv, RequestInv, JwksInv
<1>6. QED
  BY <1>1, <1>2, <1>4, <1>5, WorldInv

\* Rotate preserves IInv.
LEMMA RotateInv ==
  ASSUME IInv, Rotate
  PROVE  IInv'
<1>1. /\ gen' = gen + 1 /\ retiredAt' = Append(retiredAt, clock) /\ gen < MaxGen
      /\ UNCHANGED <<plan, rows, owner, phase, txVars, clock, cache, jwks, expelled>> /\ Watch
  BY DEF Rotate
<1>2. /\ gen \in Nat \ {0} /\ MaxGen \in Nat /\ TTL \in Nat \ {0} /\ clock \in Nat /\ clock \in 0..plan.until
      /\ retiredAt \in Seq(Nat) /\ Len(retiredAt) = gen - 1
  BY NumberAssumption, RetiredType DEF IInv, TypeOK
<1>3. /\ retiredAt' \in Seq(Nat) /\ Len(retiredAt') = gen
      /\ retiredAt'[gen] = clock /\ \A i \in 1..(gen - 1) : retiredAt'[i] = retiredAt[i]
  BY <1>1, <1>2
<1>4. /\ cache.stamp \in Nat /\ cache.gen \in 0..gen
      /\ \A r \in Requests : jwks[r].at \in Nat /\ jwks[r].gen \in 0..gen
  BY DEF IInv, TypeOK, ShapeInv
<1>5. CacheInv'
  <2>1. cache.gen # 0 => /\ cache.stamp <= clock
                         /\ cache.gen < gen => cache.stamp <= retiredAt[cache.gen]
    BY DEF IInv, CacheInv
  <2>2. cache.gen # 0 /\ cache.gen < gen => cache.gen \in 1..(gen - 1)
    BY <1>2, <1>4
  <2>3. cache.gen # 0 => cache.stamp <= retiredAt'[cache.gen]
    BY <1>2, <1>3, <1>4, <2>1, <2>2
  <2>4. QED
    BY <1>1, <2>1, <2>3 DEF CacheInv
<1>6. ASSUME NEW r \in Requests
      PROVE  JwksInv(r)'
  <2>1. /\ jwks[r].at <= clock
        /\ jwks[r].gen # 0 /\ jwks[r].gen < gen => jwks[r].at < retiredAt[jwks[r].gen] + TTL
        /\ phase[r] \in {"fetched", "token"} => jwks[r].gen # 0
        /\ phase[r] = "fetching" => jwks[r].gen = 0
        /\ phase[r] = "fetched" /\ jwks[r].gen < gen => jwks[r].at <= retiredAt[jwks[r].gen]
    BY DEF IInv, RequestInv, JwksInv
  <2>2. jwks[r].gen # 0 /\ jwks[r].gen < gen => jwks[r].gen \in 1..(gen - 1)
    BY <1>2, <1>4
  <2>3. jwks[r].gen # 0 /\ jwks[r].gen < gen => retiredAt'[jwks[r].gen] = retiredAt[jwks[r].gen]
    BY <1>3, <2>2
  <2>4. jwks[r].gen = gen => retiredAt'[jwks[r].gen] = clock /\ jwks[r].at < clock + TTL
    BY <1>2, <1>3, <1>4, <2>1
  <2>5. jwks[r].gen < gen \/ jwks[r].gen = gen
    BY <1>2, <1>4
  <2>6. /\ jwks[r].gen # 0 => jwks[r].at < retiredAt'[jwks[r].gen] + TTL
        /\ phase[r] = "fetched" => jwks[r].at <= retiredAt'[jwks[r].gen]
    BY <2>1, <2>3, <2>4, <2>5
  <2>7. QED
    BY <1>1, <2>1, <2>6 DEF JwksInv
<1>7. QED
  BY <1>1, <1>2, <1>3, <1>5, <1>6, WorldInv

-----------------------------------------------------------------------------
(* The theorems. *)

\* Init establishes IInv.
LEMMA InitIInv ==
  ASSUME Init
  PROVE  IInv
<1>1. /\ plan \in Plans /\ rows = plan.rows /\ owner = [row \in Row |-> Absent]
      /\ phase = [r \in Requests |-> "new"] /\ then = [r \in Requests |-> "check"]
      /\ todo = [r \in Requests |-> <<>>] /\ mine = [r \in Requests |-> <<>>]
      /\ me = [r \in Requests |-> Nobody] /\ clock = 0 /\ gen = 1 /\ retiredAt = <<>>
      /\ cache = [gen |-> 0, stamp |-> 0] /\ jwks = [r \in Requests |-> [gen |-> 0, at |-> 0]]
      /\ saw = [r \in Requests |-> {}]
      /\ expelled = {row \in Row : rows[row] # Absent /\ Revoked(rows[row])}
  BY DEF Init
<1>2. /\ plan.until \in Nat /\ DOMAIN rows = Row
      /\ \A u \in Users : rows[U(u)] \in UserRow \cup {Absent}
      /\ \A k \in AnyKey :
           rows[K(k)] # Absent => rows[K(k)] \in KeyRow /\ rows[U(rows[K(k)].user)] # Absent
  BY <1>1, PlanAssumption DEF AnyKey
<1>3. DOMAIN <<>> = {} /\ ToSet(<<>>) = {} /\ IsSeq(<<>>)
  BY NoStatement, Zenon DEF ToSet
<1>4. Nobody \in [user : Users \cup {Absent}, role : Role, revoked : BOOLEAN]
  BY DEF Nobody, Role
<1>5. \A r \in Requests : /\ phase[r] = "new" /\ then[r] = "check" /\ todo[r] = <<>>
                          /\ mine[r] = <<>> /\ me[r] = Nobody /\ saw[r] = {}
                          /\ jwks[r].gen = 0 /\ jwks[r].at = 0
  BY <1>1
<1>6. TypeOK
  <2>1. owner \in [Row -> Requests \cup {Absent}] /\ phase \in [Requests -> Phase]
        /\ then \in [Requests -> {"check", "keys", "committing"}]
    BY <1>1 DEF Phase
  <2>2. \A row \in Row, r \in Requests : owner[row] = r <=> row \in DOMAIN mine[r]
    BY <1>1, <1>3, <1>5, NameAssumption
  <2>3. \A r \in Requests : DOMAIN mine[r] \subseteq Row /\ \A s \in ToSet(todo[r]) : s.row \in Row
    BY <1>3, <1>5
  <2>4. \A r \in Requests : phase[r] \in Ended => todo[r] = <<>> /\ DOMAIN mine[r] = {}
    BY <1>3, <1>5
  <2>5. \A r \in Requests : me[r].role \in Role /\ me[r].revoked \in BOOLEAN
    BY <1>4, <1>5
  <2>6. /\ clock \in 0..plan.until /\ gen \in 1..MaxGen /\ retiredAt \in Seq(Nat)
        /\ Len(retiredAt) = gen - 1 /\ cache.gen \in 0..gen
        /\ \A r \in Requests : jwks[r].gen \in 0..gen
    BY <1>1, <1>2, <1>5, NumberAssumption
  <2>7. expelled \subseteq Row
    BY <1>1
  <2>8. QED
    BY <1>1, <1>2, <2>1, <2>2, <2>3, <2>4, <2>5, <2>6, <2>7 DEF TypeOK
<1>7. ShapeInv
  BY <1>1, <1>4 DEF ShapeInv
<1>8. RowInv
  <2>1. \A row \in Row : Expelled(row) <=> rows[row] # Absent /\ Revoked(rows[row])
    BY <1>1 DEF Expelled
  <2>2. \A u \in Users : U(u) \in Row /\ (rows[U(u)] # Absent => (Revoked(rows[U(u)]) <=> rows[U(u)].revoked))
    BY <1>2, RowNames DEF UserRow, Revoked
  <2>3. \A k \in AnyKey : K(k) \in Row /\ (rows[K(k)] # Absent => (Revoked(rows[K(k)]) <=> rows[K(k)].revoked))
    BY <1>2, RowNames DEF KeyRow, Revoked
  <2>4. QED
    BY <1>2, <2>1, <2>2, <2>3 DEF RowInv
<1>9. CacheInv
  BY <1>1 DEF CacheInv
<1>10. ASSUME NEW r \in Requests
       PROVE  RequestInv(r)
  <2>1. UserInv(r) /\ KeyInv(r) /\ TodoInv(r)
    BY <1>3, <1>5 DEF UserInv, KeyInv, TodoInv
  <2>2. JwksInv(r)
    BY <1>1, <1>5 DEF JwksInv
  <2>3. ~Live(r) /\ ~AtDoor(r) /\ ~Passed(r) /\ ~Admitted(r)
    BY <1>5 DEF Live, AtDoor, Passed, Admitted
  <2>4. DoorInv(r)
    BY <1>5, <2>3 DEF DoorInv
  <2>5. RefusalInv(r)
    BY <1>5, <2>3 DEF RefusalInv
  <2>6. QED
    BY <2>1, <2>2, <2>4, <2>5 DEF RequestInv
<1>11. QED
  BY <1>6, <1>7, <1>8, <1>9, <1>10 DEF IInv

\* A step that changes nothing preserves IInv.
LEMMA StutterInv ==
  ASSUME IInv, UNCHANGED vars
  PROVE  IInv'
<1>1. /\ UNCHANGED <<plan, rows, owner, phase, then, todo, mine, me, clock, gen, retiredAt>>
      /\ UNCHANGED <<cache, jwks, saw, expelled>>
  BY DEF vars, txVars, idpVars
<1>2. TypeOK' /\ ShapeInv' /\ RowInv' /\ CacheInv'
  BY <1>1 DEF IInv, TypeOK, ShapeInv, RowInv, CacheInv, Expelled
<1>3. ASSUME NEW r \in Requests
      PROVE  RequestInv(r)'
  <2>1. UserInv(r) /\ KeyInv(r) /\ TodoInv(r) /\ JwksInv(r) /\ DoorInv(r)
        /\ RefusalInv(r)
    BY DEF IInv, RequestInv
  <2>2. \A row : (Known(r, row) <=> Known(r, row)') /\ (Expected(r, row) <=> Expected(r, row)')
    BY <1>1 DEF Known, Expected
  <2>3. UserInv(r)' /\ JwksInv(r)'
    BY <1>1, <2>1 DEF UserInv, JwksInv
  <2>4. KeyInv(r)'
    BY <1>1, <2>1, <2>2 DEF KeyInv
  <2>5. \A s \in ToSet(todo[r]) : StatementInv(r, s)'
    BY <1>1, <2>1, <2>2 DEF TodoInv, StatementInv
  <2>6. TodoInv(r)'
    BY <1>1, <2>1, <2>5 DEF TodoInv
  <2>7. /\ AtDoor(r)' <=> AtDoor(r)
        /\ Passed(r)' <=> Passed(r)
        /\ Admitted(r)' <=> Admitted(r)
        /\ Live(r)' <=> Live(r)
        /\ Token(r)' = Token(r) /\ Op(r)' = Op(r)
    BY <1>1 DEF AtDoor, Passed, Admitted, Live, Token, Op
  <2>8. Circumstances(r)' = Circumstances(r)
    BY <1>1 DEF Circumstances, FreshJwks, Fit, Entitled, Expelled, SwitchOn, InEngagement, IsActive,
                TargetInScope, Token, Op
  <2>9. DoorInv(r)'
    BY <1>1, <2>1, <2>7, <2>8 DEF DoorInv, Expelled
  <2>10. KeyUnknown(r)' <=> KeyUnknown(r)
    BY <1>1, <2>7 DEF KeyUnknown
  <2>11. RefusalInv(r)'
    BY <1>1, <2>1, <2>7, <2>10 DEF RefusalInv, Reason, NoKeySet
  <2>12. QED
    BY <2>3, <2>4, <2>6, <2>9, <2>11 DEF RequestInv
<1>4. QED
  BY <1>2, <1>3 DEF IInv

\* Every step preserves IInv.
LEMMA NextIInv ==
  ASSUME IInv, [Next]_vars
  PROVE  IInv'
<1>1. CASE Tick
  BY <1>1, TickInv
<1>2. CASE Rotate
  BY <1>2, RotateInv
<1>3. ASSUME NEW r \in Requests, Step(r)
      PROVE  IInv'
  <2>1. UNCHANGED <<plan, clock>> /\ Watch
    BY <1>3 DEF Step
  <2>2. CASE Arrive(r)
    BY <2>1, <2>2, ArriveInv
  <2>3. CASE FindKey(r)
    BY <2>1, <2>3, FindKeyInv
  <2>4. CASE LoadUser(r)
    BY <2>1, <2>4, LoadUserInv
  <2>5. CASE AskJwks(r)
    BY <2>1, <2>5, AskJwksInv
  <2>6. CASE IdpAnswers(r)
    BY <2>1, <2>6, IdpAnswersInv
  <2>7. CASE StoreJwks(r)
    BY <2>1, <2>7, StoreJwksInv
  <2>8. CASE Login(r)
    BY <2>1, <2>8, LoginInv
  <2>9. CASE Check(r)
    BY <2>1, <2>9, CheckInv
  <2>10. CASE CheckSwitch(r)
    BY <2>1, <2>10, CheckSwitchInv
  <2>11. CASE Body(r)
    BY <2>1, <2>11, BodyInv
  <2>12. CASE RevokeKeys(r)
    BY <2>1, <2>12, RevokeKeysInv
  <2>13. CASE Write(r)
    BY <2>1, <2>13, WriteInv
  <2>14. CASE Commit(r)
    BY <2>1, <2>14, CommitInv
  <2>15. CASE BreakDeadlock(r)
    BY <2>1, <2>15, RollBackInv DEF BreakDeadlock, Deadlocked, Blocker
  <2>16. CASE IdpFails(r)
    BY <2>1, <2>16, IdpFailsInv
  <2>17. QED
    BY <1>3, <2>2, <2>3, <2>4, <2>5, <2>6, <2>7, <2>8, <2>9, <2>10, <2>11, <2>12, <2>13, <2>14,
       <2>15, <2>16 DEF Step
<1>4. ASSUME NEW r \in Requests, Abort(r)
      PROVE  IInv'
  BY <1>4, RollBackInv DEF Abort
<1>5. CASE UNCHANGED vars
  BY <1>5, StutterInv
<1>6. QED
  BY <1>1, <1>2, <1>3, <1>4, <1>5 DEF Next

\* The invariant holds always.
LEMMA IInvHolds == Spec => []IInv
<1>1. Init => IInv
  BY InitIInv
<1>2. IInv /\ [Next]_vars => IInv'
  BY NextIInv
<1>3. QED
  BY <1>1, <1>2, PTL DEF Spec

\* Whatever requests are made, their state is well formed; a row is locked by the one
\* transaction that has changed it, and a request that has ended holds none (sync_session).
THEOREM TypeCorrect == Spec => []TypeOK
<1>1. IInv => TypeOK
  BY DEF IInv
<1>2. QED
  BY <1>1, IInvHolds, PTL

\* Nobody is served who was unfit all the time since the request arrived, no query all the
\* time under the kill switch, no job of a dual-use connector all the time outside its
\* engagement, and no token longer than the cache's time to live after its key was retired.
THEOREM ServiceIsForTheFit == Spec => []OnlyTheFitAreServed
<1>1. ASSUME IInv
      PROVE  OnlyTheFitAreServed
  <2>1. ASSUME NEW r \in Requests, Admitted(r)
        PROVE  /\ "fit" \in saw[r]
               /\ Op(r).name = "query" => "calm" \in saw[r]
               /\ Op(r).name = "run" /\ phase[r] \in {"writing", "committing", "done"} =>
                    "sanctioned" \in saw[r]
               /\ plan.mode = "oidc" /\ Token(r).gen < gen =>
                    jwks[r].at < retiredAt[Token(r).gen] + TTL
    <3>1. Passed(r) /\ DoorInv(r) /\ JwksInv(r)
      BY <1>1, <2>1 DEF IInv, RequestInv, Passed
    <3>2. plan.mode = "oidc" => Token(r).gen \in Nat \ {0}
      BY <1>1, PlanFacts
    <3>3. plan.mode = "oidc" => Token(r).gen = jwks[r].gen
      BY <3>1 DEF DoorInv
    <3>4. plan.mode = "oidc" /\ Token(r).gen < gen => jwks[r].at < retiredAt[Token(r).gen] + TTL
      BY <3>1, <3>2, <3>3 DEF JwksInv
    <3>5. QED
      BY <2>1, <3>1, <3>4 DEF DoorInv
  <2>2. QED
    BY <2>1 DEF OnlyTheFitAreServed
<1>2. QED
  BY <1>1, IInvHolds, PTL

\* Whoever is refused was unfit, under the kill switch or outside the engagement at some
\* moment since the request arrived, came with a key that is in no key set of the time, or met
\* a failing identity provider (oidc_auth.py answers that as it answers a bad token) while no
\* fresh key set was cached: neither a race nor other requests' failures refuse anybody.
THEOREM RefusalIsForTheUnfit == Spec => []OnlyTheUnfitAreRefused
<1>1. IInv => OnlyTheUnfitAreRefused
  BY DEF IInv, RequestInv, RefusalInv, Reason, OnlyTheUnfitAreRefused
<1>2. QED
  BY <1>1, IInvHolds, PTL
=============================================================================
