------------------------- MODULE EntityGraphProofs -------------------------
(***************************************************************************)
(* Safety of EntityGraph for any documents, names, scores, reviewers,      *)
(* passes, thresholds and fault budget.  Three invariants build on each    *)
(* other: what sessions hold is well formed and mirrored (IInv), what they *)
(* bring together belongs together (NameInv), and what they are about to   *)
(* write takes nothing away from a document that is settled (FactInv).     *)
(***************************************************************************)
EXTENDS EntityGraph, FiniteSetTheorems, TLAPS

\* e was made for a mention there is.
Valid(e) == e \in Entity /\ e.pos \in DOMAIN Text[e.doc]

\* r is about two entities.
Pair(r) == Valid(r.a) /\ Valid(r.b) /\ r.a # r.b

Fields == {"session", "dirty", "chosen", "draft", "queued", "into", "seen", "pairs", "decided"}

\* What x's session holds hangs together, and every entity and edge in it is mirrored; the
\* entities x has made itself are for mentions it has resolved.
SessionInv(x) ==
  /\ DOMAIN txn[x] = Fields
  /\ \A e \in DOMAIN txn[x].session : Valid(e) /\ e \in nodes
  /\ \A e \in DOMAIN txn[x].session : e.doc = x => e.pos <= Len(txn[x].chosen)
  /\ txn[x].dirty \subseteq DOMAIN txn[x].session
  /\ \A i \in DOMAIN txn[x].chosen : Valid(txn[x].chosen[i]) /\ txn[x].chosen[i] \in nodes
  /\ \A y \in txn[x].draft : \E r \in rels : r.id = y.id
  /\ IsFiniteSet(txn[x].queued)
  /\ \A r \in txn[x].queued : Pair(r)
  /\ DOMAIN txn[x].into \subseteq DOMAIN txn[x].session
  /\ \A d \in DOMAIN txn[x].into : txn[x].into[d] \in txn[x].dirty \ DOMAIN txn[x].into
  /\ \A s \in txn[x].seen : s.of \in DOMAIN txn[x].into
  /\ \A pair \in txn[x].pairs : \E a, b \in DOMAIN txn[x].session : a # b /\ pair = {a, b}
  /\ \A c \in txn[x].decided : Pair(c.review)

\* A closed session holds nothing; a document resolves its mentions one after the other.
PhaseInv(x) ==
  /\ ~Open(x) => txn[x] = Blank
  /\ x \in Mergers => phase[x] \in {"idle", "merging"} /\ txn[x].chosen = <<>> /\ txn[x].draft = {}
  /\ x \in Docs /\ phase[x] = "resolving" => Len(txn[x].chosen) < Len(Text[x])
  /\ x \in Docs /\ phase[x] \in {"promoting", "committing"} =>
       Len(txn[x].chosen) = Len(Text[x])

\* The committed rows.
RowInv ==
  /\ \A e \in DOMAIN entities : Valid(e) /\ phase[e.doc] = "done"
  /\ \A m \in DOMAIN target : m.pos \in DOMAIN Text[m.doc]
  /\ IsFiniteSet(DOMAIN reviews)
  /\ \A r \in DOMAIN reviews : Pair(r)
  /\ MirrorCovers

WriterInv(x) == SessionOK(x) /\ SessionInv(x) /\ PhaseInv(x)

IInv == TypeOK /\ RowInv /\ \A x \in Writers : WriterInv(x)

\* x has been told to merge two entities of these names.
Told(x, n, m) ==
  \E c \in txn[x].decided : c.as = "merged" /\ {n, m} = {NameOf(c.review.a), NameOf(c.review.b)}

\* BelongTogether, with A for the pairs that somebody decided to merge.
Same(A, n, m) == \/ n = m
                 \/ Score[n][m] = High \/ BatchScore[n][m] = High \/ BatchScore[m][n] = High
                 \/ {n, m} \in A

Together(A, n, m) ==
  n = m \/ \A S \in SUBSET Names :
    n \in S /\ (\A u \in S, v \in Names : Same(A, u, v) \/ Same(A, v, u) => v \in S) => m \in S

\* x brings together only what belongs together, or will once its decision is committed.
NameInv(x) ==
  /\ x \in Docs => \A i \in DOMAIN txn[x].chosen :
                     Together(approved, Text[x][i], NameOf(txn[x].chosen[i]))
  /\ \A d \in DOMAIN txn[x].into :
       \/ Together(approved, NameOf(d), NameOf(txn[x].into[d]))
       \/ Told(x, NameOf(d), NameOf(txn[x].into[d]))
  /\ txn[x].pairs # {} => txn[x].decided = {}

\* Every mention belongs together with the entity it is resolved to.
TargetInv == \A m \in DOMAIN target :
               Together(approved, Text[m.doc][m.pos], NameOf(target[m]))

NamesInv == TargetInv /\ \A x \in Writers : NameInv(x)

\* t's transaction overlapped with no other.
Alone(t) == \A x \in Writers : {t, x} \notin overlaps

\* Transactions that are open together are known to have overlapped.
OverlapInv == \A x, y \in Writers : x # y /\ Open(x) /\ Open(y) => {x, y} \in overlaps

\* The ids of edge rows are unique, and made by a document that is done.
EdgeInv ==
  /\ \A y, z \in edges : y.id = z.id => y = z
  /\ \A y \in edges : phase[y.id.doc] = "done"

\* What u is about to write to an edge says about a document that was alone what the edge says.
DraftInv(u) ==
  \A y \in txn[u].draft :
    /\ \A z \in txn[u].draft : z = y
    /\ y.id.doc = u \/ phase[y.id.doc] = "done"
    /\ y.id.doc = u => y.id.try = try[u] /\ y.evidence = {u}
    /\ \A t \in Docs \ {u}, z \in edges :
         Alone(t) /\ phase[t] = "done" /\ z.id = y.id => (t \in z.evidence <=> t \in y.evidence)

\* t's own edge is the one row it goes to.
OwnDraftInv(t) ==
  phase[t] = "committing" /\ Alone(t) /\ t \in Related /\ From(t) # To(t) =>
    \E y \in txn[t].draft :
      /\ y.from = From(t) /\ y.to = To(t) /\ t \in y.evidence
      /\ \A z \in edges : z.id = y.id => z.from = y.from /\ z.to = y.to

\* A merge has found every reference of a settled document to the entities it deletes.
SeenInv(x) ==
  x \in Mergers => \A t \in Docs : Settled(t) => \A d \in DOMAIN txn[x].into :
    /\ \A m \in DOMAIN target : m.doc = t /\ target[m] = d => [ref |-> m, of |-> d] \in txn[x].seen
    /\ \A y \in edges : t \in y.evidence /\ d \in {y.from, y.to} =>
                          [ref |-> y.id, of |-> d] \in txn[x].seen

\* Every mention of a document that is done has a row.
DoneInv(t) == phase[t] = "done" => \A i \in DOMAIN Text[t] : [doc |-> t, pos |-> i] \in DOMAIN target

FactInv == /\ OverlapInv
           /\ EdgeInv
           /\ \A t \in Docs : DraftInv(t) /\ OwnDraftInv(t) /\ DoneInv(t)
           /\ \A x \in Writers : SeenInv(x)
           /\ SettledFactsSurvive

-----------------------------------------------------------------------------
(* Facts about the pieces the actions are built from. *)

\* The empty sequence is a function on nothing.
LEMMA EmptyFunction == DOMAIN <<>> = {}
  OBVIOUS

\* A blank session, field by field.
LEMMA BlankFields ==
  /\ DOMAIN Blank = Fields
  /\ DOMAIN Blank.session = {} /\ DOMAIN Blank.into = {} /\ Blank.chosen = <<>>
  /\ Blank.dirty = {} /\ Blank.draft = {} /\ Blank.queued = {} /\ Blank.seen = {}
  /\ Blank.pairs = {} /\ Blank.decided = {}
  BY EmptyFunction DEF Blank, Fields

Phases == {"idle", "resolving", "promoting", "committing", "merging", "done", "failed"}

\* A session is the record of its fields.
LEMMA Shape ==
  ASSUME IInv, NEW x \in Writers
  PROVE  /\ DOMAIN txn = Writers /\ DOMAIN txn[x] = Fields
         /\ phase \in [Writers -> Phases]
         /\ SessionOK(x) /\ SessionInv(x) /\ PhaseInv(x)
  BY DEF IInv, WriterInv, SessionInv, TypeOK, Phases

\* A mention names something, and a document's text is a sequence.
LEMMA TextFacts ==
  ASSUME NEW t \in Docs
  PROVE  /\ Text[t] \in Seq(Names) /\ Len(Text[t]) \in Nat \ {0}
         /\ DOMAIN Text[t] = 1..Len(Text[t])
         /\ \A i \in DOMAIN Text[t] : Text[t][i] \in Names
<1>1. Text[t] \in Seq(Names) /\ Text[t] # <<>>
  BY TextAssumption
<1>2. QED
  BY <1>1

\* An entity has a name.
LEMMA NameType ==
  ASSUME NEW e, Valid(e)
  PROVE  NameOf(e) \in Names
<1>1. e.doc \in Docs /\ e.pos \in DOMAIN Text[e.doc]
  BY DEF Valid, Entity
<1>2. QED
  BY <1>1, TextFacts DEF NameOf

\* What a session sees: all of it is valid and mirrored.
LEMMA LoadedFacts ==
  ASSUME IInv, NEW x \in Writers
  PROVE  /\ DOMAIN Loaded(x) = DOMAIN txn[x].session \cup DOMAIN entities
         /\ \A e \in DOMAIN Loaded(x) : /\ e \in Entity /\ Valid(e) /\ e \in nodes
                                        /\ Loaded(x)[e] \in SUBSET Names
         /\ Created(x) \subseteq DOMAIN txn[x].session
<1>1. DOMAIN Loaded(x) = DOMAIN txn[x].session \cup DOMAIN entities
  BY DEF Loaded
<1>2. \A e \in DOMAIN txn[x].session : Valid(e) /\ e \in nodes /\ txn[x].session[e] \in SUBSET Names
  BY Shape DEF SessionOK, SessionInv, PartialFunction
<1>3. \A e \in DOMAIN entities : Valid(e) /\ e \in nodes /\ entities[e] \in SUBSET Names
  BY DEF IInv, TypeOK, PartialFunction, RowInv, MirrorCovers
<1>4. QED
  BY <1>1, <1>2, <1>3 DEF Loaded, Valid, Created

\* The next mention is a name, and an entity made for it is new in shape only.
LEMMA MentionFacts ==
  ASSUME IInv, NEW t \in Docs, phase[t] = "resolving"
  PROVE  /\ txn[t].chosen \in Seq(Entity) /\ Len(txn[t].chosen) < Len(Text[t])
         /\ Mentioned(t) \in Names
         /\ Valid(NewEntity(t)) /\ NameOf(NewEntity(t)) = Mentioned(t)
         /\ try[t] \in 1..(Retries + 1)
<1>1. txn[t].chosen \in Seq(Entity) /\ Len(txn[t].chosen) < Len(Text[t])
  BY Shape DEF SessionOK, PhaseInv, Writers
<1>2. Len(txn[t].chosen) + 1 \in DOMAIN Text[t] /\ Len(txn[t].chosen) + 1 \in Nat \ {0}
  BY <1>1, TextFacts
<1>3. try[t] \in 1..(Retries + 1)
  BY DEF IInv, TypeOK
<1>4. Valid(NewEntity(t)) /\ NameOf(NewEntity(t)) = Mentioned(t)
  BY <1>2, <1>3 DEF Valid, NewEntity, Entity, NameOf, Mentioned
<1>5. QED
  BY <1>1, <1>2, <1>3, <1>4, TextFacts DEF Mentioned

-----------------------------------------------------------------------------
(* Frames. *)

\* Only x's session and phase change, and the mirror only grows.
Frame(x) ==
  /\ \A y \in Writers \ {x} : txn'[y] = txn[y] /\ phase'[y] = phase[y]
  /\ DOMAIN txn' = Writers
  /\ nodes \subseteq nodes' /\ rels \subseteq rels'
  /\ phase[x] # "done"

\* A step of x leaves the sessions of the others in order.
LEMMA OthersKeep ==
  ASSUME IInv, NEW x \in Writers, Frame(x), NEW y \in Writers, y # x
  PROVE  WriterInv(y)'
<1>1. WriterInv(y) /\ txn'[y] = txn[y] /\ phase'[y] = phase[y]
  BY DEF IInv, Frame
<1>2. SessionOK(y)'
  BY <1>1 DEF WriterInv, SessionOK, PartialFunction
<1>3. SessionInv(y)'
  BY <1>1 DEF WriterInv, SessionInv, Frame, Valid, Pair
<1>4. PhaseInv(y)'
  BY <1>1 DEF WriterInv, PhaseInv, Open
<1>5. QED
  BY <1>2, <1>3, <1>4 DEF WriterInv

\* The types of what is neither a row nor a session.
RestType == /\ nodes \subseteq Entity
            /\ rels \subseteq Rel
            /\ phase \in [Writers -> Phases]
            /\ try \in [Docs -> 1..(Retries + 1)]
            /\ left \in Nat
            /\ approved \subseteq SUBSET Names
            /\ overlaps \subseteq SUBSET Writers

\* The part of the type that no session is in.
LEMMA RestTypeHolds == IInv => RestType
  BY DEF IInv, TypeOK, RestType, Phases

\* A step that commits nothing.
LEMMA LocalStep ==
  ASSUME IInv, NEW x \in Writers, Frame(x), UNCHANGED rowVars, RestType', WriterInv(x)'
  PROVE  IInv'
<1>1. \A y \in Writers : WriterInv(y)'
  BY OthersKeep
<1>2. TypeOK'
  BY <1>1 DEF IInv, TypeOK, RestType, Phases, WriterInv, Frame, rowVars, PartialFunction
<1>3. RowInv'
  <2>1. \A e \in DOMAIN entities : e.doc \in Writers /\ phase'[e.doc] = "done"
    BY DEF IInv, RowInv, Valid, Entity, Writers, Frame
  <2>2. QED
    BY <2>1 DEF IInv, RowInv, MirrorCovers, Frame, rowVars, Valid, Pair
<1>4. QED
  BY <1>1, <1>2, <1>3 DEF IInv

\* A session that has just been opened, or closed, or was left as it is.
LEMMA BlankWriter ==
  ASSUME NEW x \in Writers, txn'[x] = Blank,
         \/ phase'[x] \in {"idle", "done", "failed"}
         \/ x \in Docs /\ phase'[x] = "resolving",
         x \in Mergers => phase'[x] = "idle"
  PROVE  WriterInv(x)'
<1>1. SessionOK(x)'
  BY BlankFields DEF SessionOK, PartialFunction
<1>2. SessionInv(x)'
  BY BlankFields, FS_EmptySet DEF SessionInv
<1>3. Len(Blank.chosen) = 0
  BY BlankFields
<1>4. x \in Docs => Len(Text[x]) > 0
  BY TextFacts
<1>5. PhaseInv(x)'
  BY <1>3, <1>4, BlankFields, WriterAssumption DEF PhaseInv, Open, Mergers
<1>6. QED
  BY <1>1, <1>2, <1>5 DEF WriterInv

\* The effect of End on sessions and phases.
LEMMA EndFacts ==
  ASSUME IInv, NEW x \in Writers, NEW p \in {"idle", "done", "failed"}, End(x, p),
         phase[x] # "done", x \in Mergers => p = "idle", nodes \subseteq nodes', rels \subseteq rels'
  PROVE  /\ Frame(x) /\ phase' \in [Writers -> Phases] /\ WriterInv(x)'
         /\ phase'[x] = p /\ txn'[x] = Blank
<1>1. phase'[x] = p /\ txn'[x] = Blank /\ phase' \in [Writers -> Phases]
  BY Shape DEF End, Phases
<1>2. Frame(x)
  BY Shape DEF End, Frame
<1>3. WriterInv(x)'
  BY <1>1, BlankWriter
<1>4. QED
  BY <1>1, <1>2, <1>3

\* The effect of Begin.
LEMMA BeginFacts ==
  ASSUME IInv, NEW x \in Writers, NEW p \in {"resolving", "merging"}, Begin(x, p)
  PROVE  /\ phase' \in [Writers -> Phases] /\ phase'[x] = p
         /\ \A y \in Writers \ {x} : phase'[y] = phase[y]
         /\ overlaps' \subseteq SUBSET Writers
         /\ txn[x] = Blank /\ phase[x] # "done"
<1>1. phase \in [Writers -> Phases] /\ PhaseInv(x)
  BY Shape
<1>2. txn[x] = Blank
  BY <1>1 DEF Begin, PhaseInv, Open
<1>3. overlaps' \subseteq SUBSET Writers
  BY RestTypeHolds DEF Begin, RestType
<1>4. QED
  BY <1>1, <1>2, <1>3 DEF Begin, Phases

-----------------------------------------------------------------------------
(* The graph step of a document. *)

\* StartDocument preserves IInv.
LEMMA StartDocumentInv ==
  ASSUME IInv, NEW t \in Docs, StartDocument(t)
  PROVE  IInv'
<1>1. t \in Writers /\ Begin(t, "resolving")
  BY DEF StartDocument, Writers
<1>2. txn'[t] = Blank /\ phase'[t] = "resolving" /\ Frame(t)
  BY <1>1, BeginFacts, Shape DEF StartDocument, Frame, mirrorVars
<1>3. RestType'
  BY <1>1, BeginFacts, RestTypeHolds DEF StartDocument, RestType, mirrorVars
<1>4. WriterInv(t)'
  BY <1>1, <1>2, BlankWriter, WriterAssumption
<1>5. QED
  BY <1>1, <1>2, <1>3, <1>4, LocalStep DEF StartDocument

\* One more mention has its entity.
LEMMA NextMentionFacts ==
  ASSUME IInv, NEW t \in Docs, phase[t] = "resolving", NextMention(t),
         NEW e \in Entity, txn'[t].chosen = Append(txn[t].chosen, e), txn'[t] # Blank
  PROVE  /\ PhaseInv(t)' /\ phase' \in [Writers -> Phases]
         /\ \A y \in Writers \ {t} : phase'[y] = phase[y]
<1>1. t \in Writers /\ t \notin Mergers /\ phase \in [Writers -> Phases]
  BY Shape, WriterAssumption DEF Writers
<1>2. /\ phase'[t] \in {"resolving", "promoting"}
      /\ phase'[t] = "promoting" <=> Len(txn[t].chosen) + 1 = Len(Text[t])
      /\ phase' \in [Writers -> Phases] /\ \A y \in Writers \ {t} : phase'[y] = phase[y]
  BY <1>1 DEF NextMention, Phases
<1>3. Len(txn'[t].chosen) = Len(txn[t].chosen) + 1 /\ Len(txn[t].chosen) \in Nat
  BY MentionFacts
<1>4. Len(txn[t].chosen) < Len(Text[t]) /\ Len(Text[t]) \in Nat
  BY MentionFacts, TextFacts
<1>5. PhaseInv(t)'
  BY <1>1, <1>2, <1>3, <1>4 DEF PhaseInv, Open
<1>6. QED
  BY <1>2, <1>5

\* What x's session holds of a merge, which the graph step of a document leaves alone.
KeepsMerge(x) == /\ txn'[x].into = txn[x].into /\ txn'[x].seen = txn[x].seen
                 /\ txn'[x].pairs = txn[x].pairs /\ txn'[x].decided = txn[x].decided

\* What ResolveMention changes, and what it leaves alone.
LEMMA ResolveMentionEffect ==
  ASSUME IInv, NEW t \in Docs, ResolveMention(t)
  PROVE  /\ DOMAIN txn' = Writers /\ \A y \in Writers \ {t} : txn'[y] = txn[y]
         /\ DOMAIN txn'[t] = Fields /\ KeepsMerge(t)
         /\ txn'[t].draft = txn[t].draft /\ txn'[t].queued = txn[t].queued
         /\ DOMAIN txn'[t].session = DOMAIN Loaded(t)
         /\ \A f \in DOMAIN Loaded(t) : txn'[t].session[f] \subseteq Loaded(t)[f] \cup {Mentioned(t)}
         /\ \E e \in Matches(t, High) :
              /\ e \in DOMAIN Loaded(t)
              /\ txn'[t].chosen = Append(txn[t].chosen, e)
              /\ txn[t].dirty \subseteq txn'[t].dirty /\ txn'[t].dirty \subseteq txn[t].dirty \cup {e}
<1>1. PICK e \in Matches(t, High) :
        LET known == Mentioned(t) = NameOf(e) \/ Mentioned(t) \in Loaded(t)[e]
        IN txn' = [txn EXCEPT ![t].chosen = Append(@, e),
                              ![t].session = [Loaded(t) EXCEPT ![e] = IF known THEN @
                                                                      ELSE @ \cup {Mentioned(t)}],
                              ![t].dirty = IF known THEN @ ELSE @ \cup {e}]
  BY DEF ResolveMention
<1>2. t \in Writers /\ DOMAIN txn = Writers /\ DOMAIN txn[t] = Fields
  BY Shape DEF Writers
<1>3. e \in DOMAIN Loaded(t)
  BY <1>2, LoadedFacts DEF Matches, Candidates
<1> DEFINE known == Mentioned(t) = NameOf(e) \/ Mentioned(t) \in Loaded(t)[e]
           S == [Loaded(t) EXCEPT ![e] = IF known THEN @ ELSE @ \cup {Mentioned(t)}]
           D == IF known THEN txn[t].dirty ELSE txn[t].dirty \cup {e}
<1>4. /\ DOMAIN S = DOMAIN Loaded(t)
      /\ txn[t].dirty \subseteq D /\ D \subseteq txn[t].dirty \cup {e}
      /\ \A f \in DOMAIN Loaded(t) : S[f] \subseteq Loaded(t)[f] \cup {Mentioned(t)}
  BY <1>3 DEF Loaded
<1>5. txn' = [txn EXCEPT ![t].chosen = Append(@, e), ![t].session = S, ![t].dirty = D]
  BY <1>1
<1> HIDE DEF S, D
<1>6. /\ txn'[t] = [txn[t] EXCEPT !.chosen = Append(@, e), !.session = S, !.dirty = D]
      /\ DOMAIN txn' = Writers /\ \A y \in Writers \ {t} : txn'[y] = txn[y]
  BY <1>2, <1>5 DEF Fields
<1>7. /\ DOMAIN txn'[t] = Fields /\ txn'[t].chosen = Append(txn[t].chosen, e)
      /\ txn'[t].session = S /\ txn'[t].dirty = D
      /\ txn'[t].draft = txn[t].draft /\ txn'[t].queued = txn[t].queued
  BY <1>2, <1>6 DEF Fields
<1>8. KeepsMerge(t)
  BY <1>2, <1>6 DEF Fields, KeepsMerge
<1>9. QED
  BY <1>3, <1>4, <1>6, <1>7, <1>8

\* The entities chosen so far, once e is among them.
LEMMA ChosenGrows ==
  ASSUME IInv, NEW t \in Docs, phase[t] = "resolving", NEW e \in Entity,
         txn'[t].chosen = Append(txn[t].chosen, e)
  PROVE  /\ txn'[t].chosen \in Seq(Entity) /\ txn'[t] # Blank
         /\ Len(txn'[t].chosen) = Len(txn[t].chosen) + 1 /\ Len(txn[t].chosen) \in Nat
         /\ \A i \in DOMAIN txn'[t].chosen :
              \/ i = Len(txn[t].chosen) + 1 /\ txn'[t].chosen[i] = e
              \/ i \in DOMAIN txn[t].chosen /\ txn'[t].chosen[i] = txn[t].chosen[i]
<1>1. txn[t].chosen \in Seq(Entity)
  BY MentionFacts
<1>2. txn'[t].chosen # <<>>
  BY <1>1
<1>3. txn'[t] # Blank
  BY <1>2, BlankFields
<1>4. QED
  BY <1>1, <1>3

\* ResolveMention preserves IInv.
LEMMA ResolveMentionInv ==
  ASSUME IInv, NEW t \in Docs, ResolveMention(t)
  PROVE  IInv'
<1>1. PICK e \in Matches(t, High) :
        /\ e \in DOMAIN Loaded(t)
        /\ txn'[t].chosen = Append(txn[t].chosen, e)
        /\ txn[t].dirty \subseteq txn'[t].dirty /\ txn'[t].dirty \subseteq txn[t].dirty \cup {e}
  BY ResolveMentionEffect
<1>2. /\ t \in Writers /\ phase[t] = "resolving" /\ NextMention(t)
      /\ UNCHANGED <<rowVars, mirrorVars, try, left, approved, overlaps>>
  BY DEF ResolveMention, Writers
<1>3. SessionOK(t) /\ SessionInv(t)
  BY <1>2, Shape
<1>4. e \in DOMAIN Loaded(t) /\ e \in Entity /\ Valid(e) /\ e \in nodes
  BY <1>1, <1>2, LoadedFacts
<1>5. Mentioned(t) \in Names
  BY <1>2, MentionFacts
<1>6. /\ txn'[t].chosen \in Seq(Entity) /\ txn'[t] # Blank
      /\ Len(txn'[t].chosen) = Len(txn[t].chosen) + 1 /\ Len(txn[t].chosen) \in Nat
      /\ \A i \in DOMAIN txn'[t].chosen :
           \/ i = Len(txn[t].chosen) + 1 /\ txn'[t].chosen[i] = e
           \/ i \in DOMAIN txn[t].chosen /\ txn'[t].chosen[i] = txn[t].chosen[i]
  BY <1>1, <1>2, <1>4, ChosenGrows
<1>7. SessionOK(t)'
  <2>1. \A f \in DOMAIN txn'[t].session : f \in Entity /\ txn'[t].session[f] \in SUBSET Names
    <3>1. DOMAIN txn'[t].session = DOMAIN Loaded(t)
      BY ResolveMentionEffect
    <3>2. \A f \in DOMAIN Loaded(t) : f \in Entity /\ Loaded(t)[f] \in SUBSET Names
      BY <1>2, LoadedFacts
    <3>3. \A f \in DOMAIN Loaded(t) :
            txn'[t].session[f] \subseteq Loaded(t)[f] \cup {Mentioned(t)}
      BY ResolveMentionEffect
    <3>4. QED
      BY <1>5, <3>1, <3>2, <3>3
  <2>2. PartialFunction(txn'[t].session, Entity, SUBSET Names)
    BY <2>1 DEF PartialFunction
  <2>3. QED
    BY <1>1, <1>3, <1>4, <1>6, <2>2, ResolveMentionEffect DEF SessionOK, KeepsMerge
<1>8. SessionInv(t)'
  <2>1. \A i \in DOMAIN txn'[t].chosen : Valid(txn'[t].chosen[i]) /\ txn'[t].chosen[i] \in nodes
    BY <1>3, <1>4, <1>6 DEF SessionInv
  <2>2. /\ \A f \in DOMAIN txn'[t].session : Valid(f) /\ f \in nodes
        /\ DOMAIN txn[t].session \subseteq DOMAIN txn'[t].session
        /\ e \in DOMAIN txn'[t].session
    BY <1>2, <1>4, LoadedFacts, ResolveMentionEffect
  <2>3. \A f \in DOMAIN txn'[t].session : f.doc = t => f.pos <= Len(txn'[t].chosen)
    <3> SUFFICES ASSUME NEW f \in DOMAIN Loaded(t), f.doc = t
                 PROVE  f.pos <= Len(txn'[t].chosen)
      BY ResolveMentionEffect
    <3>1. f \in DOMAIN txn[t].session
      BY <1>2, LoadedFacts DEF IInv, RowInv
    <3>2. f.pos <= Len(txn[t].chosen) /\ f.pos \in Nat
      BY <1>3, <3>1 DEF SessionInv, Valid, Entity
    <3>3. QED
      BY <1>6, <3>2
  <2>4. /\ txn'[t].dirty \subseteq DOMAIN txn'[t].session
        /\ DOMAIN txn'[t].into \subseteq DOMAIN txn'[t].session
        /\ \A d \in DOMAIN txn'[t].into : txn'[t].into[d] \in txn'[t].dirty \ DOMAIN txn'[t].into
    BY <1>1, <1>3, <2>2, ResolveMentionEffect DEF SessionInv, KeepsMerge
  <2>5. \A pair \in txn'[t].pairs : \E a, b \in DOMAIN txn'[t].session : a # b /\ pair = {a, b}
    BY <1>3, <2>2, ResolveMentionEffect DEF SessionInv, KeepsMerge
  <2>6. nodes' = nodes /\ rels' = rels
    BY <1>2 DEF mirrorVars
  <2>7. QED
    BY <1>3, <2>1, <2>2, <2>3, <2>4, <2>5, <2>6, ResolveMentionEffect
    DEF SessionInv, KeepsMerge, Valid, Pair
<1>9. PhaseInv(t)' /\ phase' \in [Writers -> Phases] /\ \A y \in Writers \ {t} : phase'[y] = phase[y]
  BY <1>1, <1>2, <1>4, <1>6, NextMentionFacts
<1>10. Frame(t) /\ RestType'
  BY <1>2, <1>9, ResolveMentionEffect, RestTypeHolds DEF Frame, RestType, mirrorVars
<1>11. QED
  BY <1>2, <1>7, <1>8, <1>9, <1>10, LocalStep DEF WriterInv


\* No session of t has seen the entity t is about to make.
LEMMA FreshEntity ==
  ASSUME IInv, NEW t \in Docs, phase[t] = "resolving"
  PROVE  NewEntity(t) \notin DOMAIN Loaded(t)
<1>1. SessionInv(t) /\ DOMAIN Loaded(t) = DOMAIN txn[t].session \cup DOMAIN entities
  BY Shape, LoadedFacts DEF Writers
<1>2. NewEntity(t).doc = t /\ NewEntity(t).pos = Len(txn[t].chosen) + 1
  BY DEF NewEntity
<1>3. Len(txn[t].chosen) \in Nat
  BY MentionFacts
<1>4. QED
  BY <1>1, <1>2, <1>3 DEF SessionInv, IInv, RowInv

\* Reviews queued for a new entity are about it and another.
LEMMA NewReviewsType ==
  ASSUME IInv, NEW t \in Docs, phase[t] = "resolving", NEW e \in Matches(t, Review)
  PROVE  LET r == [a |-> NewEntity(t), b |-> e, by |-> t, n |-> 1]
         IN r \in ReviewId /\ Pair(r)
<1>1. e \in DOMAIN Loaded(t)
  BY LoadedFacts DEF Matches, Candidates, Writers
<1>2. Valid(e) /\ Valid(NewEntity(t))
  BY <1>1, LoadedFacts, MentionFacts DEF Writers
<1>3. e # NewEntity(t)
  BY <1>1, FreshEntity
<1>4. QED
  BY <1>2, <1>3 DEF Valid, ReviewId, Pair

\* What CreateEntity changes, and what it leaves alone.
LEMMA CreateEntityEffect ==
  ASSUME IInv, NEW t \in Docs, CreateEntity(t)
  PROVE  /\ DOMAIN txn' = Writers /\ \A y \in Writers \ {t} : txn'[y] = txn[y]
         /\ DOMAIN txn'[t] = Fields /\ KeepsMerge(t)
         /\ txn'[t].draft = txn[t].draft /\ txn'[t].dirty = txn[t].dirty
         /\ txn'[t].chosen = Append(txn[t].chosen, NewEntity(t))
         /\ DOMAIN txn'[t].session = DOMAIN Loaded(t) \cup {NewEntity(t)}
         /\ \A f \in DOMAIN txn'[t].session :
              txn'[t].session[f] = IF f = NewEntity(t) THEN {} ELSE Loaded(t)[f]
         /\ \E q : /\ txn'[t].queued = txn[t].queued \cup q /\ IsFiniteSet(q)
                   /\ \A r \in q : r \in ReviewId /\ Pair(r)
<1> DEFINE e == NewEntity(t)
           S == [f \in DOMAIN Loaded(t) \cup {e} |-> IF f = e THEN {} ELSE Loaded(t)[f]]
<1>1. PICK q \in IF Matches(t, Review) = {} THEN {{}}
                 ELSE {{[a |-> e, b |-> f, by |-> t, n |-> 1]} : f \in Matches(t, Review)} :
        txn' = [txn EXCEPT ![t].chosen = Append(@, e), ![t].session = S, ![t].queued = @ \cup q]
  BY DEF CreateEntity
<1>2. t \in Writers /\ DOMAIN txn = Writers /\ DOMAIN txn[t] = Fields
  BY Shape DEF Writers
<1>3. \A r \in q : r \in ReviewId /\ Pair(r)
  <2>1. phase[t] = "resolving"
    BY DEF CreateEntity
  <2>2. \A r \in q : \E f \in Matches(t, Review) : r = [a |-> e, b |-> f, by |-> t, n |-> 1]
    BY <1>1
  <2>3. QED
    BY <2>1, <2>2, NewReviewsType
<1>4. IsFiniteSet(q)
  <2>1. q = {} \/ \E f : q = {f}
    OBVIOUS
  <2>2. IsFiniteSet({}) /\ \A f : IsFiniteSet({f})
    BY FS_EmptySet, FS_Singleton, Zenon
  <2>3. QED
    BY <2>1, <2>2
<1>5. DOMAIN S = DOMAIN Loaded(t) \cup {e} /\ \A f \in DOMAIN S : S[f] = IF f = e THEN {} ELSE Loaded(t)[f]
  OBVIOUS
<1> HIDE DEF S, e
<1>6. /\ txn'[t] = [txn[t] EXCEPT !.chosen = Append(@, e), !.session = S, !.queued = @ \cup q]
      /\ DOMAIN txn' = Writers /\ \A y \in Writers \ {t} : txn'[y] = txn[y]
  BY <1>1, <1>2 DEF Fields
<1>7. /\ DOMAIN txn'[t] = Fields /\ txn'[t].chosen = Append(txn[t].chosen, e)
      /\ txn'[t].session = S /\ txn'[t].queued = txn[t].queued \cup q
      /\ txn'[t].dirty = txn[t].dirty /\ txn'[t].draft = txn[t].draft
  BY <1>2, <1>6 DEF Fields
<1>8. KeepsMerge(t)
  BY <1>2, <1>6 DEF Fields, KeepsMerge
<1>9. QED
  BY <1>3, <1>4, <1>5, <1>6, <1>7, <1>8 DEF e

\* CreateEntity preserves IInv.
LEMMA CreateEntityInv ==
  ASSUME IInv, NEW t \in Docs, CreateEntity(t)
  PROVE  IInv'
<1> DEFINE e == NewEntity(t)
<1>1. /\ t \in Writers /\ phase[t] = "resolving" /\ NextMention(t)
      /\ nodes' = nodes \cup {e}
      /\ UNCHANGED <<rowVars, rels, try, left, approved, overlaps>>
  BY DEF CreateEntity, Writers, Synced
<1>2. SessionOK(t) /\ SessionInv(t)
  BY <1>1, Shape
<1>3. e \in Entity /\ Valid(e) /\ e \in nodes' /\ e.pos = Len(txn[t].chosen) + 1
  BY <1>1, MentionFacts DEF Valid, NewEntity
<1> HIDE DEF e
<1>4. /\ txn'[t].chosen = Append(txn[t].chosen, e)
      /\ DOMAIN txn'[t].session = DOMAIN Loaded(t) \cup {e}
      /\ \A f \in DOMAIN txn'[t].session : txn'[t].session[f] = IF f = e THEN {} ELSE Loaded(t)[f]
  BY CreateEntityEffect DEF e
<1>5. PICK q : /\ txn'[t].queued = txn[t].queued \cup q /\ IsFiniteSet(q)
               /\ \A r \in q : r \in ReviewId /\ Pair(r)
  BY CreateEntityEffect
<1>6. /\ \A f \in DOMAIN txn'[t].session : f \in Entity /\ Valid(f) /\ f \in nodes'
      /\ \A f \in DOMAIN txn'[t].session : txn'[t].session[f] \in SUBSET Names
      /\ DOMAIN txn[t].session \subseteq DOMAIN txn'[t].session
  BY <1>1, <1>3, <1>4, LoadedFacts
<1>7. /\ txn'[t].chosen \in Seq(Entity) /\ txn'[t] # Blank
      /\ Len(txn'[t].chosen) = Len(txn[t].chosen) + 1 /\ Len(txn[t].chosen) \in Nat
      /\ \A i \in DOMAIN txn'[t].chosen :
           \/ i = Len(txn[t].chosen) + 1 /\ txn'[t].chosen[i] = e
           \/ i \in DOMAIN txn[t].chosen /\ txn'[t].chosen[i] = txn[t].chosen[i]
  BY <1>1, <1>3, <1>4, ChosenGrows
<1>8. SessionOK(t)'
  <2>1. PartialFunction(txn'[t].session, Entity, SUBSET Names)
    BY <1>6 DEF PartialFunction
  <2>2. QED
    BY <1>2, <1>5, <1>7, <2>1, CreateEntityEffect DEF SessionOK, KeepsMerge
<1>9. SessionInv(t)'
  <2>1. \A i \in DOMAIN txn'[t].chosen : Valid(txn'[t].chosen[i]) /\ txn'[t].chosen[i] \in nodes'
    BY <1>1, <1>2, <1>3, <1>7 DEF SessionInv
  <2>2. IsFiniteSet(txn'[t].queued) /\ \A r \in txn'[t].queued : Pair(r)
    <3>1. IsFiniteSet(txn[t].queued) /\ \A r \in txn[t].queued : Pair(r)
      BY <1>2 DEF SessionInv
    <3>2. IsFiniteSet(txn[t].queued \cup q)
      BY <1>5, <3>1, FS_Union, Zenon
    <3>3. QED
      BY <1>5, <3>1, <3>2
  <2>3. \A pair \in txn'[t].pairs : \E a, b \in DOMAIN txn'[t].session : a # b /\ pair = {a, b}
    BY <1>2, <1>6, CreateEntityEffect DEF SessionInv, KeepsMerge
  <2>4. \A f \in DOMAIN txn'[t].session : f.doc = t => f.pos <= Len(txn'[t].chosen)
    <3>1. \A f \in DOMAIN txn'[t].session : f = e \/ f \in DOMAIN txn[t].session \cup DOMAIN entities
      BY <1>1, <1>4, LoadedFacts
    <3>2. \A f \in DOMAIN entities : f.doc # t
      BY <1>1 DEF IInv, RowInv
    <3>3. \A f \in DOMAIN txn[t].session : f.doc = t => f.pos <= Len(txn[t].chosen) /\ f.pos \in Nat
      BY <1>2 DEF SessionInv, Valid, Entity
    <3>4. QED
      BY <1>3, <1>7, <3>1, <3>2, <3>3
  <2>5. /\ txn'[t].dirty \subseteq DOMAIN txn'[t].session
        /\ DOMAIN txn'[t].into \subseteq DOMAIN txn'[t].session
        /\ \A d \in DOMAIN txn'[t].into : txn'[t].into[d] \in txn'[t].dirty \ DOMAIN txn'[t].into
    BY <1>2, <1>6, CreateEntityEffect DEF SessionInv, KeepsMerge
  <2>6. rels' = rels
    BY <1>1
  <2>7. QED
    BY <1>2, <1>6, <2>1, <2>2, <2>3, <2>4, <2>5, <2>6, CreateEntityEffect
    DEF SessionInv, KeepsMerge, Valid, Pair
<1>10. PhaseInv(t)' /\ phase' \in [Writers -> Phases] /\ \A y \in Writers \ {t} : phase'[y] = phase[y]
  BY <1>1, <1>3, <1>4, <1>7, NextMentionFacts
<1>11. Frame(t) /\ RestType'
  BY <1>1, <1>3, <1>10, CreateEntityEffect, RestTypeHolds DEF Frame, RestType
<1>12. QED
  BY <1>1, <1>8, <1>9, <1>10, <1>11, LocalStep DEF WriterInv

\* The endpoints of the edge t is about to write.
LEMMA EndpointFacts ==
  ASSUME IInv, NEW t \in Docs, phase[t] \in {"promoting", "committing"}
  PROVE  /\ From(t) \in Entity /\ To(t) \in Entity /\ {From(t), To(t)} \subseteq nodes
         /\ DOMAIN txn[t].chosen = DOMAIN Text[t]
         /\ 1 \in DOMAIN Text[t] /\ Len(Text[t]) \in DOMAIN Text[t]
<1>1. txn[t].chosen \in Seq(Entity) /\ Len(txn[t].chosen) = Len(Text[t]) /\ SessionInv(t)
  BY Shape DEF SessionOK, PhaseInv, Writers
<1>2. /\ DOMAIN txn[t].chosen = DOMAIN Text[t]
      /\ 1 \in DOMAIN Text[t] /\ Len(Text[t]) \in DOMAIN Text[t]
  BY <1>1, TextFacts
<1>3. QED
  BY <1>1, <1>2 DEF From, To, SessionInv

\* The edge x with t as a piece of evidence.
Supported(t, x) == [x EXCEPT !.evidence = @ \cup {t}]

\* What Promote changes, and what it leaves alone.
LEMMA PromoteEffect ==
  ASSUME IInv, NEW t \in Docs, Promote(t)
  PROVE  /\ DOMAIN txn' = Writers /\ \A y \in Writers \ {t} : txn'[y] = txn[y]
         /\ DOMAIN txn'[t] = Fields /\ KeepsMerge(t)
         /\ txn'[t].session = txn[t].session /\ txn'[t].dirty = txn[t].dirty
         /\ txn'[t].chosen = txn[t].chosen /\ txn'[t].queued = txn[t].queued
         /\ \/ (t \notin Related \/ From(t) = To(t)) /\ txn'[t].draft = txn[t].draft /\ rels' = rels
            \/ \E x \in Existing(t) \cup {NewEdge(t)} :
                 /\ x \in Edge
                 /\ txn'[t].draft = {Supported(t, x)}
                 /\ Supported(t, x) \in Edge /\ Supported(t, x).id = x.id
                 /\ Supported(t, x).from = x.from /\ Supported(t, x).to = x.to
                 /\ Supported(t, x).evidence = x.evidence \cup {t}
                 /\ rels' = IF {x.from, x.to} \subseteq nodes
                            THEN rels \cup {[id |-> x.id, from |-> x.from, to |-> x.to]}
                            ELSE rels
<1>1. t \in Writers /\ DOMAIN txn = Writers /\ DOMAIN txn[t] = Fields /\ phase[t] = "promoting"
  BY Shape DEF Writers, Promote
<1>2. CASE t \notin Related \/ From(t) = To(t)
  <2>1. txn' = txn /\ rels' = rels
    BY <1>2 DEF Promote
  <2>2. QED
    BY <1>1, <1>2, <2>1 DEF KeepsMerge
<1>3. CASE ~(t \notin Related \/ From(t) = To(t))
  <2>1. PICK x \in IF Existing(t) = {} THEN {NewEdge(t)} ELSE Existing(t) :
          /\ txn' = [txn EXCEPT ![t].draft = {[x EXCEPT !.evidence = @ \cup {t}]}]
          /\ rels' = IF {x.from, x.to} \subseteq nodes
                     THEN rels \cup {[id |-> x.id, from |-> x.from, to |-> x.to]}
                     ELSE rels
    BY <1>3 DEF Promote
  <2>2. NewEdge(t) \in Edge
    BY <1>1, EndpointFacts DEF NewEdge, Edge, EdgeId, IInv, TypeOK
  <2>3. x \in Edge
    BY <2>1, <2>2 DEF Existing, IInv, TypeOK
  <2>4. /\ Supported(t, x) \in Edge /\ Supported(t, x).id = x.id
        /\ Supported(t, x).from = x.from /\ Supported(t, x).to = x.to
        /\ Supported(t, x).evidence = x.evidence \cup {t}
    BY <2>3 DEF Edge, Supported
  <2>5. txn' = [txn EXCEPT ![t].draft = {Supported(t, x)}]
    BY <2>1 DEF Supported
  <2>6. /\ txn'[t] = [txn[t] EXCEPT !.draft = {Supported(t, x)}]
        /\ DOMAIN txn' = Writers /\ \A z \in Writers \ {t} : txn'[z] = txn[z]
    BY <1>1, <2>5 DEF Fields
  <2>7. /\ DOMAIN txn'[t] = Fields /\ txn'[t].chosen = txn[t].chosen
        /\ txn'[t].session = txn[t].session /\ txn'[t].queued = txn[t].queued
        /\ txn'[t].dirty = txn[t].dirty /\ txn'[t].draft = {Supported(t, x)}
    BY <1>1, <2>6 DEF Fields
  <2>8. KeepsMerge(t)
    BY <1>1, <2>6 DEF Fields, KeepsMerge
  <2>9. x \in Existing(t) \cup {NewEdge(t)}
    BY <2>1
  <2>10. QED
    BY <2>1, <2>3, <2>4, <2>6, <2>7, <2>8, <2>9
<1>4. QED
  BY <1>2, <1>3

\* Promote preserves IInv.
LEMMA PromoteInv ==
  ASSUME IInv, NEW t \in Docs, Promote(t)
  PROVE  IInv'
<1>1. /\ t \in Writers /\ t \notin Mergers /\ phase[t] = "promoting"
      /\ phase' = [phase EXCEPT ![t] = "committing"]
      /\ UNCHANGED <<rowVars, nodes, try, left, approved, overlaps>>
  BY WriterAssumption DEF Promote, Writers
<1>2. /\ phase \in [Writers -> Phases] /\ SessionOK(t) /\ SessionInv(t) /\ PhaseInv(t)
  BY <1>1, Shape
<1>3. /\ phase'[t] = "committing" /\ phase' \in [Writers -> Phases]
      /\ \A y \in Writers \ {t} : phase'[y] = phase[y]
  BY <1>1, <1>2 DEF Phases
<1>4. /\ rels \subseteq rels' /\ rels' \subseteq Rel
      /\ txn'[t].draft \subseteq Edge /\ \A y \in txn'[t].draft : \E r \in rels' : r.id = y.id
  <2>1. rels \subseteq Rel
    BY RestTypeHolds DEF RestType
  <2>2. CASE txn'[t].draft = txn[t].draft /\ rels' = rels
    BY <1>2, <2>1, <2>2 DEF SessionOK, SessionInv
  <2>3. ASSUME NEW x \in Existing(t) \cup {NewEdge(t)}, x \in Edge,
               txn'[t].draft = {Supported(t, x)}, Supported(t, x) \in Edge, Supported(t, x).id = x.id,
               rels' = IF {x.from, x.to} \subseteq nodes
                       THEN rels \cup {[id |-> x.id, from |-> x.from, to |-> x.to]}
                       ELSE rels
        PROVE  /\ rels \subseteq rels' /\ rels' \subseteq Rel
               /\ txn'[t].draft \subseteq Edge /\ \A y \in txn'[t].draft : \E r \in rels' : r.id = y.id
    <3>1. rels \subseteq rels' /\ rels' \subseteq Rel
      BY <2>1, <2>3 DEF Rel, Edge
    <3>2. CASE x \in Existing(t)
      BY <2>3, <3>1, <3>2 DEF Existing, IInv, RowInv, MirrorCovers
    <3>3. CASE x = NewEdge(t)
      <4>1. {x.from, x.to} \subseteq nodes
        BY <1>1, <3>3, EndpointFacts DEF NewEdge
      <4>2. [id |-> x.id, from |-> x.from, to |-> x.to] \in rels'
        BY <2>3, <4>1
      <4>3. \E r \in rels' : r.id = x.id
        BY <4>2
      <4>4. QED
        BY <2>3, <3>1, <4>3
    <3>4. QED
      BY <3>2, <3>3
  <2>4. QED
    BY <2>2, <2>3, PromoteEffect
<1>5. Frame(t) /\ RestType'
  BY <1>1, <1>3, <1>4, PromoteEffect, RestTypeHolds DEF Frame, RestType
<1>6. SessionOK(t)'
  BY <1>2, <1>4, PromoteEffect DEF SessionOK, KeepsMerge
<1>7. SessionInv(t)'
  BY <1>1, <1>2, <1>4, PromoteEffect DEF SessionInv, KeepsMerge, Valid, Pair
<1>8. PhaseInv(t)'
  BY <1>1, <1>2, <1>3, PromoteEffect DEF PhaseInv, Open
<1>9. QED
  BY <1>1, <1>5, <1>6, <1>7, <1>8, LocalStep DEF WriterInv

\* DocumentRaises preserves IInv.
LEMMA DocumentRaisesInv ==
  ASSUME IInv, NEW t \in Docs, DocumentRaises(t)
  PROVE  IInv'
<1>1. t \in Writers /\ t \notin Mergers
  BY WriterAssumption DEF Writers
<1>2. UNCHANGED <<rowVars, mirrorVars, approved, overlaps>> /\ left' \in Nat
  BY RestTypeHolds DEF DocumentRaises, Raise, RestType
<1>3. phase[t] # "done" /\ \E p \in {"idle", "failed"} : End(t, p)
  BY DEF DocumentRaises, Open
<1>4. try' \in [Docs -> 1..(Retries + 1)]
  BY RestTypeHolds, BoundAssumption DEF DocumentRaises, MayRetry, RestType
<1>5. Frame(t) /\ phase' \in [Writers -> Phases] /\ WriterInv(t)'
  BY <1>1, <1>2, <1>3, EndFacts DEF mirrorVars
<1>6. RestType'
  BY <1>2, <1>4, <1>5, RestTypeHolds DEF RestType, mirrorVars
<1>7. QED
  BY <1>1, <1>2, <1>5, <1>6, LocalStep

\* Entities committed and entities a document has created are mirrored, and made for mentions there are.
LEMMA CreatedFacts ==
  ASSUME IInv, NEW t \in Docs
  PROVE  /\ DOMAIN entities \cup Created(t) \subseteq nodes
         /\ \A e \in DOMAIN entities \cup Created(t) : e \in Entity /\ Valid(e)
         /\ \A e \in Created(t) : e \in DOMAIN txn[t].session
         /\ \A e \in DOMAIN txn[t].session : txn[t].session[e] \in SUBSET Names
<1>1. t \in Writers /\ SessionOK(t)
  BY Shape DEF Writers
<1>2. QED
  BY <1>1, LoadedFacts DEF SessionOK, PartialFunction

\* A commit ends x's session; the others keep theirs.
LEMMA CommitStep ==
  ASSUME IInv, NEW x \in Writers, NEW p \in {"idle", "done"}, End(x, p), x \in Mergers => p = "idle",
         phase[x] # "done",
         PartialFunction(entities, Entity, SUBSET Names)', PartialFunction(target, Mention, Entity)',
         edges' \subseteq Edge, PartialFunction(reviews, ReviewId, Decision \cup {"pending"})',
         approved' \subseteq SUBSET Names, UNCHANGED <<mirrorVars, try, left, overlaps>>, RowInv'
  PROVE  IInv'
<1>1. nodes \subseteq nodes' /\ rels \subseteq rels'
  BY DEF mirrorVars
<1>2. Frame(x) /\ phase' \in [Writers -> Phases] /\ WriterInv(x)'
  BY <1>1, EndFacts
<1>3. \A y \in Writers : WriterInv(y)'
  BY <1>2, OthersKeep
<1>4. TypeOK'
  BY <1>2, <1>3, RestTypeHolds DEF TypeOK, RestType, Phases, WriterInv, Frame, mirrorVars
<1>5. QED
  BY <1>3, <1>4 DEF IInv

\* CommitDocument preserves IInv.
LEMMA CommitDocumentInv ==
  ASSUME IInv, NEW t \in Docs, CommitDocument(t)
  PROVE  IInv'
<1>1. /\ t \in Writers /\ t \notin Mergers /\ phase[t] = "committing" /\ End(t, "done")
      /\ UNCHANGED <<mirrorVars, try, left, approved, overlaps>>
  BY WriterAssumption DEF CommitDocument, Writers
<1>2. /\ SessionOK(t) /\ SessionInv(t)
      /\ txn[t].chosen \in Seq(Entity) /\ DOMAIN txn[t].chosen = DOMAIN Text[t]
  BY <1>1, Shape, EndpointFacts DEF SessionOK
<1>3. /\ DOMAIN entities' = DOMAIN entities \cup Created(t)
      /\ \A e \in DOMAIN entities' : e \in Entity /\ Valid(e) /\ e \in nodes'
      /\ PartialFunction(entities, Entity, SUBSET Names)'
  <2>1. entities' = [e \in DOMAIN entities \cup Created(t) |->
                       IF e \in txn[t].dirty \cup Created(t) THEN txn[t].session[e] ELSE entities[e]]
    BY DEF CommitDocument
  <2>2. DOMAIN entities' = DOMAIN entities \cup Created(t)
    BY <2>1
  <2>3. \A e \in DOMAIN entities' : e \in Entity /\ Valid(e) /\ e \in nodes'
    BY <1>1, <2>2, CreatedFacts DEF mirrorVars
  <2>4. txn[t].dirty \subseteq DOMAIN txn[t].session
    BY <1>2 DEF SessionInv
  <2>5. \A e \in DOMAIN entities : entities[e] \in SUBSET Names
    BY DEF IInv, TypeOK, PartialFunction
  <2>6. \A e \in DOMAIN entities' : entities'[e] \in SUBSET Names
    BY <2>1, <2>2, <2>4, <2>5, CreatedFacts
  <2>7. QED
    BY <2>2, <2>3, <2>6 DEF PartialFunction
<1>4. /\ \A m \in DOMAIN target' : m.pos \in DOMAIN Text[m.doc]
      /\ PartialFunction(target, Mention, Entity)'
  <2>1. target' = [m \in DOMAIN target \cup {[doc |-> t, pos |-> i] : i \in DOMAIN Text[t]} |->
                     IF m.doc = t THEN txn[t].chosen[m.pos] ELSE target[m]]
    BY DEF CommitDocument
  <2>2. \A m \in DOMAIN target : m \in Mention /\ target[m] \in Entity /\ m.pos \in DOMAIN Text[m.doc]
    BY DEF IInv, TypeOK, PartialFunction, RowInv
  <2>3. \A i \in DOMAIN Text[t] : [doc |-> t, pos |-> i] \in Mention
    BY TextFacts DEF Mention
  <2>4. \A m \in DOMAIN target' : m \in Mention /\ m.pos \in DOMAIN Text[m.doc]
    BY <2>1, <2>2, <2>3
  <2>5. \A m \in DOMAIN target' : target'[m] \in Entity
    BY <1>2, <2>1, <2>2, <2>4
  <2>6. QED
    BY <2>4, <2>5 DEF PartialFunction
<1>5. edges' \subseteq Edge /\ \A z \in edges' : \E r \in rels' : r.id = z.id
  <2>1. edges' = {Updated(t, z) : z \in edges} \cup {z \in txn[t].draft : IsNewEdge(t, z)}
    BY DEF CommitDocument
  <2>2. txn[t].draft \subseteq Edge /\ edges \subseteq Edge
    BY <1>2 DEF SessionOK, IInv, TypeOK
  <2>3. UNION {y.evidence : y \in txn[t].draft} \subseteq Docs
    BY <2>2 DEF Edge
  <2>4. \A z \in edges : Updated(t, z) \in Edge /\ Updated(t, z).id = z.id
    <3> SUFFICES ASSUME NEW z \in edges
                 PROVE  Updated(t, z) \in Edge /\ Updated(t, z).id = z.id
      OBVIOUS
    <3>1. z \in Edge
      BY <2>2
    <3>2. QED
      BY <2>3, <3>1 DEF Updated, Edge
  <2>5. \A z \in edges \cup txn[t].draft : \E r \in rels : r.id = z.id
    BY <1>2 DEF SessionInv, IInv, RowInv, MirrorCovers
  <2>6. QED
    BY <1>1, <2>1, <2>2, <2>4, <2>5 DEF mirrorVars
<1>6. /\ DOMAIN reviews' = DOMAIN reviews \cup txn[t].queued
      /\ PartialFunction(reviews, ReviewId, Decision \cup {"pending"})'
  BY <1>2 DEF CommitDocument, SessionOK, IInv, TypeOK, PartialFunction
<1>7. IsFiniteSet(DOMAIN reviews') /\ \A r \in DOMAIN reviews' : Pair(r)
  <2>1. IsFiniteSet(DOMAIN reviews) /\ IsFiniteSet(txn[t].queued)
    BY <1>2 DEF SessionInv, IInv, RowInv
  <2>2. IsFiniteSet(DOMAIN reviews \cup txn[t].queued)
    BY <2>1, FS_Union, Zenon
  <2>3. QED
    BY <1>2, <1>6, <2>2 DEF SessionInv, IInv, RowInv
<1>8. RowInv'
  <2>1. \A e \in DOMAIN entities' : phase'[e.doc] = "done"
    <3>1. phase' = [phase EXCEPT ![t] = "done"] /\ phase \in [Writers -> Phases]
      BY <1>1, Shape DEF End
    <3>2. \A e \in DOMAIN entities' : e.doc = t \/ e \in DOMAIN entities
      BY <1>3 DEF Created
    <3>3. \A e \in DOMAIN entities' : e.doc \in Writers
      BY <1>3 DEF Entity, Writers
    <3>4. QED
      BY <1>1, <3>1, <3>2, <3>3 DEF IInv, RowInv
  <2>2. QED
    BY <1>3, <1>4, <1>5, <1>7, <2>1 DEF RowInv, MirrorCovers, Valid, Pair
<1>9. approved' \subseteq SUBSET Names
  BY <1>1, RestTypeHolds DEF RestType
<1>10. QED
  BY <1>1, <1>3, <1>4, <1>5, <1>6, <1>8, <1>9, CommitStep

-----------------------------------------------------------------------------
(* Decisions and passes. *)

\* What a row refers to is an entity.
LEMMA RefsType ==
  ASSUME IInv, NEW d
  PROVE  RefsTo(d) \subseteq Mention \cup EdgeId
<1>1. edges \subseteq Edge /\ DOMAIN target \subseteq Mention
  BY DEF IInv, TypeOK, PartialFunction
<1>2. \A y \in edges : y.id \in EdgeId
  BY <1>1 DEF Edge
<1>3. QED
  BY <1>1, <1>2 DEF RefsTo

\* What x's session holds, as a property of the session.
Sound(T) ==
  /\ DOMAIN T = Fields
  /\ PartialFunction(T.session, Entity, SUBSET Names)
  /\ \A e \in DOMAIN T.session : Valid(e) /\ e \in nodes
  /\ T.dirty \subseteq DOMAIN T.session
  /\ T.chosen = <<>> /\ T.draft = {}
  /\ T.queued \subseteq ReviewId /\ IsFiniteSet(T.queued)
  /\ \A r \in T.queued : Pair(r)
  /\ DOMAIN T.into \subseteq DOMAIN T.session
  /\ \A d \in DOMAIN T.into : T.into[d] \in T.dirty \ DOMAIN T.into
  /\ T.seen \subseteq [ref: Mention \cup EdgeId, of: Entity]
  /\ \A s \in T.seen : s.of \in DOMAIN T.into
  /\ \A pair \in T.pairs : \E a, b \in DOMAIN T.session : a # b /\ pair = {a, b}
  /\ T.decided \subseteq [review: ReviewId, as: Decision]
  /\ \A c \in T.decided : Pair(c.review)

\* A merge into the session changes no other field of it.
LEMMA FoldedFields ==
  ASSUME NEW T, DOMAIN T = Fields, NEW keep \in DOMAIN T.session, NEW drop
  PROVE  LET F == Folded(T, keep, drop) IN
         /\ DOMAIN F = Fields
         /\ F.session = [T.session EXCEPT ![keep] = @ \cup {NameOf(drop)} \cup T.session[drop]]
         /\ F.dirty = T.dirty \cup {keep}
         /\ F.into = [d \in DOMAIN T.into \cup {drop} |->
                        IF d = drop \/ T.into[d] = drop THEN keep ELSE T.into[d]]
         /\ F.seen = T.seen \cup {[ref |-> r, of |-> drop] : r \in RefsTo(drop)}
         /\ F.chosen = T.chosen /\ F.draft = T.draft /\ F.queued = T.queued
         /\ F.pairs = T.pairs /\ F.decided = T.decided
  BY DEF Folded, Fields

\* Folding one entity into another leaves the session sound.
LEMMA FoldedSound ==
  ASSUME IInv, NEW T, Sound(T), NEW keep \in DOMAIN T.session, NEW drop \in DOMAIN T.session,
         keep # drop, {keep, drop} \cap DOMAIN T.into = {}
  PROVE  Sound(Folded(T, keep, drop))
<1> DEFINE F == Folded(T, keep, drop)
<1>1. /\ DOMAIN F = Fields
      /\ F.session = [T.session EXCEPT ![keep] = @ \cup {NameOf(drop)} \cup T.session[drop]]
      /\ F.dirty = T.dirty \cup {keep}
      /\ F.into = [d \in DOMAIN T.into \cup {drop} |->
                     IF d = drop \/ T.into[d] = drop THEN keep ELSE T.into[d]]
      /\ F.seen = T.seen \cup {[ref |-> r, of |-> drop] : r \in RefsTo(drop)}
      /\ F.chosen = T.chosen /\ F.draft = T.draft /\ F.queued = T.queued
      /\ F.pairs = T.pairs /\ F.decided = T.decided
  <2>1. DOMAIN T = Fields
    BY DEF Sound
  <2>2. QED
    BY <2>1, FoldedFields
<1> HIDE DEF F
<1>2. DOMAIN F.session = DOMAIN T.session /\ DOMAIN F.into = DOMAIN T.into \cup {drop}
  BY <1>1
<1>3. NameOf(drop) \in Names /\ drop \in Entity /\ keep \in Entity
  BY NameType DEF Sound, Valid
<1>4. PartialFunction(F.session, Entity, SUBSET Names)
  BY <1>1, <1>2, <1>3 DEF Sound, PartialFunction
<1>5. \A d \in DOMAIN F.into : F.into[d] \in F.dirty \ DOMAIN F.into
  BY <1>1, <1>2 DEF Sound
<1>6. F.seen \subseteq [ref: Mention \cup EdgeId, of: Entity]
  BY <1>1, <1>3, RefsType DEF Sound
<1>7. \A s \in F.seen : s.of \in DOMAIN F.into
  BY <1>1, <1>2 DEF Sound
<1>8. /\ \A e \in DOMAIN F.session : Valid(e) /\ e \in nodes
      /\ F.dirty \subseteq DOMAIN F.session
      /\ DOMAIN F.into \subseteq DOMAIN F.session
  BY <1>1, <1>2 DEF Sound
<1>9. \A pair \in F.pairs : \E a, b \in DOMAIN F.session : a # b /\ pair = {a, b}
  BY <1>1, <1>2 DEF Sound
<1>10. /\ F.chosen = <<>> /\ F.draft = {}
       /\ F.queued \subseteq ReviewId /\ IsFiniteSet(F.queued)
       /\ \A r \in F.queued : Pair(r)
       /\ F.decided \subseteq [review: ReviewId, as: Decision]
       /\ \A c \in F.decided : Pair(c.review)
  BY <1>1 DEF Sound
<1>11. Sound(F)
  BY <1>1, <1>4, <1>5, <1>6, <1>7, <1>8, <1>9, <1>10 DEF Sound
<1>12. QED
  BY <1>11 DEF F

\* A merging session is sound.
LEMMA MergerSound ==
  ASSUME IInv, NEW x \in Mergers, Sound(txn[x])', phase'[x] = "merging"
  PROVE  WriterInv(x)'
<1>1. x \in Writers /\ x \notin Docs
  BY WriterAssumption DEF Writers
<1>2. SessionOK(x)'
  <2>1. txn'[x].chosen \in Seq(Entity)
    BY DEF Sound
  <2>2. \A e \in DOMAIN txn'[x].session : e \in Entity
    BY DEF Sound, PartialFunction
  <2>3. PartialFunction(txn'[x].into, Entity, Entity)
    BY <2>2 DEF Sound, PartialFunction
  <2>4. txn'[x].pairs \subseteq SUBSET Entity
    BY <2>2 DEF Sound
  <2>5. QED
    BY <2>1, <2>2, <2>3, <2>4 DEF SessionOK, Sound
<1>3. SessionInv(x)'
  <2>1. DOMAIN txn'[x].chosen = {}
    BY EmptyFunction DEF Sound
  <2>2. \A e \in DOMAIN txn'[x].session : e.doc # x
    BY <1>1 DEF Sound, Valid, Entity
  <2>3. QED
    BY <2>1, <2>2 DEF SessionInv, Sound
<1>4. PhaseInv(x)'
  BY <1>1 DEF PhaseInv, Open, Sound
<1>5. QED
  BY <1>2, <1>3, <1>4 DEF WriterInv

\* v's session holds decision d on review r: T is the session before anything is merged.
Decided(v, r, d, T) ==
  /\ r \in ReviewId /\ Pair(r)
  /\ DOMAIN T = Fields /\ T.session = entities /\ T.decided = {[review |-> r, as |-> d]}
  /\ T.dirty = {} /\ T.chosen = <<>> /\ T.draft = {} /\ T.queued = {}
  /\ DOMAIN T.into = {} /\ T.seen = {} /\ T.pairs = {}
  /\ txn'[v] = IF d = "merged" /\ {r.a, r.b} \subseteq DOMAIN entities
               THEN Folded(T, r.a, r.b) ELSE T

\* p's session has dealt with the pair of a and b: T is the session without that pair.
Dealt(p, a, b, T) ==
  /\ {a, b} \in txn[p].pairs /\ a # b
  /\ Sound(T) /\ T.session = txn[p].session /\ T.dirty = txn[p].dirty
  /\ T.pairs \subseteq txn[p].pairs
  /\ T.into = txn[p].into /\ T.seen = txn[p].seen /\ T.decided = txn[p].decided
  /\ \/ txn'[p] = T
     \/ {a, b} \cap DOMAIN T.into = {} /\ MergesAlone({a, b}) /\ txn'[p] = Folded(T, a, b)
     \/ txn'[p] = [T EXCEPT !.queued = @ \cup QueuedBy(p, a, b)]

\* What Decide changes, and what it leaves alone.
LEMMA DecideEffect ==
  ASSUME IInv, NEW v \in Reviewers, Decide(v)
  PROVE  /\ DOMAIN txn' = Writers /\ \A y \in Writers \ {v} : txn'[y] = txn[y]
         /\ \E r \in DOMAIN reviews, d \in Decision : \E T : Decided(v, r, d, T)
<1>1. v \in Writers /\ DOMAIN txn = Writers
  BY Shape DEF Mergers, Writers
<1>2. PICK r \in DOMAIN reviews, d \in Decision :
        LET T == [Blank EXCEPT !.session = entities, !.decided = {[review |-> r, as |-> d]}]
        IN txn' = [txn EXCEPT ![v] = IF d = "merged" /\ {r.a, r.b} \subseteq DOMAIN entities
                                     THEN Folded(T, r.a, r.b) ELSE T]
  BY DEF Decide
<1> DEFINE T == [Blank EXCEPT !.session = entities, !.decided = {[review |-> r, as |-> d]}]
<1>3. /\ DOMAIN T = Fields /\ T.session = entities /\ T.decided = {[review |-> r, as |-> d]}
      /\ T.dirty = {} /\ T.chosen = <<>> /\ T.draft = {} /\ T.queued = {}
      /\ DOMAIN T.into = {} /\ T.seen = {} /\ T.pairs = {}
  BY BlankFields DEF Fields
<1>4. txn' = [txn EXCEPT ![v] = IF d = "merged" /\ {r.a, r.b} \subseteq DOMAIN entities
                                THEN Folded(T, r.a, r.b) ELSE T]
  BY <1>2
<1> HIDE DEF T
<1>5. r \in ReviewId /\ Pair(r)
  BY DEF IInv, TypeOK, PartialFunction, RowInv
<1>6. /\ txn'[v] = IF d = "merged" /\ {r.a, r.b} \subseteq DOMAIN entities
                   THEN Folded(T, r.a, r.b) ELSE T
      /\ DOMAIN txn' = Writers /\ \A y \in Writers \ {v} : txn'[y] = txn[y]
  BY <1>1, <1>4
<1>7. QED
  BY <1>3, <1>5, <1>6 DEF Decided

\* Decide preserves IInv.
LEMMA DecideInv ==
  ASSUME IInv, NEW v \in Reviewers, Decide(v)
  PROVE  IInv'
<1>1. v \in Mergers /\ v \in Writers /\ Begin(v, "merging")
  BY DEF Decide, Mergers, Writers
<1>0. PICK r \in DOMAIN reviews, d \in Decision : \E T : Decided(v, r, d, T)
  BY DecideEffect
<1>2. PICK T : Decided(v, r, d, T)
  BY <1>0
<1>3. Sound(T)
  <2>1. /\ PartialFunction(entities, Entity, SUBSET Names)
        /\ \A e \in DOMAIN entities : Valid(e) /\ e \in nodes
    BY DEF IInv, TypeOK, RowInv, MirrorCovers
  <2>2. T.decided \subseteq [review: ReviewId, as: Decision] /\ \A c \in T.decided : Pair(c.review)
    BY <1>2 DEF Decided
  <2>3. QED
    BY <1>2, <2>1, <2>2, FS_EmptySet DEF Decided, Sound
<1>4. Sound(txn'[v])
  <2>1. CASE d = "merged" /\ {r.a, r.b} \subseteq DOMAIN entities
    <3>1. Sound(Folded(T, r.a, r.b))
      BY <1>2, <1>3, <2>1, FoldedSound DEF Decided, Pair
    <3>2. QED
      BY <1>2, <2>1, <3>1 DEF Decided
  <2>2. CASE ~(d = "merged" /\ {r.a, r.b} \subseteq DOMAIN entities)
    BY <1>2, <1>3, <2>2 DEF Decided
  <2>3. QED
    BY <2>1, <2>2
<1>5. UNCHANGED <<rowVars, mirrorVars, try, left, approved>>
  BY DEF Decide
<1>6. Frame(v) /\ RestType' /\ phase'[v] = "merging"
  BY <1>1, <1>5, DecideEffect, BeginFacts, RestTypeHolds DEF Frame, RestType, mirrorVars
<1>7. WriterInv(v)'
  <2>1. Sound(txn[v])'
    BY <1>4, <1>5 DEF Sound, Valid, Pair, PartialFunction, mirrorVars
  <2>2. QED
    BY <1>1, <1>6, <2>1, MergerSound
<1>8. QED
  BY <1>1, <1>5, <1>6, <1>7, LocalStep

\* A merging session, seen as a value.
LEMMA SoundSession ==
  ASSUME IInv, NEW x \in Mergers, phase[x] = "merging"
  PROVE  Sound(txn[x])
<1>1. x \in Writers
  BY DEF Writers
<1>2. SessionOK(x) /\ SessionInv(x) /\ PhaseInv(x)
  BY <1>1, Shape
<1>3. QED
  BY <1>2 DEF SessionOK, SessionInv, PhaseInv, Sound

\* StartPass preserves IInv.
LEMMA StartPassInv ==
  ASSUME IInv, NEW p \in Passes, StartPass(p)
  PROVE  IInv'
<1>1. p \in Mergers /\ p \in Writers /\ Begin(p, "merging")
  BY DEF StartPass, Mergers, Writers
<1>2. UNCHANGED <<rowVars, mirrorVars, try, left, approved>>
  BY DEF StartPass
<1>3. txn[p] = Blank /\ DOMAIN txn = Writers
  BY <1>1, BeginFacts, Shape
<1>4. /\ txn'[p] = [Blank EXCEPT !.session = entities, !.pairs = Predicted]
      /\ DOMAIN txn' = Writers /\ \A y \in Writers \ {p} : txn'[y] = txn[y]
  BY <1>1, <1>3, BlankFields DEF StartPass, Fields
<1>5. /\ DOMAIN txn'[p] = Fields /\ txn'[p].session = entities /\ txn'[p].pairs = Predicted
      /\ txn'[p].dirty = {} /\ txn'[p].chosen = <<>> /\ txn'[p].draft = {} /\ txn'[p].queued = {}
      /\ DOMAIN txn'[p].into = {} /\ txn'[p].seen = {} /\ txn'[p].decided = {}
  BY <1>4, BlankFields DEF Fields
<1>6. \A pair \in Predicted : \E a, b \in DOMAIN entities : a # b /\ pair = {a, b}
  <2> SUFFICES ASSUME NEW pair \in Predicted
               PROVE  \E a, b \in DOMAIN entities : a # b /\ pair = {a, b}
    OBVIOUS
  <2>1. PICK a, b \in DOMAIN entities : pair = {a, b}
    BY DEF Predicted
  <2>2. Cardinality(pair) = 2
    BY DEF Predicted
  <2>3. Cardinality({a}) = 1
    BY FS_Singleton
  <2>4. a # b
    BY <2>1, <2>2, <2>3
  <2>5. QED
    BY <2>1, <2>4
<1>7. Sound(txn[p])'
  <2>1. /\ PartialFunction(entities, Entity, SUBSET Names)
        /\ \A e \in DOMAIN entities : Valid(e) /\ e \in nodes'
    BY <1>2 DEF IInv, TypeOK, RowInv, MirrorCovers, mirrorVars
  <2>2. QED
    BY <1>5, <1>6, <2>1, FS_EmptySet DEF Sound, Valid, Pair, PartialFunction
<1>8. Frame(p) /\ RestType' /\ phase'[p] = "merging"
  BY <1>1, <1>2, <1>4, BeginFacts, RestTypeHolds DEF Frame, RestType, mirrorVars
<1>9. QED
  BY <1>1, <1>2, <1>7, <1>8, MergerSound, LocalStep

\* What a pass queues is finitely many pairs.
LEMMA QueuedByType ==
  ASSUME IInv, NEW p \in Passes, NEW a, NEW b, Valid(a), Valid(b), a # b
  PROVE  /\ QueuedBy(p, a, b) \subseteq ReviewId /\ IsFiniteSet(QueuedBy(p, a, b))
         /\ \A r \in QueuedBy(p, a, b) : Pair(r)
<1> DEFINE R == {r \in DOMAIN reviews : r.a = a /\ r.b = b /\ r.by = p}
           n == 1 + Cardinality(R)
           q == [a |-> a, b |-> b, by |-> p, n |-> n]
<1>1. IsFiniteSet(DOMAIN reviews) /\ R \in SUBSET DOMAIN reviews
  BY DEF IInv, RowInv
<1>2. IsFiniteSet(R)
  BY <1>1, FS_Subset, Zenon
<1>3. Cardinality(R) \in Nat
  BY <1>2, FS_CardinalityType, Zenon
<1>4. n \in Nat \ {0}
  BY <1>3
<1>5. QueuedBy(p, a, b) \in {{}, {q}}
  BY DEF QueuedBy
<1> HIDE DEF n
<1>6. q \in ReviewId /\ Pair(q)
  BY <1>4 DEF ReviewId, Pair, Valid
<1> HIDE DEF q
<1>7. IsFiniteSet({}) /\ IsFiniteSet({q})
  BY FS_EmptySet, FS_Singleton, Zenon
<1>8. QED
  BY <1>5, <1>6, <1>7

\* What MergeNext changes, and what it leaves alone.
LEMMA MergeNextEffect ==
  ASSUME IInv, NEW p \in Passes, MergeNext(p)
  PROVE  /\ DOMAIN txn' = Writers /\ \A y \in Writers \ {p} : txn'[y] = txn[y]
         /\ \E a, b \in DOMAIN txn[p].session : \E T : Dealt(p, a, b, T)
<1>1. p \in Mergers /\ p \in Writers /\ phase[p] = "merging"
  BY DEF MergeNext, Mergers, Writers
<1>2. PICK a, b \in DOMAIN txn[p].session :
        LET T == [txn[p] EXCEPT !.pairs = @ \ {{a, b}}] IN
        /\ {a, b} \in txn[p].pairs
        /\ txn' = [txn EXCEPT ![p] =
                     IF {a, b} \cap DOMAIN T.into # {} THEN T
                     ELSE IF MergesAlone({a, b}) THEN Folded(T, a, b)
                     ELSE [T EXCEPT !.queued = @ \cup QueuedBy(p, a, b)]]
  BY DEF MergeNext
<1> DEFINE T == [txn[p] EXCEPT !.pairs = @ \ {{a, b}}]
<1>3. Sound(txn[p]) /\ DOMAIN txn = Writers
  BY <1>1, SoundSession, Shape
<1>4. /\ DOMAIN T = Fields /\ T.session = txn[p].session /\ T.dirty = txn[p].dirty
      /\ T.chosen = txn[p].chosen /\ T.draft = txn[p].draft /\ T.queued = txn[p].queued
      /\ T.into = txn[p].into /\ T.seen = txn[p].seen /\ T.decided = txn[p].decided
      /\ T.pairs \subseteq txn[p].pairs
  BY <1>3 DEF Sound, Fields
<1>5. /\ {a, b} \in txn[p].pairs
      /\ txn' = [txn EXCEPT ![p] =
                   IF {a, b} \cap DOMAIN T.into # {} THEN T
                   ELSE IF MergesAlone({a, b}) THEN Folded(T, a, b)
                   ELSE [T EXCEPT !.queued = @ \cup QueuedBy(p, a, b)]]
  BY <1>2
<1> HIDE DEF T
<1>6. Sound(T)
  BY <1>3, <1>4 DEF Sound
<1>7. a # b
  <2>1. PICK c, d \in DOMAIN txn[p].session : c # d /\ {a, b} = {c, d}
    BY <1>3, <1>5 DEF Sound
  <2>2. QED
    BY <2>1
<1>8. /\ txn'[p] = IF {a, b} \cap DOMAIN T.into # {} THEN T
                   ELSE IF MergesAlone({a, b}) THEN Folded(T, a, b)
                   ELSE [T EXCEPT !.queued = @ \cup QueuedBy(p, a, b)]
      /\ DOMAIN txn' = Writers /\ \A y \in Writers \ {p} : txn'[y] = txn[y]
  BY <1>1, <1>3, <1>5
<1>9. \/ txn'[p] = T
      \/ /\ {a, b} \cap DOMAIN T.into = {} /\ MergesAlone({a, b})
         /\ txn'[p] = Folded(T, a, b)
      \/ txn'[p] = [T EXCEPT !.queued = @ \cup QueuedBy(p, a, b)]
  BY <1>8
<1>10. QED
  BY <1>4, <1>5, <1>6, <1>7, <1>8, <1>9 DEF Dealt

\* Queueing a review leaves the session sound.
LEMMA QueuedSound ==
  ASSUME IInv, NEW p \in Passes, NEW T, Sound(T), NEW a, NEW b, Valid(a), Valid(b), a # b
  PROVE  LET F == [T EXCEPT !.queued = @ \cup QueuedBy(p, a, b)] IN
         /\ Sound(F)
         /\ F.into = T.into /\ F.decided = T.decided /\ F.pairs = T.pairs /\ F.seen = T.seen
<1> DEFINE Q == QueuedBy(p, a, b)
           F == [T EXCEPT !.queued = @ \cup Q]
<1>1. Q \subseteq ReviewId /\ IsFiniteSet(Q) /\ \A r \in Q : Pair(r)
  BY QueuedByType
<1> HIDE DEF Q
<1>2. DOMAIN T = Fields /\ IsFiniteSet(T.queued)
  BY DEF Sound
<1>3. /\ DOMAIN F = Fields /\ F.session = T.session /\ F.dirty = T.dirty
      /\ F.chosen = T.chosen /\ F.draft = T.draft /\ F.into = T.into
      /\ F.seen = T.seen /\ F.decided = T.decided /\ F.pairs = T.pairs
      /\ F.queued = T.queued \cup Q
  BY <1>2 DEF Fields
<1>4. IsFiniteSet(T.queued \cup Q)
  BY <1>1, <1>2, FS_Union, Zenon
<1> HIDE DEF F
<1>5. Sound(F)
  BY <1>1, <1>3, <1>4 DEF Sound
<1>6. QED
  BY <1>3, <1>5 DEF F, Q

\* MergeNext preserves IInv.
LEMMA MergeNextInv ==
  ASSUME IInv, NEW p \in Passes, MergeNext(p)
  PROVE  IInv'
<1>1. p \in Mergers /\ p \in Writers /\ phase[p] = "merging"
  BY DEF MergeNext, Mergers, Writers
<1>2. UNCHANGED <<rowVars, mirrorVars, phase, try, left, approved, overlaps>>
  BY DEF MergeNext
<1>0. PICK a, b \in DOMAIN txn[p].session : \E T : Dealt(p, a, b, T)
  BY MergeNextEffect
<1>3. PICK T : Dealt(p, a, b, T)
  BY <1>0
<1>4. Valid(a) /\ Valid(b)
  BY <1>3 DEF Dealt, Sound
<1>5. Sound(txn'[p])
  <2>1. CASE txn'[p] = T
    BY <1>3, <2>1 DEF Dealt
  <2>2. CASE {a, b} \cap DOMAIN T.into = {} /\ txn'[p] = Folded(T, a, b)
    <3>1. Sound(Folded(T, a, b))
      BY <1>3, <2>2, FoldedSound DEF Dealt
    <3>2. QED
      BY <2>2, <3>1
  <2>3. CASE txn'[p] = [T EXCEPT !.queued = @ \cup QueuedBy(p, a, b)]
    BY <1>3, <1>4, <2>3, QueuedSound DEF Dealt
  <2>4. QED
    BY <1>3, <2>1, <2>2, <2>3 DEF Dealt
<1>6. Frame(p) /\ RestType'
  BY <1>1, <1>2, MergeNextEffect, RestTypeHolds DEF Frame, RestType, mirrorVars
<1>7. WriterInv(p)'
  <2>1. Sound(txn[p])'
    BY <1>2, <1>5 DEF Sound, Valid, Pair, PartialFunction, mirrorVars
  <2>2. QED
    BY <1>1, <1>2, <2>1, MergerSound
<1>8. QED
  BY <1>1, <1>2, <1>6, <1>7, LocalStep


\* The names a review is about are names.
LEMMA ReviewNames ==
  ASSUME NEW r, Pair(r)
  PROVE  {NameOf(r.a), NameOf(r.b)} \in SUBSET Names
  BY NameType DEF Pair

\* CommitMerge preserves IInv.
LEMMA CommitMergeInv ==
  ASSUME IInv, NEW x \in Mergers, CommitMerge(x)
  PROVE  IInv'
<1>1. /\ x \in Writers /\ phase[x] = "merging" /\ End(x, "idle")
      /\ UNCHANGED <<mirrorVars, try, left, overlaps>>
  BY DEF CommitMerge, Writers
<1>2. Sound(txn[x])
  BY <1>1, SoundSession
<1>3. /\ DOMAIN entities' \subseteq DOMAIN entities
      /\ PartialFunction(entities, Entity, SUBSET Names)'
  <2>1. entities' = [e \in DOMAIN entities \ DOMAIN txn[x].into |->
                       IF e \in txn[x].dirty THEN txn[x].session[e] ELSE entities[e]]
    BY DEF CommitMerge
  <2>2. DOMAIN entities' = DOMAIN entities \ DOMAIN txn[x].into
    BY <2>1
  <2>3. \A e \in DOMAIN entities : e \in Entity /\ entities[e] \in SUBSET Names
    BY DEF IInv, TypeOK, PartialFunction
  <2>4. \A e \in txn[x].dirty : txn[x].session[e] \in SUBSET Names
    BY <1>2 DEF Sound, PartialFunction
  <2>5. QED
    BY <2>1, <2>2, <2>3, <2>4 DEF PartialFunction
<1>4. \A ref, d : Repointed(x, ref, d) = d \/ Repointed(x, ref, d) \in Entity
  <2>1. \A s \in txn[x].seen : txn[x].into[s.of] \in Entity
    BY <1>2 DEF Sound, PartialFunction
  <2>2. QED
    BY <2>1 DEF Repointed
<1>5. /\ DOMAIN target' = DOMAIN target
      /\ PartialFunction(target, Mention, Entity)'
  BY <1>4 DEF CommitMerge, IInv, TypeOK, PartialFunction
<1>6. edges' \subseteq Edge /\ \A z \in edges' : \E y \in edges : z.id = y.id
  <2> SUFFICES ASSUME NEW z \in edges'
               PROVE  z \in Edge /\ \E y \in edges : z.id = y.id
    OBVIOUS
  <2>1. PICK y \in edges : z = [y EXCEPT !.from = Repointed(x, y.id, @), !.to = Repointed(x, y.id, @)]
    BY DEF CommitMerge, Kept
  <2>2. y \in Edge
    BY DEF IInv, TypeOK
  <2>3. Repointed(x, y.id, y.from) \in Entity /\ Repointed(x, y.id, y.to) \in Entity
    BY <1>4, <2>2 DEF Edge
  <2>4. QED
    BY <2>1, <2>2, <2>3 DEF Edge
<1>7. DOMAIN reviews' = DOMAIN reviews \cup txn[x].queued
  BY DEF CommitMerge
<1>8. PartialFunction(reviews, ReviewId, Decision \cup {"pending"})'
  <2>1. \A r \in DOMAIN reviews' : r \in ReviewId
    BY <1>2, <1>7 DEF IInv, TypeOK, PartialFunction, Sound
  <2>2. \A r \in DOMAIN reviews : reviews[r] \in Decision \cup {"pending"}
    BY DEF IInv, TypeOK, PartialFunction
  <2>3. \A r : (\E c \in txn[x].decided : c.review = r) =>
                 (CHOOSE c \in txn[x].decided : c.review = r).as \in Decision
    BY <1>2 DEF Sound
  <2>4. \A r \in DOMAIN reviews' : reviews'[r] \in Decision \cup {"pending"}
    BY <1>7, <2>2, <2>3 DEF CommitMerge
  <2>5. QED
    BY <2>1, <2>4 DEF PartialFunction
<1>9. IsFiniteSet(DOMAIN reviews') /\ \A r \in DOMAIN reviews' : Pair(r)
  <2>1. IsFiniteSet(DOMAIN reviews) /\ IsFiniteSet(txn[x].queued)
    BY <1>2 DEF Sound, IInv, RowInv
  <2>2. IsFiniteSet(DOMAIN reviews \cup txn[x].queued)
    BY <2>1, FS_Union, Zenon
  <2>3. QED
    BY <1>2, <1>7, <2>2 DEF Sound, IInv, RowInv
<1>10. approved' \subseteq SUBSET Names
  <2>1. \A c \in txn[x].decided : {NameOf(c.review.a), NameOf(c.review.b)} \in SUBSET Names
    BY <1>2, ReviewNames DEF Sound
  <2>2. \A S \in approved' : \/ S \in approved
                             \/ \E c \in txn[x].decided : S = {NameOf(c.review.a), NameOf(c.review.b)}
    BY DEF CommitMerge
  <2>3. QED
    BY <2>1, <2>2, RestTypeHolds DEF RestType
<1>11. RowInv'
  <2>1. phase' = [phase EXCEPT ![x] = "idle"] /\ phase \in [Writers -> Phases]
    BY <1>1, Shape DEF End
  <2>2. \A e \in DOMAIN entities' : Valid(e) /\ phase'[e.doc] = "done" /\ e \in nodes
    BY <1>1, <1>3, <2>1 DEF IInv, RowInv, MirrorCovers, Valid, Entity, Writers
  <2>3. \A m \in DOMAIN target' : m.pos \in DOMAIN Text[m.doc]
    BY <1>5 DEF IInv, RowInv
  <2>4. \A z \in edges' : \E r \in rels : r.id = z.id
    BY <1>6 DEF IInv, RowInv, MirrorCovers
  <2>5. QED
    BY <1>1, <1>9, <2>2, <2>3, <2>4 DEF RowInv, MirrorCovers, Valid, Pair, mirrorVars
<1>12. QED
  BY <1>1, <1>3, <1>5, <1>6, <1>8, <1>10, <1>11, CommitStep

\* MergeRaises preserves IInv.
LEMMA MergeRaisesInv ==
  ASSUME IInv, NEW x \in Mergers, MergeRaises(x)
  PROVE  IInv'
<1>1. x \in Writers /\ phase[x] # "done" /\ End(x, "idle")
  BY DEF MergeRaises, Writers, Open
<1>2. UNCHANGED <<rowVars, mirrorVars, try, approved, overlaps>> /\ left' \in Nat
  BY RestTypeHolds DEF MergeRaises, Raise, RestType
<1>3. Frame(x) /\ phase' \in [Writers -> Phases] /\ WriterInv(x)'
  BY <1>1, <1>2, EndFacts DEF mirrorVars
<1>4. RestType'
  BY <1>2, <1>3, RestTypeHolds DEF RestType, mirrorVars
<1>5. QED
  BY <1>1, <1>2, <1>3, <1>4, LocalStep

-----------------------------------------------------------------------------
\* IInv holds at first.
LEMMA InitIInv == Init => IInv
<1> SUFFICES ASSUME Init PROVE IInv
  OBVIOUS
<1>1. \A x \in Writers : phase[x] = "idle" /\ txn[x] = Blank
  BY DEF Init
<1>2. ASSUME NEW x \in Writers
      PROVE  WriterInv(x)
  <2> txn[x] = Blank
    BY <1>1
  <2>1. SessionOK(x)
    BY BlankFields DEF SessionOK, PartialFunction
  <2>2. SessionInv(x)
    BY BlankFields, FS_EmptySet DEF SessionInv
  <2>3. PhaseInv(x)
    BY <1>1, BlankFields DEF PhaseInv, Open
  <2>4. QED
    BY <2>1, <2>2, <2>3 DEF WriterInv
<1>3. TypeOK
  BY <1>2, BoundAssumption, EmptyFunction DEF Init, TypeOK, PartialFunction, WriterInv
<1>4. RowInv
  BY FS_EmptySet, EmptyFunction DEF Init, RowInv, MirrorCovers
<1>5. QED
  BY <1>2, <1>3, <1>4 DEF IInv

\* A stuttering step preserves IInv.
LEMMA StutterIInv == IInv /\ UNCHANGED vars => IInv'
<1> SUFFICES ASSUME IInv, UNCHANGED vars PROVE IInv'
  OBVIOUS
<1> USE DEF vars, rowVars, mirrorVars
<1>1. ASSUME NEW x \in Writers
      PROVE  WriterInv(x)'
  <2>1. SessionOK(x)' /\ SessionInv(x)'
    BY Shape DEF SessionOK, SessionInv, PartialFunction, Valid, Pair
  <2>2. PhaseInv(x)'
    BY Shape DEF PhaseInv, Open
  <2>3. QED
    BY <2>1, <2>2 DEF WriterInv
<1>2. TypeOK'
  BY <1>1 DEF IInv, TypeOK, PartialFunction, WriterInv
<1>3. RowInv'
  BY DEF IInv, RowInv, MirrorCovers, Valid, Pair
<1>4. QED
  BY <1>1, <1>2, <1>3 DEF IInv

\* Every step preserves IInv.
LEMMA NextIInv == IInv /\ [Next]_vars => IInv'
<1>1. ASSUME IInv, NEW t \in Docs, DocumentStep(t)
      PROVE  IInv'
  BY <1>1, StartDocumentInv, ResolveMentionInv, CreateEntityInv, PromoteInv, CommitDocumentInv,
     DocumentRaisesInv DEF DocumentStep
<1>2. ASSUME IInv, NEW x \in Mergers, MergeStep(x)
      PROVE  IInv'
  BY <1>2, CommitMergeInv, MergeRaisesInv DEF MergeStep
<1>3. ASSUME IInv, NEW p \in Passes, PassStep(p)
      PROVE  IInv'
  BY <1>2, <1>3, StartPassInv, MergeNextInv DEF PassStep, Mergers
<1>4. QED
  BY <1>1, <1>2, <1>3, DecideInv, StutterIInv DEF Next, Mergers

\* IInv is an invariant.
LEMMA IInvHolds == Spec => []IInv
  BY InitIInv, NextIInv, PTL DEF Spec

\* Every row, session and mirrored node has its type.
THEOREM TypeCorrect == Spec => []TypeOK
<1>1. IInv => TypeOK
  BY DEF IInv
<1>2. QED
  BY <1>1, IInvHolds, PTL

\* Every committed entity and edge is in Neo4j, however many attempts it took: sync_entity and
\* upsert_edge run before the commit and are never undone.
THEOREM MirrorCorrect == Spec => []MirrorCovers
<1>1. IInv => MirrorCovers
  BY DEF IInv, RowInv
<1>2. QED
  BY <1>1, IInvHolds, PTL

-----------------------------------------------------------------------------
(* Nothing is merged on a guess. *)

\* Belonging together follows from a link, composes, and survives more approvals.
LEMMA Linked ==
  ASSUME NEW A, NEW n \in Names, NEW m \in Names, Same(A, n, m) \/ Same(A, m, n)
  PROVE  Together(A, n, m)
  BY DEF Together

\* Names brought together in two steps are together.
LEMMA Chained ==
  ASSUME NEW A, NEW a, NEW b, NEW c, Together(A, a, b), Together(A, b, c)
  PROVE  Together(A, a, c)
  BY DEF Together

\* Names stay together as more is approved.
LEMMA StillTogether ==
  ASSUME NEW A, NEW B, A \subseteq B, NEW n, NEW m, Together(A, n, m)
  PROVE  Together(B, n, m)
<1>1. \A u, v : Same(A, u, v) => Same(B, u, v)
  BY DEF Same
<1>2. CASE n = m
  BY <1>2 DEF Together
<1>3. CASE n # m
  <2> SUFFICES ASSUME NEW S \in SUBSET Names, n \in S,
                      \A u \in S, v \in Names : Same(B, u, v) \/ Same(B, v, u) => v \in S
               PROVE  m \in S
    BY DEF Together
  <2>1. \A u \in S, v \in Names : Same(A, u, v) \/ Same(A, v, u) => v \in S
    BY <1>1
  <2>2. QED
    BY <1>3, <2>1 DEF Together
<1>4. QED
  BY <1>2, <1>3

\* The property of the specification, with the pairs decided on as a parameter.
LEMMA TargetInvIsIt == MergesAreDeliberate <=> TargetInv
  BY DEF MergesAreDeliberate, TargetInv, BelongTogether, SameThing, Together, Same

\* A pass merges by itself only what Splink is certain of, in one direction or the other.
LEMMA MergedAlone ==
  ASSUME NEW a, NEW b, Valid(a), Valid(b), MergesAlone({a, b}), a # b
  PROVE  \A A : Together(A, NameOf(b), NameOf(a))
<1> DEFINE P(l) == \E x, y \in {a, b} : x # y /\ BatchScore[NameOf(x)][NameOf(y)] = l
<1>1. NameOf(a) \in Names /\ NameOf(b) \in Names
  BY NameType
<1>2. BatchScore[NameOf(a)][NameOf(b)] \in {Low, Review, High}
  BY <1>1, ScoreAssumption
<1>3. \E l \in {Low, Review, High} : P(l)
  BY <1>2
<1>4. Level({a, b}) = CHOOSE l \in {Low, Review, High} : P(l)
  BY DEF Level
<1>5. P(Level({a, b}))
  BY <1>3, <1>4
<1>6. PICK x, y \in {a, b} : x # y /\ BatchScore[NameOf(x)][NameOf(y)] = High
  BY <1>5 DEF MergesAlone
<1>7. \A A : Same(A, NameOf(a), NameOf(b)) \/ Same(A, NameOf(b), NameOf(a))
  BY <1>6 DEF Same
<1>8. QED
  BY <1>1, <1>7, Linked

\* Only x's session changes.
OnlySession(x) == \A y \in Writers \ {x} : txn'[y] = txn[y]

\* A step of x that leaves the mentions where they are.
LEMMA NamesStep ==
  ASSUME NamesInv, NEW x \in Writers, OnlySession(x), approved \subseteq approved',
         TargetInv', NameInv(x)'
  PROVE  NamesInv'
<1> SUFFICES ASSUME NEW y \in Writers, y # x
             PROVE  NameInv(y)'
  BY DEF NamesInv
<1>1. NameInv(y) /\ txn'[y] = txn[y]
  BY DEF NamesInv, OnlySession
<1>2. \A n, m : Together(approved, n, m) => Together(approved', n, m)
  BY StillTogether
<1>3. \A n, m : Told(y, n, m) => Told(y, n, m)'
  BY <1>1 DEF Told
<1>4. QED
  BY <1>1, <1>2, <1>3 DEF NameInv

\* A step that leaves the mentions alone leaves them where they belong.
LEMMA TargetStays ==
  ASSUME NamesInv, target' = target, approved' = approved
  PROVE  TargetInv'
  BY DEF NamesInv, TargetInv

\* A session that holds nothing brings nothing together.
LEMMA BlankNames ==
  ASSUME NEW x, txn'[x] = Blank
  PROVE  NameInv(x)'
  BY BlankFields, EmptyFunction DEF NameInv

\* Raising discards the session.
LEMMA RaiseNames ==
  ASSUME IInv, NamesInv, NEW x \in Writers, NEW p, End(x, p), UNCHANGED <<target, approved>>
  PROVE  NamesInv'
<1>1. txn'[x] = Blank /\ OnlySession(x)
  BY Shape DEF End, OnlySession
<1>2. QED
  BY <1>1, BlankNames, NamesStep, TargetStays

\* StartDocument preserves NamesInv.
LEMMA StartDocumentNames ==
  ASSUME IInv, NamesInv, NEW t \in Docs, StartDocument(t)
  PROVE  NamesInv'
<1>1. t \in Writers /\ txn' = txn /\ target' = target /\ approved' = approved
  BY DEF StartDocument, Writers, rowVars
<1>2. txn'[t] = Blank
  BY <1>1, BeginFacts DEF StartDocument
<1>3. QED
  BY <1>1, <1>2, BlankNames, NamesStep, TargetStays DEF OnlySession

\* What t's session brings together after one more mention.
LEMMA ChosenNames ==
  ASSUME IInv, NamesInv, NEW t \in Docs, phase[t] = "resolving",
         NEW e \in Entity, txn'[t].chosen = Append(txn[t].chosen, e), KeepsMerge(t),
         Together(approved, Mentioned(t), NameOf(e)), approved' = approved
  PROVE  NameInv(t)'
<1>1. NameInv(t) /\ t \in Writers
  BY DEF NamesInv, Writers
<1>2. txn[t].chosen \in Seq(Entity)
  BY MentionFacts
<1>3. \A i \in DOMAIN txn'[t].chosen :
        \/ i = Len(txn[t].chosen) + 1 /\ txn'[t].chosen[i] = e
        \/ i \in DOMAIN txn[t].chosen /\ txn'[t].chosen[i] = txn[t].chosen[i]
  BY <1>2
<1>4. \A i \in DOMAIN txn'[t].chosen : Together(approved, Text[t][i], NameOf(txn'[t].chosen[i]))
  BY <1>1, <1>3 DEF NameInv, Mentioned
<1>6. \A n, m : Told(t, n, m)' <=> Told(t, n, m)
  BY DEF Told, KeepsMerge
<1>7. QED
  BY <1>1, <1>4, <1>6 DEF NameInv, KeepsMerge

\* ResolveMention preserves NamesInv.
LEMMA ResolveMentionNames ==
  ASSUME IInv, NamesInv, NEW t \in Docs, ResolveMention(t)
  PROVE  NamesInv'
<1>1. /\ t \in Writers /\ phase[t] = "resolving" /\ target' = target /\ approved' = approved
  BY DEF ResolveMention, Writers, rowVars
<1>2. PICK e \in Matches(t, High) :
        /\ e \in DOMAIN Loaded(t)
        /\ txn'[t].chosen = Append(txn[t].chosen, e)
        /\ txn[t].dirty \subseteq txn'[t].dirty /\ txn'[t].dirty \subseteq txn[t].dirty \cup {e}
  BY ResolveMentionEffect
<1>3. e \in Entity /\ Valid(e)
  BY <1>1, <1>2, LoadedFacts
<1>4. Mentioned(t) \in Names /\ NameOf(e) \in Names
  BY <1>1, <1>3, MentionFacts, NameType
<1>5. Together(approved, Mentioned(t), NameOf(e))
  BY <1>4, Linked DEF Matches, Same
<1>6. NameInv(t)' /\ OnlySession(t)
  BY <1>1, <1>2, <1>3, <1>5, ChosenNames, ResolveMentionEffect DEF OnlySession
<1>7. QED
  BY <1>1, <1>6, NamesStep, TargetStays

\* CreateEntity preserves NamesInv.
LEMMA CreateEntityNames ==
  ASSUME IInv, NamesInv, NEW t \in Docs, CreateEntity(t)
  PROVE  NamesInv'
<1>1. /\ t \in Writers /\ phase[t] = "resolving" /\ target' = target /\ approved' = approved
  BY DEF CreateEntity, Writers, rowVars
<1>2. /\ NewEntity(t) \in Entity /\ Together(approved, Mentioned(t), NameOf(NewEntity(t)))
  BY <1>1, MentionFacts DEF Valid, Together
<1>3. NameInv(t)' /\ OnlySession(t)
  BY <1>1, <1>2, ChosenNames, CreateEntityEffect DEF OnlySession
<1>4. QED
  BY <1>1, <1>3, NamesStep, TargetStays

\* Promote preserves NamesInv.
LEMMA PromoteNames ==
  ASSUME IInv, NamesInv, NEW t \in Docs, Promote(t)
  PROVE  NamesInv'
<1>1. t \in Writers /\ target' = target /\ approved' = approved
  BY DEF Promote, Writers, rowVars
<1>2. txn'[t].chosen = txn[t].chosen /\ KeepsMerge(t) /\ OnlySession(t)
  BY PromoteEffect DEF OnlySession
<1>4. \A n, m : Told(t, n, m)' <=> Told(t, n, m)
  BY <1>2 DEF Told, KeepsMerge
<1>5. NameInv(t)'
  BY <1>1, <1>2, <1>4 DEF NamesInv, NameInv, KeepsMerge
<1>6. QED
  BY <1>1, <1>2, <1>5, NamesStep, TargetStays

\* CommitDocument preserves NamesInv.
LEMMA CommitDocumentNames ==
  ASSUME IInv, NamesInv, NEW t \in Docs, CommitDocument(t)
  PROVE  NamesInv'
<1>1. t \in Writers /\ phase[t] = "committing" /\ End(t, "done") /\ approved' = approved
  BY DEF CommitDocument, Writers
<1>2. txn'[t] = Blank /\ OnlySession(t)
  BY <1>1, Shape DEF End, OnlySession
<1>4. target' = [m \in DOMAIN target \cup {[doc |-> t, pos |-> i] : i \in DOMAIN Text[t]} |->
                   IF m.doc = t THEN txn[t].chosen[m.pos] ELSE target[m]]
  BY DEF CommitDocument
<1>5. \A i \in DOMAIN Text[t] : Together(approved, Text[t][i], NameOf(txn[t].chosen[i]))
  BY <1>1, EndpointFacts DEF NamesInv, NameInv
<1>6. \A m \in DOMAIN target' : Together(approved, Text[m.doc][m.pos], NameOf(target'[m]))
  <2> SUFFICES ASSUME NEW m \in DOMAIN target'
               PROVE  Together(approved, Text[m.doc][m.pos], NameOf(target'[m]))
    OBVIOUS
  <2>1. CASE m.doc = t
    <3>1. m.pos \in DOMAIN Text[t]
      BY <1>4, <2>1 DEF IInv, RowInv
    <3>2. QED
      BY <1>4, <1>5, <2>1, <3>1
  <2>2. CASE m.doc # t
    <3>1. m \in DOMAIN target /\ target'[m] = target[m]
      BY <1>4, <2>2
    <3>2. QED
      BY <3>1 DEF NamesInv, TargetInv
  <2>3. QED
    BY <2>1, <2>2
<1>7. TargetInv'
  BY <1>1, <1>6 DEF TargetInv
<1>8. NameInv(t)'
  BY <1>2, BlankNames
<1>9. QED
  BY <1>1, <1>2, <1>7, <1>8, NamesStep

\* Decide preserves NamesInv.
LEMMA DecideNames ==
  ASSUME IInv, NamesInv, NEW v \in Reviewers, Decide(v)
  PROVE  NamesInv'
<1>1. v \in Writers /\ v \notin Docs /\ target' = target /\ approved' = approved
  BY WriterAssumption DEF Decide, Mergers, Writers, rowVars
<1>2. PICK r \in DOMAIN reviews, d \in Decision : \E T : Decided(v, r, d, T)
  BY DecideEffect
<1>3. PICK T : Decided(v, r, d, T)
  BY <1>2
<1>4. NameInv(v)'
  <2>1. CASE d = "merged" /\ {r.a, r.b} \subseteq DOMAIN entities
    <3>1. txn'[v] = Folded(T, r.a, r.b) /\ DOMAIN T = Fields /\ r.a \in DOMAIN T.session
      BY <1>3, <2>1 DEF Decided
    <3>2. /\ txn'[v].into = [f \in DOMAIN T.into \cup {r.b} |->
                               IF f = r.b \/ T.into[f] = r.b THEN r.a ELSE T.into[f]]
          /\ txn'[v].decided = T.decided /\ txn'[v].pairs = T.pairs
      <4>1. /\ Folded(T, r.a, r.b).into = [f \in DOMAIN T.into \cup {r.b} |->
                                             IF f = r.b \/ T.into[f] = r.b THEN r.a ELSE T.into[f]]
            /\ Folded(T, r.a, r.b).decided = T.decided /\ Folded(T, r.a, r.b).pairs = T.pairs
        BY <3>1 DEF Folded, Fields
      <4>2. QED
        BY <3>1, <4>1
    <3>3. /\ DOMAIN T.into = {} /\ T.pairs = {} /\ T.decided = {[review |-> r, as |-> "merged"]}
      BY <1>3, <2>1 DEF Decided
    <3>4. DOMAIN txn'[v].into = {r.b} /\ txn'[v].into[r.b] = r.a
      BY <3>2, <3>3
    <3>5. Told(v, NameOf(r.b), NameOf(r.a))'
      BY <3>2, <3>3 DEF Told
    <3>6. QED
      BY <1>1, <3>2, <3>3, <3>4, <3>5 DEF NameInv
  <2>2. CASE ~(d = "merged" /\ {r.a, r.b} \subseteq DOMAIN entities)
    BY <1>1, <1>3, <2>2 DEF Decided, NameInv
  <2>3. QED
    BY <2>1, <2>2
<1>5. QED
  BY <1>1, <1>4, DecideEffect, NamesStep, TargetStays DEF OnlySession

\* StartPass preserves NamesInv.
LEMMA StartPassNames ==
  ASSUME IInv, NamesInv, NEW p \in Passes, StartPass(p)
  PROVE  NamesInv'
<1>1. /\ p \in Writers /\ p \notin Docs /\ target' = target /\ approved' = approved
      /\ Begin(p, "merging")
  BY WriterAssumption DEF StartPass, Mergers, Writers, rowVars
<1>2. txn[p] = Blank /\ DOMAIN txn = Writers
  BY <1>1, BeginFacts, Shape
<1>3. txn'[p] = [Blank EXCEPT !.session = entities, !.pairs = Predicted] /\ OnlySession(p)
  BY <1>1, <1>2, BlankFields DEF StartPass, Fields, OnlySession
<1>4. DOMAIN txn'[p].into = {} /\ txn'[p].decided = {}
  BY <1>3, BlankFields DEF Fields
<1>5. NameInv(p)'
  BY <1>1, <1>4 DEF NameInv
<1>6. QED
  BY <1>1, <1>3, <1>5, NamesStep, TargetStays

\* MergeNext preserves NamesInv.
LEMMA MergeNextNames ==
  ASSUME IInv, NamesInv, NEW p \in Passes, MergeNext(p)
  PROVE  NamesInv'
<1>1. /\ p \in Writers /\ p \notin Docs /\ target' = target /\ approved' = approved
  BY WriterAssumption DEF MergeNext, Mergers, Writers, rowVars
<1>2. PICK a, b \in DOMAIN txn[p].session : \E T : Dealt(p, a, b, T)
  BY MergeNextEffect
<1>3. PICK T : Dealt(p, a, b, T)
  BY <1>2
<1>4. /\ DOMAIN T = Fields /\ a # b /\ Valid(a) /\ Valid(b) /\ a \in DOMAIN T.session
      /\ T.into = txn[p].into /\ txn[p].decided = {} /\ T.decided = {}
  BY <1>1, <1>3 DEF Dealt, Sound, NamesInv, NameInv
<1>5. \A d \in DOMAIN txn[p].into : Together(approved, NameOf(d), NameOf(txn[p].into[d]))
  BY <1>1, <1>4 DEF NamesInv, NameInv, Told
<1>7. /\ txn'[p].decided = {}
      /\ \A d \in DOMAIN txn'[p].into : Together(approved, NameOf(d), NameOf(txn'[p].into[d]))
  <2>1. CASE txn'[p] = T
    BY <1>4, <1>5, <2>1
  <2>2. CASE /\ MergesAlone({a, b}) /\ txn'[p] = Folded(T, a, b)
    <3>1. /\ txn'[p].into = [d \in DOMAIN T.into \cup {b} |->
                               IF d = b \/ T.into[d] = b THEN a ELSE T.into[d]]
          /\ txn'[p].decided = T.decided
      <4>1. /\ Folded(T, a, b).into = [d \in DOMAIN T.into \cup {b} |->
                                         IF d = b \/ T.into[d] = b THEN a ELSE T.into[d]]
            /\ Folded(T, a, b).decided = T.decided
        BY <1>4 DEF Folded, Fields
      <4>2. QED
        BY <2>2, <4>1
    <3>2. Together(approved, NameOf(b), NameOf(a))
      BY <1>4, <2>2, MergedAlone
    <3>3. ASSUME NEW d \in DOMAIN T.into \cup {b}
          PROVE  Together(approved, NameOf(d), NameOf(txn'[p].into[d]))
      <4>1. CASE d = b
        BY <3>1, <3>2, <4>1
      <4>2. CASE d # b /\ T.into[d] = b
        BY <1>4, <1>5, <3>1, <3>2, <4>2, Chained
      <4>3. CASE d # b /\ T.into[d] # b
        BY <1>4, <1>5, <3>1, <4>3
      <4>4. QED
        BY <4>1, <4>2, <4>3
    <3>4. QED
      BY <1>4, <3>1, <3>3
  <2>3. CASE txn'[p] = [T EXCEPT !.queued = @ \cup QueuedBy(p, a, b)]
    <3>1. txn'[p].into = T.into /\ txn'[p].decided = T.decided
      BY <1>4, <2>3 DEF Fields
    <3>2. QED
      BY <1>4, <1>5, <3>1
  <2>4. QED
    BY <1>3, <2>1, <2>2, <2>3 DEF Dealt
<1>8. NameInv(p)'
  BY <1>1, <1>7 DEF NameInv
<1>9. QED
  BY <1>1, <1>8, MergeNextEffect, NamesStep, TargetStays DEF OnlySession

\* CommitMerge preserves NamesInv.
LEMMA CommitMergeNames ==
  ASSUME IInv, NamesInv, NEW x \in Mergers, CommitMerge(x)
  PROVE  NamesInv'
<1>1. /\ x \in Writers /\ x \notin Docs /\ phase[x] = "merging" /\ End(x, "idle")
      /\ approved \subseteq approved'
      /\ approved' = approved \cup {{NameOf(c.review.a), NameOf(c.review.b)} :
                                      c \in {d \in txn[x].decided : d.as = "merged"}}
      /\ target' = [m \in DOMAIN target |-> Repointed(x, m, target[m])]
  BY WriterAssumption DEF CommitMerge, Writers
<1>2. txn'[x] = Blank /\ OnlySession(x) /\ Sound(txn[x])
  BY <1>1, Shape, SoundSession DEF End, OnlySession
<1>3. ASSUME NEW d \in DOMAIN txn[x].into
      PROVE  Together(approved', NameOf(d), NameOf(txn[x].into[d]))
  <2>1. Valid(d) /\ Valid(txn[x].into[d])
    BY <1>2 DEF Sound
  <2>2. NameOf(d) \in Names /\ NameOf(txn[x].into[d]) \in Names
    BY <2>1, NameType
  <2>3. CASE Together(approved, NameOf(d), NameOf(txn[x].into[d]))
    BY <1>1, <2>3, StillTogether
  <2>4. CASE Told(x, NameOf(d), NameOf(txn[x].into[d]))
    <3>1. {NameOf(d), NameOf(txn[x].into[d])} \in approved'
      BY <1>1, <2>4 DEF Told
    <3>2. QED
      BY <2>2, <3>1, Linked DEF Same
  <2>5. QED
    BY <1>1, <2>3, <2>4 DEF NamesInv, NameInv
<1>4. ASSUME NEW m \in DOMAIN target
      PROVE  Together(approved', Text[m.doc][m.pos], NameOf(target'[m]))
  <2>1. Together(approved', Text[m.doc][m.pos], NameOf(target[m]))
    BY <1>1, StillTogether DEF NamesInv, TargetInv
  <2>2. target'[m] = Repointed(x, m, target[m])
    BY <1>1
  <2>3. CASE [ref |-> m, of |-> target[m]] \in txn[x].seen
    <3>1. target[m] \in DOMAIN txn[x].into
      BY <1>2, <2>3 DEF Sound
    <3>2. target'[m] = txn[x].into[target[m]]
      BY <2>2, <2>3 DEF Repointed
    <3>3. Together(approved', NameOf(target[m]), NameOf(txn[x].into[target[m]]))
      BY <1>3, <3>1
    <3>4. QED
      BY <2>1, <3>2, <3>3, Chained
  <2>4. CASE [ref |-> m, of |-> target[m]] \notin txn[x].seen
    BY <2>1, <2>2, <2>4 DEF Repointed
  <2>5. QED
    BY <2>3, <2>4
<1>5. TargetInv'
  BY <1>1, <1>4 DEF TargetInv
<1>6. NameInv(x)'
  BY <1>2, BlankNames
<1>7. QED
  BY <1>1, <1>2, <1>5, <1>6, NamesStep

\* NamesInv holds at first.
LEMMA InitNames == Init => NamesInv
  BY BlankFields, EmptyFunction DEF Init, NamesInv, TargetInv, NameInv

\* Every step preserves NamesInv.
LEMMA NextNames == IInv /\ NamesInv /\ [Next]_vars => NamesInv'
<1> SUFFICES ASSUME IInv, NamesInv, [Next]_vars PROVE NamesInv'
  OBVIOUS
<1>1. ASSUME NEW t \in Docs, DocumentStep(t)
      PROVE  NamesInv'
  <2>1. ASSUME DocumentRaises(t)
        PROVE  NamesInv'
    <3>1. t \in Writers /\ UNCHANGED <<target, approved>> /\ \E p : End(t, p)
      BY <2>1 DEF DocumentRaises, Writers, rowVars
    <3>2. QED
      BY <3>1, RaiseNames
  <2>2. QED
    BY <1>1, <2>1, StartDocumentNames, ResolveMentionNames, CreateEntityNames, PromoteNames,
       CommitDocumentNames DEF DocumentStep
<1>2. ASSUME NEW x \in Mergers, MergeStep(x)
      PROVE  NamesInv'
  <2>1. ASSUME MergeRaises(x)
        PROVE  NamesInv'
    <3>1. x \in Writers /\ UNCHANGED <<target, approved>> /\ End(x, "idle")
      BY <2>1 DEF MergeRaises, Writers, rowVars
    <3>2. QED
      BY <3>1, RaiseNames
  <2>2. QED
    BY <1>2, <2>1, CommitMergeNames DEF MergeStep
<1>3. ASSUME NEW p \in Passes, PassStep(p)
      PROVE  NamesInv'
  BY <1>2, <1>3, StartPassNames, MergeNextNames DEF PassStep, Mergers
<1>4. ASSUME UNCHANGED vars
      PROVE  NamesInv'
  BY <1>4 DEF vars, rowVars, NamesInv, TargetInv, NameInv, Told
<1>5. QED
  BY <1>1, <1>2, <1>3, <1>4, DecideNames DEF Next, Mergers

\* NamesInv is an invariant.
LEMMA NamesHold == Spec => []NamesInv
  BY InitNames, NextNames, IInvHolds, PTL DEF Spec

\* A mention is only ever resolved to an entity that belongs together with it: by the score of
\* _resolve_mention, by that of a pass, or because a reviewer said so.
THEOREM NothingMergedOnAGuess == Spec => []MergesAreDeliberate
<1>1. NamesInv => MergesAreDeliberate
  BY TargetInvIsIt DEF NamesInv
<1>2. QED
  BY <1>1, NamesHold, PTL

-----------------------------------------------------------------------------
(* Settled facts survive. *)

\* Transactions that are open together have overlapped, so neither was alone.
LEMMA Apart ==
  ASSUME FactInv, NEW x \in Writers, NEW y \in Writers, x # y, Open(x), Open(y)
  PROVE  /\ {x, y} \in overlaps
         /\ ~Alone(x)
         /\ x \in Mergers /\ y \in Mergers => \A t : ~Settled(t)
<1>1. {x, y} \in overlaps
  BY DEF FactInv, OverlapInv
<1>2. QED
  BY <1>1 DEF Alone, Settled

\* Whoever has something to write is in the middle of it.
LEMMA Busy ==
  ASSUME IInv, NEW x \in Writers, txn[x].draft # {} \/ DOMAIN txn[x].into # {}
  PROVE  Open(x)
  BY Shape, BlankFields DEF PhaseInv

\* A settled document is done, and no open transaction overlaps it.
LEMMA SettledFacts ==
  ASSUME NEW t, Settled(t)
  PROVE  phase[t] = "done" /\ (t \in Writers => Alone(t))
  BY DEF Settled, Alone

\* A step of x that ends before a commit takes nothing away.
LEMMA QuietStep ==
  ASSUME IInv, FactInv, NEW x \in Writers, Frame(x), UNCHANGED <<entities, target, edges>>,
         overlaps \subseteq overlaps', phase'[x] # "done", \A u \in Docs \ {x} : try'[u] = try[u],
         OverlapInv', x \in Docs => DraftInv(x)' /\ OwnDraftInv(x)', SeenInv(x)'
  PROVE  FactInv'
<1>1. \A t \in Docs : t \in Writers /\ (phase'[t] = "done" <=> phase[t] = "done")
  BY DEF Frame, Writers
<1>2. \A t : Alone(t)' => Alone(t)
  BY DEF Alone
<1>3. \A t \in Docs : Settled(t)' => Settled(t)
  BY <1>1 DEF Settled
<1>4. EdgeInv'
  BY <1>1 DEF FactInv, EdgeInv, IInv, TypeOK, Edge, EdgeId
<1>5. ASSUME NEW u \in Docs, u # x
      PROVE  DraftInv(u)' /\ OwnDraftInv(u)'
  <2>1. DraftInv(u) /\ OwnDraftInv(u)
    BY DEF FactInv
  <2>2. txn'[u] = txn[u] /\ phase'[u] = phase[u] /\ try'[u] = try[u]
    BY <1>1, <1>5 DEF Frame
  <2>3. \A y \in txn[u].draft : y.id.doc \in Docs
    BY <1>1, Shape DEF SessionOK, Edge, EdgeId
  <2>4. DraftInv(u)'
    BY <1>1, <1>2, <2>1, <2>2, <2>3 DEF DraftInv
  <2>5. OwnDraftInv(u)'
    BY <1>2, <2>1, <2>2 DEF OwnDraftInv, From, To
  <2>6. QED
    BY <2>4, <2>5
<1>6. \A t \in Docs : DoneInv(t)'
  BY <1>1 DEF FactInv, DoneInv
<1>7. ASSUME NEW y \in Writers, y # x
      PROVE  SeenInv(y)'
  <2>1. SeenInv(y) /\ txn'[y] = txn[y]
    BY <1>7 DEF FactInv, Frame
  <2>2. QED
    BY <1>3, <2>1 DEF SeenInv
<1>8. SettledFactsSurvive'
  BY <1>3 DEF FactInv, SettledFactsSurvive, HasEvidence
<1>9. QED
  BY <1>4, <1>5, <1>6, <1>7, <1>8 DEF FactInv

\* A step of x after which no more transactions are open than before.
LEMMA OverlapsStay ==
  ASSUME IInv, FactInv, NEW x \in Writers, Frame(x), overlaps' = overlaps,
         Open(x)' => Open(x)
  PROVE  OverlapInv'
  BY DEF FactInv, OverlapInv, Frame, Open

\* A transaction that starts overlaps with all that are open.
LEMMA OverlapsGrow ==
  ASSUME IInv, FactInv, NEW x \in Writers, NEW p \in {"resolving", "merging"}, Begin(x, p)
  PROVE  OverlapInv' /\ overlaps \subseteq overlaps' /\ phase'[x] = p /\ phase[x] = "idle"
<1>1. /\ overlaps' = overlaps \cup {{x, y} : y \in {z \in Writers : Open(z)}}
      /\ phase[x] = "idle" /\ phase'[x] = p /\ \A y \in Writers \ {x} : phase'[y] = phase[y]
  BY BeginFacts DEF Begin
<1>2. \A y \in Writers \ {x} : Open(y)' => Open(y)
  BY <1>1 DEF Open
<1>3. ASSUME NEW y \in Writers \ {x}, Open(y)
      PROVE  {x, y} \in overlaps' /\ {y, x} \in overlaps'
  <2>1. {x, y} \in overlaps'
    BY <1>1, <1>3
  <2>2. {x, y} = {y, x}
    OBVIOUS
  <2>3. QED
    BY <2>1, <2>2
<1>4. ASSUME NEW y \in Writers, NEW z \in Writers, y # z, Open(y)', Open(z)'
      PROVE  {y, z} \in overlaps'
  <2>1. CASE y = x
    BY <1>2, <1>3, <1>4, <2>1
  <2>2. CASE z = x
    BY <1>2, <1>3, <1>4, <2>2
  <2>3. CASE y # x /\ z # x
    BY <1>1, <1>2, <1>4, <2>3 DEF FactInv, OverlapInv
  <2>4. QED
    BY <2>1, <2>2, <2>3
<1>5. QED
  BY <1>1, <1>4 DEF OverlapInv

\* A session that holds nothing is about to write nothing.
LEMMA BlankFacts ==
  ASSUME NEW x, txn'[x] = Blank, phase'[x] # "committing"
  PROVE  DraftInv(x)' /\ OwnDraftInv(x)' /\ SeenInv(x)'
  BY BlankFields DEF DraftInv, OwnDraftInv, SeenInv

\* StartDocument preserves FactInv.
LEMMA StartDocumentFacts ==
  ASSUME IInv, FactInv, NEW t \in Docs, StartDocument(t)
  PROVE  FactInv'
<1>1. t \in Writers /\ Begin(t, "resolving") /\ UNCHANGED <<rowVars, mirrorVars, try, txn>>
  BY DEF StartDocument, Writers
<1>2. OverlapInv' /\ overlaps \subseteq overlaps' /\ phase'[t] = "resolving"
  BY <1>1, OverlapsGrow
<1>3. txn'[t] = Blank /\ Frame(t)
  BY <1>1, BeginFacts, Shape DEF Frame, mirrorVars
<1>4. DraftInv(t)' /\ OwnDraftInv(t)' /\ SeenInv(t)'
  BY <1>2, <1>3, BlankFacts
<1>5. QED
  BY <1>1, <1>2, <1>3, <1>4, QuietStep DEF rowVars

\* A step of a document that resolves a mention.
LEMMA MentionStep ==
  ASSUME IInv, FactInv, NEW t \in Docs, phase[t] = "resolving", NextMention(t),
         DOMAIN txn' = Writers, OnlySession(t), txn'[t].draft = txn[t].draft,
         UNCHANGED <<rowVars, rels, try, overlaps>>, nodes \subseteq nodes'
  PROVE  FactInv'
<1>1. t \in Writers /\ t \notin Mergers /\ phase \in [Writers -> Phases]
  BY Shape, WriterAssumption DEF Writers
<1>2. /\ phase'[t] \in {"resolving", "promoting"}
      /\ \A y \in Writers \ {t} : phase'[y] = phase[y]
  BY <1>1 DEF NextMention
<1>3. Frame(t)
  BY <1>1, <1>2 DEF Frame, OnlySession
<1>4. OverlapInv'
  BY <1>1, <1>2, <1>3, OverlapsStay DEF Open
<1>5. DraftInv(t)'
  <2>1. \A u \in Docs : phase'[u] = "done" <=> phase[u] = "done"
    BY <1>1, <1>2 DEF Writers
  <2>2. \A y \in txn[t].draft : y.id.doc \in Docs
    BY <1>1, Shape DEF SessionOK, Edge, EdgeId
  <2>3. DraftInv(t)
    BY DEF FactInv
  <2>4. QED
    BY <2>1, <2>2, <2>3 DEF DraftInv, Alone, rowVars
<1>6. OwnDraftInv(t)' /\ SeenInv(t)'
  BY <1>1, <1>2 DEF OwnDraftInv, SeenInv
<1>7. QED
  BY <1>1, <1>2, <1>3, <1>4, <1>5, <1>6, QuietStep DEF rowVars

\* ResolveMention preserves FactInv.
LEMMA ResolveMentionFacts ==
  ASSUME IInv, FactInv, NEW t \in Docs, ResolveMention(t)
  PROVE  FactInv'
<1>1. /\ phase[t] = "resolving" /\ NextMention(t)
      /\ UNCHANGED <<rowVars, rels, try, overlaps>> /\ nodes' = nodes
  BY DEF ResolveMention, mirrorVars
<1>2. DOMAIN txn' = Writers /\ OnlySession(t) /\ txn'[t].draft = txn[t].draft
  BY ResolveMentionEffect DEF OnlySession
<1>3. QED
  BY <1>1, <1>2, MentionStep

\* CreateEntity preserves FactInv.
LEMMA CreateEntityFacts ==
  ASSUME IInv, FactInv, NEW t \in Docs, CreateEntity(t)
  PROVE  FactInv'
<1>1. /\ phase[t] = "resolving" /\ NextMention(t)
      /\ UNCHANGED <<rowVars, rels, try, overlaps>> /\ nodes \subseteq nodes'
  BY DEF CreateEntity
<1>2. DOMAIN txn' = Writers /\ OnlySession(t) /\ txn'[t].draft = txn[t].draft
  BY CreateEntityEffect DEF OnlySession
<1>3. QED
  BY <1>1, <1>2, MentionStep

\* An edge t says something new about, or its own, holds what the edge rows say.
LEMMA PromoteFacts ==
  ASSUME IInv, FactInv, NEW t \in Docs, Promote(t)
  PROVE  FactInv'
<1>1. /\ t \in Writers /\ t \notin Mergers /\ phase[t] = "promoting"
      /\ phase' = [phase EXCEPT ![t] = "committing"] /\ phase \in [Writers -> Phases]
      /\ UNCHANGED <<rowVars, nodes, try, overlaps>>
  BY Shape, WriterAssumption DEF Promote, Writers
<1>2. /\ phase'[t] = "committing" /\ \A y \in Writers \ {t} : phase'[y] = phase[y]
      /\ \A u \in Docs : phase'[u] = "done" <=> phase[u] = "done"
  BY <1>1 DEF Writers
<1>3. Frame(t)
  BY <1>1, <1>2, PromoteEffect DEF Frame
<1>4. OverlapInv'
  BY <1>1, <1>2, <1>3, OverlapsStay DEF Open
<1>5. From(t)' = From(t) /\ To(t)' = To(t) /\ edges' = edges
  BY <1>1, PromoteEffect DEF From, To, rowVars
<1>6. DraftInv(t)' /\ OwnDraftInv(t)'
  <2>1. CASE (t \notin Related \/ From(t) = To(t)) /\ txn'[t].draft = txn[t].draft
    <3>1. \A y \in txn[t].draft : y.id.doc \in Docs
      BY <1>1, Shape DEF SessionOK, Edge, EdgeId
    <3>2. DraftInv(t)'
      <4>1. DraftInv(t)
        BY DEF FactInv
      <4>2. QED
        BY <1>1, <1>2, <2>1, <3>1, <4>1 DEF DraftInv, Alone, rowVars
    <3>3. QED
      BY <1>5, <2>1, <3>2 DEF OwnDraftInv
  <2>2. ASSUME NEW x \in Existing(t) \cup {NewEdge(t)}, x \in Edge, NEW y,
               txn'[t].draft = {y}, y.id = x.id, y.from = x.from, y.to = x.to,
               y.evidence = x.evidence \cup {t}
        PROVE  DraftInv(t)' /\ OwnDraftInv(t)'
    <3>1. x.from = From(t) /\ x.to = To(t)
      BY DEF Existing, NewEdge
    <3>3. CASE x \in Existing(t)
      <4>1. x \in edges /\ phase[x.id.doc] = "done" /\ x.id.doc \in Docs
        BY <2>2, <3>3 DEF Existing, FactInv, EdgeInv, Edge, EdgeId
      <4>2. \A z \in edges : z.id = x.id => z = x
        BY <4>1 DEF FactInv, EdgeInv
      <4>3. x.id.doc # t /\ phase'[x.id.doc] = "done"
        BY <1>1, <1>2, <4>1
      <4>4. DraftInv(t)'
        BY <1>5, <2>2, <4>2, <4>3 DEF DraftInv
      <4>5. OwnDraftInv(t)'
        BY <1>5, <2>2, <3>1, <4>2 DEF OwnDraftInv
      <4>6. QED
        BY <4>4, <4>5
    <3>4. CASE x = NewEdge(t)
      <4>1. x.id.doc = t /\ x.id.try = try'[t] /\ x.evidence = {t}
        BY <1>1, <3>4 DEF NewEdge
      <4>2. \A z \in edges : z.id # x.id
        BY <1>1, <4>1 DEF FactInv, EdgeInv
      <4>3. DraftInv(t)'
        BY <1>5, <2>2, <4>1, <4>2 DEF DraftInv
      <4>4. OwnDraftInv(t)'
        BY <1>5, <2>2, <3>1, <4>2 DEF OwnDraftInv
      <4>5. QED
        BY <4>3, <4>4
    <3>5. QED
      BY <3>3, <3>4
  <2>3. QED
    BY <2>1, <2>2, PromoteEffect
<1>7. SeenInv(t)'
  BY <1>1 DEF SeenInv
<1>8. QED
  BY <1>1, <1>2, <1>3, <1>4, <1>6, <1>7, QuietStep DEF rowVars

\* A transaction that raises leaves the rows alone.
LEMMA RaiseFacts ==
  ASSUME IInv, FactInv, NEW x \in Writers, Open(x), NEW p \in {"idle", "failed"}, End(x, p),
         UNCHANGED <<rowVars, mirrorVars, overlaps>>, \A u \in Docs \ {x} : try'[u] = try[u]
  PROVE  FactInv'
<1>1. phase'[x] = p /\ txn'[x] = Blank /\ Frame(x)
  BY Shape DEF End, Frame, Open, mirrorVars
<1>2. OverlapInv'
  BY <1>1, OverlapsStay DEF Open
<1>3. DraftInv(x)' /\ OwnDraftInv(x)' /\ SeenInv(x)'
  BY <1>1, BlankFacts
<1>4. QED
  BY <1>1, <1>2, <1>3, QuietStep DEF rowVars

\* A merger's session is the only thing its step changes.
LEMMA MergerStep ==
  ASSUME IInv, FactInv, NEW x \in Mergers, Frame(x), UNCHANGED <<rowVars, try>>,
         overlaps \subseteq overlaps', phase'[x] = "merging", OverlapInv', SeenInv(x)'
  PROVE  FactInv'
<1>1. x \in Writers /\ x \notin Docs
  BY WriterAssumption DEF Writers
<1>2. QED
  BY <1>1, QuietStep DEF rowVars

\* What x has found of the references to d.
Found(T, d) ==
  /\ \A m \in DOMAIN target : target[m] = d => [ref |-> m, of |-> d] \in T.seen
  /\ \A y \in edges : d \in {y.from, y.to} => [ref |-> y.id, of |-> d] \in T.seen

\* merge_entities finds all there is to the entity it folds, and forgets nothing.
LEMMA FoldedFound ==
  ASSUME NEW T, DOMAIN T = Fields, NEW keep, NEW drop
  PROVE  /\ Found(Folded(T, keep, drop), drop)
         /\ T.seen \subseteq Folded(T, keep, drop).seen
         /\ DOMAIN Folded(T, keep, drop).into = DOMAIN T.into \cup {drop}
<1>1. /\ Folded(T, keep, drop).seen = T.seen \cup {[ref |-> r, of |-> drop] : r \in RefsTo(drop)}
      /\ DOMAIN Folded(T, keep, drop).into = DOMAIN T.into \cup {drop}
  BY DEF Folded, Fields
<1>2. /\ \A m \in DOMAIN target : target[m] = drop => m \in RefsTo(drop)
      /\ \A y \in edges : drop \in {y.from, y.to} => y.id \in RefsTo(drop)
  BY DEF RefsTo
<1>3. QED
  BY <1>1, <1>2 DEF Found

\* Decide preserves FactInv.
LEMMA DecideFacts ==
  ASSUME IInv, FactInv, NEW v \in Reviewers, Decide(v)
  PROVE  FactInv'
<1>1. /\ v \in Writers /\ v \in Mergers /\ Begin(v, "merging")
      /\ UNCHANGED <<rowVars, mirrorVars, try>>
  BY DEF Decide, Mergers, Writers
<1>2. OverlapInv' /\ overlaps \subseteq overlaps' /\ phase'[v] = "merging"
  BY <1>1, OverlapsGrow
<1>3. Frame(v)
  BY <1>1, DecideEffect, BeginFacts DEF Frame, mirrorVars
<1>4. PICK r \in DOMAIN reviews, d \in Decision : \E T : Decided(v, r, d, T)
  BY DecideEffect
<1>5. PICK T : Decided(v, r, d, T)
  BY <1>4
<1>6. DOMAIN T = Fields /\ DOMAIN T.into = {}
  BY <1>5 DEF Decided
<1>7. \A e \in DOMAIN txn'[v].into : Found(txn'[v], e)
  <2>1. CASE d = "merged" /\ {r.a, r.b} \subseteq DOMAIN entities
    <3>1. txn'[v] = Folded(T, r.a, r.b)
      BY <1>5, <2>1 DEF Decided
    <3>2. QED
      BY <1>6, <3>1, FoldedFound
  <2>2. CASE ~(d = "merged" /\ {r.a, r.b} \subseteq DOMAIN entities)
    BY <1>5, <1>6, <2>2 DEF Decided
  <2>3. QED
    BY <2>1, <2>2
<1>8. SeenInv(v)'
  BY <1>1, <1>7 DEF SeenInv, Found, rowVars
<1>9. QED
  BY <1>1, <1>2, <1>3, <1>8, MergerStep

\* StartPass preserves FactInv.
LEMMA StartPassFacts ==
  ASSUME IInv, FactInv, NEW p \in Passes, StartPass(p)
  PROVE  FactInv'
<1>1. /\ p \in Writers /\ p \in Mergers /\ Begin(p, "merging")
      /\ UNCHANGED <<rowVars, mirrorVars, try>>
  BY DEF StartPass, Mergers, Writers
<1>2. OverlapInv' /\ overlaps \subseteq overlaps' /\ phase'[p] = "merging"
  BY <1>1, OverlapsGrow
<1>3. txn[p] = Blank /\ DOMAIN txn = Writers
  BY <1>1, BeginFacts, Shape
<1>4. /\ txn'[p] = [Blank EXCEPT !.session = entities, !.pairs = Predicted]
      /\ DOMAIN txn' = Writers /\ \A y \in Writers \ {p} : txn'[y] = txn[y]
  BY <1>1, <1>3, BlankFields DEF StartPass, Fields
<1>5. Frame(p)
  BY <1>1, <1>4, BeginFacts DEF Frame, mirrorVars
<1>6. DOMAIN txn'[p].into = {}
  BY <1>4, BlankFields DEF Fields
<1>7. SeenInv(p)'
  BY <1>6 DEF SeenInv
<1>8. QED
  BY <1>1, <1>2, <1>5, <1>7, MergerStep

\* MergeNext preserves FactInv.
LEMMA MergeNextFacts ==
  ASSUME IInv, FactInv, NEW p \in Passes, MergeNext(p)
  PROVE  FactInv'
<1>1. /\ p \in Writers /\ p \in Mergers /\ phase[p] = "merging" /\ phase' = phase
      /\ UNCHANGED <<rowVars, mirrorVars, try, overlaps>>
  BY DEF MergeNext, Mergers, Writers
<1>2. Frame(p)
  BY <1>1, MergeNextEffect DEF Frame, mirrorVars
<1>3. OverlapInv'
  BY <1>1, <1>2, OverlapsStay DEF Open
<1>4. PICK a, b \in DOMAIN txn[p].session : \E T : Dealt(p, a, b, T)
  BY MergeNextEffect
<1>5. PICK T : Dealt(p, a, b, T)
  BY <1>4
<1>6. DOMAIN T = Fields /\ T.into = txn[p].into /\ T.seen = txn[p].seen
  BY <1>5 DEF Dealt, Sound
<1>7. SeenInv(p)'
  <2> SUFFICES ASSUME NEW t \in Docs, Settled(t), NEW d \in DOMAIN txn'[p].into
               PROVE  /\ \A m \in DOMAIN target : m.doc = t /\ target[m] = d =>
                           [ref |-> m, of |-> d] \in txn'[p].seen
                      /\ \A y \in edges : t \in y.evidence /\ d \in {y.from, y.to} =>
                           [ref |-> y.id, of |-> d] \in txn'[p].seen
    BY <1>1 DEF SeenInv, Settled, rowVars
  <2>1. CASE txn'[p].into = T.into /\ txn'[p].seen = T.seen
    BY <1>1, <1>6, <2>1 DEF FactInv, SeenInv
  <2>2. CASE txn'[p] = Folded(T, a, b)
    <3>1. /\ Found(txn'[p], b) /\ T.seen \subseteq txn'[p].seen
          /\ DOMAIN txn'[p].into = DOMAIN T.into \cup {b}
      BY <1>6, <2>2, FoldedFound
    <3>2. CASE d = b
      BY <3>1, <3>2 DEF Found
    <3>3. CASE d \in DOMAIN T.into
      BY <1>1, <1>6, <3>1, <3>3 DEF FactInv, SeenInv
    <3>4. QED
      BY <3>1, <3>2, <3>3
  <2>3. CASE txn'[p] = [T EXCEPT !.queued = @ \cup QueuedBy(p, a, b)]
    <3>1. txn'[p].into = T.into /\ txn'[p].seen = T.seen
      BY <1>6, <2>3 DEF Fields
    <3>2. QED
      BY <2>1, <3>1
  <2>4. QED
    BY <1>5, <2>1, <2>2, <2>3 DEF Dealt
<1>8. QED
  BY <1>1, <1>2, <1>3, <1>7, MergerStep

\* What t's commit does to the edges.
LEMMA CommitEdges ==
  ASSUME IInv, FactInv, NEW u \in Docs, CommitDocument(u)
  PROVE  /\ \A z \in edges' : \/ z \in txn[u].draft /\ IsNewEdge(u, z)
                              \/ \E y \in edges : z = Updated(u, y)
         /\ \A y \in edges : Updated(u, y) \in edges'
         /\ \A y \in txn[u].draft : IsNewEdge(u, y) => y \in edges'
         /\ \A y \in edges : /\ Updated(u, y).id = y.id /\ Updated(u, y).from = y.from
                             /\ Updated(u, y).to = y.to
                             /\ \A t \in Docs \ {u} : Alone(t) /\ phase[t] = "done" =>
                                  (t \in Updated(u, y).evidence <=> t \in y.evidence)
         /\ \A y \in edges, z \in txn[u].draft : y.id = z.id => Updated(u, y).evidence = z.evidence
         /\ \A z \in txn[u].draft : IsNewEdge(u, z) => z.id.doc = u /\ z.evidence = {u}
<1>1. edges' = {Updated(u, y) : y \in edges} \cup {y \in txn[u].draft : IsNewEdge(u, y)}
  BY DEF CommitDocument
<1>2. DraftInv(u)
  BY DEF FactInv
<1>3. \A z \in txn[u].draft : UNION {y.evidence : y \in txn[u].draft} = z.evidence
  BY <1>2 DEF DraftInv
<1>4. \A y \in edges : y \in Edge
  BY DEF IInv, TypeOK
<1>5. ASSUME NEW y \in edges
      PROVE  \/ /\ Updated(u, y) = y
                /\ \A z \in txn[u].draft : z.id # y.id
             \/ \E z \in txn[u].draft : /\ z.id = y.id
                                        /\ Updated(u, y) = [y EXCEPT !.evidence = z.evidence]
  <2>1. CASE \E z \in txn[u].draft : z.id = y.id
    <3>1. PICK z \in txn[u].draft : z.id = y.id
      BY <2>1
    <3>2. Updated(u, y) = [y EXCEPT !.evidence = UNION {w.evidence : w \in txn[u].draft}]
      BY <2>1 DEF Updated
    <3>3. QED
      BY <1>3, <3>1, <3>2
  <2>2. CASE ~\E z \in txn[u].draft : z.id = y.id
    BY <2>2 DEF Updated
  <2>3. QED
    BY <2>1, <2>2
<1>6. ASSUME NEW y \in edges
      PROVE  /\ Updated(u, y).id = y.id /\ Updated(u, y).from = y.from
             /\ Updated(u, y).to = y.to
             /\ \A z \in txn[u].draft : y.id = z.id => Updated(u, y).evidence = z.evidence
             /\ \A t \in Docs \ {u} : Alone(t) /\ phase[t] = "done" =>
                  (t \in Updated(u, y).evidence <=> t \in y.evidence)
  <2>1. CASE Updated(u, y) = y /\ \A z \in txn[u].draft : z.id # y.id
    BY <2>1
  <2>2. ASSUME NEW z \in txn[u].draft, z.id = y.id, Updated(u, y) = [y EXCEPT !.evidence = z.evidence]
        PROVE  /\ Updated(u, y).id = y.id /\ Updated(u, y).from = y.from
               /\ Updated(u, y).to = y.to
               /\ \A w \in txn[u].draft : y.id = w.id => Updated(u, y).evidence = w.evidence
               /\ \A t \in Docs \ {u} : Alone(t) /\ phase[t] = "done" =>
                    (t \in Updated(u, y).evidence <=> t \in y.evidence)
    <3>1. y \in Edge
      BY <1>4
    <3>2. /\ Updated(u, y).id = y.id /\ Updated(u, y).from = y.from
          /\ Updated(u, y).to = y.to /\ Updated(u, y).evidence = z.evidence
      BY <2>2, <3>1 DEF Edge
    <3>3. \A w \in txn[u].draft : w = z
      BY <1>2 DEF DraftInv
    <3>4. \A t \in Docs \ {u} : Alone(t) /\ phase[t] = "done" => (t \in y.evidence <=> t \in z.evidence)
      BY <1>2, <2>2 DEF DraftInv
    <3>5. QED
      BY <3>2, <3>3, <3>4
  <2>3. QED
    BY <1>5, <2>1, <2>2
<1>7. \A z \in txn[u].draft : IsNewEdge(u, z) => z.id.doc = u /\ z.evidence = {u}
  BY <1>2 DEF IsNewEdge, DraftInv
<1>8. QED
  BY <1>1, <1>6, <1>7

\* CommitDocument preserves FactInv.
LEMMA CommitDocumentFacts ==
  ASSUME IInv, FactInv, NEW u \in Docs, CommitDocument(u)
  PROVE  FactInv'
<1>1. /\ u \in Writers /\ u \notin Mergers /\ phase[u] = "committing" /\ Open(u) /\ CanCommit(u)
      /\ End(u, "done") /\ UNCHANGED <<mirrorVars, try, overlaps>>
  BY WriterAssumption DEF CommitDocument, Writers, Open
<1>2. /\ phase'[u] = "done" /\ txn'[u] = Blank /\ \A y \in Writers \ {u} : phase'[y] = phase[y]
      /\ Frame(u)
  BY <1>1, Shape DEF End, Frame, mirrorVars
<1>3. /\ DOMAIN entities' = DOMAIN entities \cup Created(u)
      /\ DOMAIN target' = DOMAIN target \cup {[doc |-> u, pos |-> i] : i \in DOMAIN Text[u]}
      /\ \A m \in DOMAIN target' : target'[m] = IF m.doc = u THEN txn[u].chosen[m.pos] ELSE target[m]
  BY DEF CommitDocument
<1>4. \A t \in Docs : /\ t \in Writers
                      /\ phase'[t] = "done" => t = u \/ phase[t] = "done"
                      /\ phase[t] = "done" => phase'[t] = "done" /\ t # u
  BY <1>1, <1>2 DEF Writers
<1>5. \A t : Alone(t)' <=> Alone(t)
  BY <1>1 DEF Alone
<1>6. \A t \in Docs \ {u} : Settled(t)' => Settled(t) /\ Alone(t) /\ phase[t] = "done"
  BY <1>1, <1>4 DEF Settled, Alone
<1>7. OverlapInv'
  BY <1>1, <1>2, OverlapsStay DEF Open
<1>8. EdgeInv'
  <2>1. \A y \in edges : y.id.doc \in Docs
    BY DEF IInv, TypeOK, Edge, EdgeId
  <2>2. \A z \in edges' : phase'[z.id.doc] = "done"
    BY <1>2, <1>4, <2>1, CommitEdges DEF FactInv, EdgeInv
  <2>3. \A y \in edges : y.id.doc # u
    BY <1>1 DEF FactInv, EdgeInv
  <2>4. \A y, z \in edges : y.id = z.id => y = z
    BY DEF FactInv, EdgeInv
  <2>5. \A y, z \in txn[u].draft : y = z
    BY DEF FactInv, DraftInv
  <2>6. ASSUME NEW y \in edges', NEW z \in edges', y.id = z.id
        PROVE  y = z
    BY <2>3, <2>4, <2>5, <2>6, CommitEdges
  <2>7. QED
    BY <2>2, <2>6 DEF EdgeInv
<1>9. ASSUME NEW w \in Docs
      PROVE  DraftInv(w)'
  <2>1. CASE w = u
    BY <1>2, <2>1, BlankFields DEF DraftInv
  <2>2. CASE w # u
    <3>1. w \in Writers /\ txn'[w] = txn[w] /\ try'[w] = try[w] /\ DraftInv(w)
      BY <1>1, <1>2, <1>4, <2>2 DEF Frame, FactInv
    <3>2. \A y \in txn[w].draft : y.id.doc \in Docs
      BY <3>1, Shape DEF SessionOK, Edge, EdgeId
    <3>3. txn[w].draft # {} => ~Alone(u)
      BY <1>1, <2>2, <3>1, Busy, Apart
    <3>4. ASSUME NEW y \in txn[w].draft, NEW t \in Docs \ {w}, NEW z \in edges',
                 Alone(t), phase'[t] = "done", z.id = y.id
          PROVE  t \in z.evidence <=> t \in y.evidence
      <4>1. t # u /\ phase[t] = "done"
        BY <1>4, <3>3, <3>4
      <4>2. y.id.doc # u
        BY <1>1, <2>2, <3>1 DEF DraftInv
      <4>3. PICK x \in edges : z = Updated(u, x)
        BY <3>4, <4>2, CommitEdges
      <4>4. x.id = y.id /\ (t \in z.evidence <=> t \in x.evidence)
        BY <3>4, <4>1, <4>3, CommitEdges
      <4>5. t \in x.evidence <=> t \in y.evidence
        BY <3>1, <3>4, <4>1, <4>4 DEF DraftInv
      <4>6. QED
        BY <4>4, <4>5
    <3>5. QED
      BY <1>4, <1>5, <3>1, <3>2, <3>4 DEF DraftInv
  <2>3. QED
    BY <2>1, <2>2
<1>10. ASSUME NEW t \in Docs
       PROVE  OwnDraftInv(t)'
  <2>1. ~(phase'[t] = "committing" /\ Alone(t))
    <3>1. CASE t = u
      BY <1>2, <3>1
    <3>2. CASE t # u
      BY <1>1, <1>2, <1>4, <3>2, Apart DEF Open
    <3>3. QED
      BY <3>1, <3>2
  <2>2. QED
    BY <1>5, <2>1 DEF OwnDraftInv
<1>11. \A t \in Docs : DoneInv(t)'
  BY <1>3, <1>4 DEF FactInv, DoneInv
<1>12. ASSUME NEW x \in Writers
       PROVE  SeenInv(x)'
  <2>1. CASE x = u
    BY <1>1, <2>1 DEF SeenInv
  <2>2. CASE x # u
    <3> SUFFICES ASSUME x \in Mergers, NEW t \in Docs, Settled(t)', NEW d \in DOMAIN txn[x].into
                 PROVE  /\ \A m \in DOMAIN target' : m.doc = t /\ target'[m] = d =>
                             [ref |-> m, of |-> d] \in txn[x].seen
                        /\ \A y \in edges' : t \in y.evidence /\ d \in {y.from, y.to} =>
                             [ref |-> y.id, of |-> d] \in txn[x].seen
      BY <1>2, <2>2 DEF SeenInv, Frame
    <3>1. ~Alone(u)
      BY <1>1, <2>2, Busy, Apart
    <3>2. t # u
      BY <1>1, <3>1 DEF Settled, Alone
    <3>3. Settled(t) /\ Alone(t) /\ phase[t] = "done"
      BY <1>6, <3>2
    <3>4. /\ \A m \in DOMAIN target : m.doc = t /\ target[m] = d => [ref |-> m, of |-> d] \in txn[x].seen
          /\ \A y \in edges : t \in y.evidence /\ d \in {y.from, y.to} =>
                                [ref |-> y.id, of |-> d] \in txn[x].seen
      BY <3>3 DEF FactInv, SeenInv
    <3>5. \A m \in DOMAIN target' : m.doc = t => m \in DOMAIN target /\ target'[m] = target[m]
      BY <1>3, <3>2
    <3>6. ASSUME NEW z \in edges', t \in z.evidence, d \in {z.from, z.to}
          PROVE  [ref |-> z.id, of |-> d] \in txn[x].seen
      <4>1. PICK y \in edges : z = Updated(u, y)
        BY <3>2, <3>6, CommitEdges
      <4>2. t \in y.evidence /\ d \in {y.from, y.to} /\ z.id = y.id
        BY <3>2, <3>3, <3>6, <4>1, CommitEdges
      <4>3. QED
        BY <3>4, <4>2
    <3>7. QED
      BY <3>4, <3>5, <3>6
  <2>3. QED
    BY <2>1, <2>2
<1>13. ASSUME NEW t \in Docs, Settled(t)'
       PROVE  /\ \A i \in DOMAIN Text[t] : target'[[doc |-> t, pos |-> i]] \in DOMAIN entities'
              /\ HasEvidence(t)'
  <2>1. CASE t = u
    <3>1. /\ DOMAIN txn[u].chosen = DOMAIN Text[u]
          /\ 1 \in DOMAIN Text[u] /\ Len(Text[u]) \in DOMAIN Text[u]
      BY <1>1, EndpointFacts
    <3>2. \A i \in DOMAIN Text[u] : target'[[doc |-> u, pos |-> i]] = txn[u].chosen[i]
      BY <1>3
    <3>3. \A i \in DOMAIN Text[u] : txn[u].chosen[i] \in DOMAIN entities'
      BY <1>1, <1>3, <3>1 DEF CanCommit
    <3>4. /\ target'[[doc |-> u, pos |-> 1]] = From(u)
          /\ target'[[doc |-> u, pos |-> Len(Text[u])]] = To(u)
      BY <3>1, <3>2 DEF From, To
    <3>5. ASSUME u \in Related, From(u) # To(u)
          PROVE  \E x \in edges' : x.from = From(u) /\ x.to = To(u) /\ u \in x.evidence
      <4>1. Alone(u)
        BY <1>1, <1>13, <2>1 DEF Settled, Alone
      <4>2. PICK y \in txn[u].draft :
              /\ y.from = From(u) /\ y.to = To(u) /\ u \in y.evidence
              /\ \A z \in edges : z.id = y.id => z.from = y.from /\ z.to = y.to
        BY <1>1, <3>5, <4>1 DEF FactInv, OwnDraftInv
      <4>3. CASE IsNewEdge(u, y)
        BY <4>2, <4>3, CommitEdges
      <4>4. CASE ~IsNewEdge(u, y)
        <5>1. PICK z \in edges : z.id = y.id
          BY <1>1, <4>2, <4>4 DEF CanCommit
        <5>2. /\ Updated(u, z) \in edges' /\ Updated(u, z).from = z.from
              /\ Updated(u, z).to = z.to /\ Updated(u, z).evidence = y.evidence
          BY <4>2, <5>1, CommitEdges
        <5>3. QED
          BY <4>2, <5>1, <5>2
      <4>5. QED
        BY <4>3, <4>4
    <3>6. HasEvidence(u)'
      BY <3>4, <3>5 DEF HasEvidence
    <3>7. QED
      BY <2>1, <3>2, <3>3, <3>6
  <2>2. CASE t # u
    <3>1. Settled(t) /\ Alone(t) /\ phase[t] = "done"
      BY <1>6, <1>13, <2>2
    <3>2. \A i \in DOMAIN Text[t] : /\ [doc |-> t, pos |-> i] \in DOMAIN target
                                    /\ target[[doc |-> t, pos |-> i]] \in DOMAIN entities
      BY <3>1 DEF FactInv, DoneInv, SettledFactsSurvive
    <3>3. \A i \in DOMAIN Text[t] : target'[[doc |-> t, pos |-> i]] = target[[doc |-> t, pos |-> i]]
      BY <1>3, <2>2, <3>2
    <3>4. 1 \in DOMAIN Text[t] /\ Len(Text[t]) \in DOMAIN Text[t]
      BY TextFacts
    <3>5. HasEvidence(t)
      BY <3>1 DEF FactInv, SettledFactsSurvive
    <3>6. \A y \in edges : t \in y.evidence =>
            /\ Updated(u, y) \in edges' /\ Updated(u, y).from = y.from
            /\ Updated(u, y).to = y.to /\ t \in Updated(u, y).evidence
      BY <2>2, <3>1, CommitEdges
    <3>7. HasEvidence(t)'
      BY <3>3, <3>4, <3>5, <3>6 DEF HasEvidence
    <3>8. QED
      BY <1>3, <3>2, <3>3, <3>7
  <2>3. QED
    BY <2>1, <2>2
<1>14. SettledFactsSurvive'
  BY <1>13 DEF SettledFactsSurvive
<1>15. QED
  BY <1>7, <1>8, <1>9, <1>10, <1>11, <1>12, <1>14 DEF FactInv

\* What a commit of x does with a reference to f: it goes where f went.
Moved(x, f) == IF f \in DOMAIN txn[x].into THEN txn[x].into[f] ELSE f

\* A merge carries over every mention and every edge of a settled document.
LEMMA CarriedOver ==
  ASSUME IInv, FactInv, NEW x \in Mergers, CommitMerge(x), NEW t \in Docs, Settled(t)
  PROVE  /\ \A m \in DOMAIN target : m.doc = t => target'[m] = Moved(x, target[m])
         /\ \A y \in edges : t \in y.evidence =>
              \E z \in edges' : /\ z.from = Moved(x, y.from) /\ z.to = Moved(x, y.to)
                                /\ t \in z.evidence
<1>1. /\ phase[x] = "merging"
      /\ target' = [m \in DOMAIN target |-> Repointed(x, m, target[m])]
      /\ edges' = {[y EXCEPT !.from = Repointed(x, y.id, @), !.to = Repointed(x, y.id, @)] : y \in Kept(x)}
  BY DEF CommitMerge
<1>2. /\ \A d \in DOMAIN txn[x].into :
           /\ \A m \in DOMAIN target : m.doc = t /\ target[m] = d => [ref |-> m, of |-> d] \in txn[x].seen
           /\ \A y \in edges : t \in y.evidence /\ d \in {y.from, y.to} =>
                                 [ref |-> y.id, of |-> d] \in txn[x].seen
  BY DEF FactInv, SeenInv, Writers
<1>3. \A s \in txn[x].seen : s.of \in DOMAIN txn[x].into
  BY <1>1, SoundSession DEF Sound
<1>4. \A ref, d : d \notin DOMAIN txn[x].into => Repointed(x, ref, d) = d
  BY <1>3 DEF Repointed
<1>5. ASSUME NEW m \in DOMAIN target, m.doc = t
      PROVE  target'[m] = Moved(x, target[m])
  BY <1>1, <1>2, <1>4, <1>5 DEF Repointed, Moved
<1>6. ASSUME NEW y \in edges, t \in y.evidence
      PROVE  \E z \in edges' : /\ z.from = Moved(x, y.from) /\ z.to = Moved(x, y.to)
                               /\ t \in z.evidence
  <2>1. y \in Kept(x)
    BY <1>2, <1>6 DEF Kept
  <2>2. /\ Repointed(x, y.id, y.from) = Moved(x, y.from)
        /\ Repointed(x, y.id, y.to) = Moved(x, y.to)
    BY <1>2, <1>4, <1>6 DEF Repointed, Moved
  <2>3. y \in Edge
    BY DEF IInv, TypeOK
  <2> DEFINE z == [y EXCEPT !.from = Repointed(x, y.id, @), !.to = Repointed(x, y.id, @)]
  <2>4. z \in edges'
    BY <1>1, <2>1
  <2>5. z.from = Moved(x, y.from) /\ z.to = Moved(x, y.to) /\ z.evidence = y.evidence
    BY <2>2, <2>3 DEF Edge
  <2> HIDE DEF z
  <2>6. QED
    BY <1>6, <2>4, <2>5
<1>7. QED
  BY <1>5, <1>6

\* CommitMerge preserves FactInv.
LEMMA CommitMergeFacts ==
  ASSUME IInv, FactInv, NEW x \in Mergers, CommitMerge(x)
  PROVE  FactInv'
<1>1. /\ x \in Writers /\ x \notin Docs /\ phase[x] = "merging" /\ Open(x) /\ CanMerge(x)
      /\ End(x, "idle") /\ UNCHANGED <<mirrorVars, try, overlaps>>
      /\ DOMAIN target' = DOMAIN target
  BY WriterAssumption DEF CommitMerge, Writers, Open
<1>2. /\ phase'[x] = "idle" /\ txn'[x] = Blank /\ \A y \in Writers \ {x} : phase'[y] = phase[y]
      /\ Frame(x) /\ Sound(txn[x])
  BY <1>1, Shape, SoundSession DEF End, Frame, mirrorVars
<1>3. \A t \in Docs : t \in Writers /\ phase'[t] = phase[t]
  BY <1>1, <1>2 DEF Writers
<1>4. \A t : Alone(t)' <=> Alone(t)
  BY <1>1 DEF Alone
<1>5. \A t \in Docs : Settled(t)' => Settled(t)
  BY <1>1, <1>3 DEF Settled
<1>6. \A z \in edges' : \E y \in Kept(x) :
        z = [y EXCEPT !.from = Repointed(x, y.id, @), !.to = Repointed(x, y.id, @)]
  BY DEF CommitMerge
<1>7. \A y \in Kept(x) : y \in edges /\ y \in Edge
  BY DEF Kept, IInv, TypeOK
<1>8. \A z \in edges' : \E y \in edges : z.id = y.id /\ z.evidence = y.evidence
  BY <1>6, <1>7 DEF Edge
<1>9. OverlapInv'
  BY <1>1, <1>2, OverlapsStay DEF Open
<1>10. EdgeInv'
  <2>1. \A z \in edges' : phase'[z.id.doc] = "done"
    BY <1>3, <1>8 DEF FactInv, EdgeInv, IInv, TypeOK, Edge, EdgeId
  <2>2. ASSUME NEW z \in edges', NEW w \in edges', z.id = w.id
        PROVE  z = w
    <3>1. PICK y \in Kept(x) : z = [y EXCEPT !.from = Repointed(x, y.id, @), !.to = Repointed(x, y.id, @)]
      BY <1>6
    <3>2. PICK v \in Kept(x) : w = [v EXCEPT !.from = Repointed(x, v.id, @), !.to = Repointed(x, v.id, @)]
      BY <1>6
    <3>3. z.id = y.id /\ w.id = v.id
      BY <1>7, <3>1, <3>2 DEF Edge
    <3>4. y = v
      BY <1>7, <2>2, <3>3 DEF FactInv, EdgeInv
    <3>5. QED
      BY <3>1, <3>2, <3>4
  <2>3. QED
    BY <2>1, <2>2 DEF EdgeInv
<1>11. ASSUME NEW w \in Docs
       PROVE  DraftInv(w)'
  <2>1. txn'[w] = txn[w] /\ try'[w] = try[w] /\ DraftInv(w)
    BY <1>1, <1>2, <1>3 DEF Frame, FactInv
  <2>2. \A y \in txn[w].draft : y.id.doc \in Docs
    BY <1>3, Shape DEF SessionOK, Edge, EdgeId
  <2>3. \A y \in txn[w].draft : \A t \in Docs \ {w}, z \in edges' :
          Alone(t) /\ phase[t] = "done" /\ z.id = y.id => (t \in z.evidence <=> t \in y.evidence)
    BY <1>8, <2>1 DEF DraftInv
  <2>4. QED
    BY <1>3, <1>4, <2>1, <2>2, <2>3 DEF DraftInv
<1>12. ASSUME NEW t \in Docs
       PROVE  OwnDraftInv(t)'
  <2>1. ~(phase'[t] = "committing" /\ Alone(t))
    BY <1>1, <1>3, Apart DEF Open
  <2>2. QED
    BY <1>4, <2>1 DEF OwnDraftInv
<1>13. \A t \in Docs : DoneInv(t)'
  BY <1>1, <1>3 DEF FactInv, DoneInv
<1>14. ASSUME NEW y \in Writers
       PROVE  SeenInv(y)'
  <2>1. CASE y = x
    BY <1>2, <2>1, BlankFields DEF SeenInv
  <2>2. CASE y # x
    <3>1. txn'[y] = txn[y]
      BY <1>2, <2>2 DEF Frame
    <3>2. y \in Mergers /\ DOMAIN txn[y].into # {} => \A t : ~Settled(t)
      BY <1>1, <2>2, Busy, Apart
    <3>3. QED
      BY <1>5, <3>1, <3>2 DEF SeenInv
  <2>3. QED
    BY <2>1, <2>2
<1>15. ASSUME NEW t \in Docs, Settled(t)'
       PROVE  /\ \A i \in DOMAIN Text[t] : target'[[doc |-> t, pos |-> i]] \in DOMAIN entities'
              /\ HasEvidence(t)'
  <2>1. Settled(t) /\ phase[t] = "done"
    BY <1>5, <1>15 DEF Settled
  <2>2. \A i \in DOMAIN Text[t] : /\ [doc |-> t, pos |-> i] \in DOMAIN target
                                  /\ target[[doc |-> t, pos |-> i]] \in DOMAIN entities
    BY <2>1 DEF FactInv, DoneInv, SettledFactsSurvive
  <2>3. \A i \in DOMAIN Text[t] :
          target'[[doc |-> t, pos |-> i]] = Moved(x, target[[doc |-> t, pos |-> i]])
    BY <2>1, <2>2, CarriedOver
  <2>4. DOMAIN entities' = DOMAIN entities \ DOMAIN txn[x].into
    BY DEF CommitMerge
  <2>5. \A e \in DOMAIN entities : Moved(x, e) \in DOMAIN entities'
    BY <1>1, <1>2, <2>4 DEF Moved, Sound, CanMerge
  <2>6. \A i \in DOMAIN Text[t] : target'[[doc |-> t, pos |-> i]] \in DOMAIN entities'
    BY <2>2, <2>3, <2>5
  <2>7. HasEvidence(t)
    BY <2>1 DEF FactInv, SettledFactsSurvive
  <2>8. 1 \in DOMAIN Text[t] /\ Len(Text[t]) \in DOMAIN Text[t]
    BY TextFacts
  <2> DEFINE f == target[[doc |-> t, pos |-> 1]]
             g == target[[doc |-> t, pos |-> Len(Text[t])]]
  <2>9. /\ target'[[doc |-> t, pos |-> 1]] = Moved(x, f)
        /\ target'[[doc |-> t, pos |-> Len(Text[t])]] = Moved(x, g)
    BY <2>3, <2>8
  <2>10. ASSUME t \in Related, Moved(x, f) # Moved(x, g)
         PROVE  \E z \in edges' : z.from = Moved(x, f) /\ z.to = Moved(x, g) /\ t \in z.evidence
    <3>1. PICK y \in edges : y.from = f /\ y.to = g /\ t \in y.evidence
      BY <2>7, <2>10 DEF HasEvidence
    <3>2. QED
      BY <2>1, <3>1, CarriedOver
  <2>11. HasEvidence(t)'
    BY <2>9, <2>10 DEF HasEvidence
  <2>12. QED
    BY <2>6, <2>11
<1>16. SettledFactsSurvive'
  BY <1>15 DEF SettledFactsSurvive
<1>17. QED
  BY <1>9, <1>10, <1>11, <1>12, <1>13, <1>14, <1>16 DEF FactInv

\* FactInv holds at first.
LEMMA InitFacts == Init => FactInv
<1> SUFFICES ASSUME Init PROVE FactInv
  OBVIOUS
<1>1. \A x \in Writers : phase[x] = "idle" /\ txn[x] = Blank
  BY DEF Init
<1>2. \A t \in Docs : t \in Writers
  BY DEF Writers
<1>3. OverlapInv /\ EdgeInv
  BY <1>1 DEF OverlapInv, Open, EdgeInv, Init
<1>4. \A t \in Docs : DraftInv(t) /\ OwnDraftInv(t) /\ DoneInv(t)
  BY <1>1, <1>2, BlankFields DEF DraftInv, OwnDraftInv, DoneInv
<1>5. \A x \in Writers : SeenInv(x)
  BY <1>1, BlankFields DEF SeenInv
<1>6. SettledFactsSurvive
  BY <1>1, <1>2 DEF SettledFactsSurvive, Settled
<1>7. QED
  BY <1>3, <1>4, <1>5, <1>6 DEF FactInv

\* A stuttering step preserves FactInv.
LEMMA StutterFacts ==
  ASSUME FactInv, UNCHANGED vars
  PROVE  FactInv'
<1> USE DEF vars, rowVars, mirrorVars
<1>1. OverlapInv' /\ EdgeInv'
  BY DEF FactInv, OverlapInv, Open, EdgeInv
<1>2. \A t \in Docs : DraftInv(t)' /\ OwnDraftInv(t)' /\ DoneInv(t)'
  <2> SUFFICES ASSUME NEW t \in Docs
               PROVE  DraftInv(t)' /\ OwnDraftInv(t)' /\ DoneInv(t)'
    OBVIOUS
  <2>1. DraftInv(t) /\ OwnDraftInv(t) /\ DoneInv(t)
    BY DEF FactInv
  <2>2. DraftInv(t)'
    BY <2>1 DEF DraftInv, Alone
  <2>3. OwnDraftInv(t)'
    BY <2>1 DEF OwnDraftInv, Alone, From, To
  <2>4. QED
    BY <2>1, <2>2, <2>3 DEF DoneInv
<1>3. \A x \in Writers : SeenInv(x)'
  BY DEF FactInv, SeenInv, Settled
<1>4. SettledFactsSurvive'
  BY DEF FactInv, SettledFactsSurvive, Settled, HasEvidence
<1>5. QED
  BY <1>1, <1>2, <1>3, <1>4 DEF FactInv

\* Every step preserves FactInv.
LEMMA NextFacts == IInv /\ FactInv /\ [Next]_vars => FactInv'
<1> SUFFICES ASSUME IInv, FactInv, [Next]_vars PROVE FactInv'
  OBVIOUS
<1>1. ASSUME NEW t \in Docs, DocumentStep(t)
      PROVE  FactInv'
  <2>1. ASSUME DocumentRaises(t)
        PROVE  FactInv'
    <3>1. t \in Writers /\ Open(t) /\ UNCHANGED <<rowVars, mirrorVars, overlaps>>
      BY <2>1 DEF DocumentRaises, Writers
    <3>2. PICK p \in {"idle", "failed"} : End(t, p)
      BY <2>1 DEF DocumentRaises
    <3>3. \A u \in Docs \ {t} : try'[u] = try[u]
      BY <2>1, RestTypeHolds DEF DocumentRaises, RestType
    <3>4. QED
      BY <3>1, <3>2, <3>3, RaiseFacts
  <2>2. QED
    BY <1>1, <2>1, StartDocumentFacts, ResolveMentionFacts, CreateEntityFacts, PromoteFacts,
       CommitDocumentFacts DEF DocumentStep
<1>2. ASSUME NEW x \in Mergers, MergeStep(x)
      PROVE  FactInv'
  <2>1. ASSUME MergeRaises(x)
        PROVE  FactInv'
    <3>1. /\ x \in Writers /\ Open(x) /\ End(x, "idle")
          /\ UNCHANGED <<rowVars, mirrorVars, try, overlaps>>
      BY <2>1 DEF MergeRaises, Writers
    <3>2. QED
      BY <3>1, RaiseFacts
  <2>2. QED
    BY <1>2, <2>1, CommitMergeFacts DEF MergeStep
<1>3. ASSUME NEW p \in Passes, PassStep(p)
      PROVE  FactInv'
  BY <1>2, <1>3, StartPassFacts, MergeNextFacts DEF PassStep, Mergers
<1>4. QED
  BY <1>1, <1>2, <1>3, StutterFacts, DecideFacts DEF Next, Mergers

\* FactInv is an invariant.
LEMMA FactsHold == Spec => []FactInv
  BY InitFacts, NextFacts, IInvHolds, PTL DEF Spec

\* What a document that was alone has contributed survives whatever happens later, as long as
\* no two merges overlap: its mentions stay resolved to entities there are, and its relation
\* stays an edge between them with the document as evidence.
THEOREM SettledFactsAreSafe == Spec => []SettledFactsSurvive
<1>1. FactInv => SettledFactsSurvive
  BY DEF FactInv
<1>2. QED
  BY <1>1, FactsHold, PTL
=============================================================================
