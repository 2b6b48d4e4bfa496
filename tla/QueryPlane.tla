----------------------------- MODULE QueryPlane -----------------------------
(***************************************************************************)
(* One POST /v1/query while documents are being ingested: the pipeline     *)
(* answer() of query/pipeline.py (modes "fast" and "auto") and the agent   *)
(* loop of agent/loop.py (mode "research").                                *)
(*                                                                         *)
(* The request's transaction is Read Committed, and a graph lookup reads   *)
(* Neo4j and Postgres through a session of its own: every search, lookup   *)
(* and metadata read sees the corpus of its own moment.  The model (mock   *)
(* or live) proposes anything its interface allows; every call may raise.  *)
(***************************************************************************)
EXTENDS Retrieval, FiniteSetsExt

CONSTANTS Evidence,      \* Evidence[f]: the documents that state f
          Mentioning,    \* ids whose text contains the word an agent may filter relations by
          Requests,      \* the requests that may be made
          Routes,        \* what a live decomposition may be
          Calls,         \* tool calls a live model may propose, other than finish
          Sentences,     \* sentences a live model may write: sets of ids, made up ones too
          MaxSentences,  \* bound on the sentences of an answer
          MaxSources,    \* the request's max_sources
          MaxSteps,      \* settings.agent_max_steps
          MaxTokens,     \* settings.agent_max_total_tokens
          Costs          \* what estimate_tokens may say of an action

Request == [mode: {"fast", "auto", "research"}, client: {"mock", "live"}, privileged: BOOLEAN,
            after: Nat,     \* the request's published_after, 0 if none
            since: Nat]     \* the year the question mentions, 0 if none
Route == {"text", "graph", "both"}
Tool == {"search_text", "graph_lookup", "resolve_entity"}

ASSUME EvidenceAssumption == Evidence \in [Facts -> SUBSET Docs]
ASSUME RequestAssumption == Requests \subseteq Request /\ Routes \subseteq Seq(Route)
\* A limit that is no natural number makes the database raise.
ASSUME CallAssumption ==
  \A c \in Calls : c.tool # "finish" /\ (c.tool = "search_text" => c.k \in Nat)
ASSUME BudgetAssumption == /\ MaxSteps \in Nat /\ MaxTokens \in Nat /\ Costs \subseteq Nat \ {0}
                           /\ MaxSources \in Nat \ {0} /\ MaxSentences \in Nat

VARIABLES
  indexed,    \* documents whose chunk row is committed
  mirror,     \* mirror[f]: the evidence Neo4j lists for f, none before f is mirrored
  request,
  phase,      \* where the request is
  routes,     \* answer(): routes of the subquestions still to do
  lists,      \* ranked lists read so far, for answer() or for one search_text
  facts,      \* answer(): what the graph lookups returned
  call,       \* agent: the tool call being executed
  seen,       \* agent: AgentBudget._seen_calls
  steps,      \* agent: steps_used; also the length of history
  tokens,     \* agent: tokens_used
  context,    \* the sources answers are verified against; the agent's "gathered"
  answer,     \* the sentences of the answer before they are verified
  response,   \* what the client gets
  retrieved   \* what query_closed records

corpusVars == <<indexed, mirror>>
searchVars == <<routes, lists, facts>>
agentVars == <<call, seen, steps, tokens>>
resultVars == <<answer, response, retrieved>>
vars == <<corpusVars, request, phase, searchVars, agentVars, context, resultVars>>

Phase == {"open", "planning", "routing", "lexical", "vector", "graph", "ranking", "writing",
          "thinking", "acting", "fusing", "looking_up", "resolving", "concluding", "done", "failed"}
Ended == {"done", "failed"}
NoCall == [tool |-> "none"]
Response == [claims: SUBSET SUBSET Id, sources: SUBSET Id]

TypeOK ==
  /\ indexed \subseteq Docs
  /\ mirror \in [Facts -> SUBSET Docs]
  /\ request \in Requests
  /\ phase \in Phase
  /\ routes \in Seq(Route)
  /\ lists \in Seq(Seq(Id))
  /\ facts \subseteq Id
  /\ call \in Calls \cup {NoCall} /\ seen \subseteq Calls
  /\ steps \in 0..MaxSteps
  /\ tokens \in Nat
  /\ context \subseteq Id
  /\ answer \subseteq Sentences \cup SUBSET Id
  /\ response \in Response
  /\ retrieved \subseteq Id

Init ==
  /\ indexed = {}
  /\ mirror = [f \in Facts |-> {}]
  /\ request \in Requests
  /\ phase = "open"
  /\ routes = <<>> /\ lists = <<>> /\ facts = {}
  /\ call = NoCall /\ seen = {} /\ steps = 0 /\ tokens = 0
  /\ context = {}
  /\ answer = {} /\ response = [claims |-> {}, sources |-> {}] /\ retrieved = {}

Goto(p) == phase' = p

(***************************************************************************)
(* The corpus grows meanwhile                                              *)
(***************************************************************************)
\* The index session of a document commits its chunks.
IndexDocument(d) ==
  /\ d \notin indexed
  /\ indexed' = indexed \cup {d}
  /\ UNCHANGED <<mirror, request, phase, searchVars, agentVars, context, resultVars>>

\* The graph session of a document, after that, mirrors an edge with its evidence.
MirrorEdge(f, d) ==
  /\ d \in (Evidence[f] \cap indexed) \ mirror[f]
  /\ mirror' = [mirror EXCEPT ![f] = @ \cup {d}]
  /\ UNCHANGED <<indexed, request, phase, searchVars, agentVars, context, resultVars>>

(***************************************************************************)
(* Both modes                                                              *)
(***************************************************************************)
\* The route dispatches on the mode; either way audit.open_session comes first.
OpenSession ==
  /\ phase = "open"
  /\ Goto(IF request.mode = "research" THEN "thinking" ELSE "planning")
  /\ UNCHANGED <<corpusVars, request, searchVars, agentVars, context, resultVars>>

\* The filter of the searches: the caller's own, else the one the question implies.  The
\* agent does not look for one in the question.
After ==
  IF request.after # 0 \/ request.mode = "research" THEN request.after ELSE request.since

Limit == IF request.mode = "research" THEN call.k ELSE TopK

SearchLexical ==
  /\ phase = "lexical"
  /\ \E hits \in LexicalHits(indexed, After, Limit) : lists' = Append(lists, hits)
  /\ Goto("vector")
  /\ UNCHANGED <<corpusVars, request, routes, facts, agentVars, context, resultVars>>

\* A subquestion of route "both" goes on to the graph, except in mode "fast".
SearchVector ==
  /\ phase = "vector"
  /\ \E hits \in VectorHits(indexed, After, Limit) : lists' = Append(lists, hits)
  /\ Goto(IF request.mode = "research" THEN "fusing" ELSE "graph")
  /\ UNCHANGED <<corpusVars, request, routes, facts, agentVars, context, resultVars>>

\* An exception in a model, search or database call: the transaction is rolled back.
Abort ==
  /\ phase \notin Ended
  /\ Goto("failed")
  /\ UNCHANGED <<corpusVars, request, searchVars, agentVars, context, resultVars>>

\* At most five sources, a sentence each; none: one sentence that cites nothing.
MockAnswers(S) ==
  IF S = {} THEN {{{}}}
  ELSE {{{id} : id \in T} : T \in kSubset(IF Cardinality(S) < 5 THEN Cardinality(S) ELSE 5, S)}
LiveAnswers == {A \in SUBSET Sentences : Cardinality(A) <= MaxSentences}
Answers(S) == IF request.client = "mock" THEN MockAnswers(S) ELSE LiveAnswers

\* verify_citations, the sources listed for the claims, and audit.close_session.
Respond(sentences, valid, listed, record) ==
  LET kept == Claims(sentences, valid)
  IN /\ response' = [claims |-> kept, sources |-> listed \cap UNION kept]
     /\ retrieved' = record
     /\ Goto("done")

(***************************************************************************)
(* answer()                                                                *)
(***************************************************************************)
\* planner.plan; the mock takes a question about a relationship to both, others to text.
Decompose ==
  /\ phase = "planning"
  /\ routes' \in IF request.client = "mock" THEN {<<"both">>, <<"text">>} ELSE Routes
  /\ Goto("routing")
  /\ UNCHANGED <<corpusVars, request, lists, facts, agentVars, context, resultVars>>

NextSubquestion ==
  /\ phase = "routing"
  /\ Goto(IF routes = <<>> THEN "ranking" ELSE IF Head(routes) = "graph" THEN "graph" ELSE "lexical")
  /\ UNCHANGED <<corpusVars, request, searchVars, agentVars, context, resultVars>>

LookupGraph ==
  /\ phase = "graph"
  /\ IF Head(routes) # "text" /\ request.mode = "auto"
     THEN \E known \in BOOLEAN :  \* whether an entity of the question is recognised
            facts' = facts \cup IF known THEN GraphSources(mirror, indexed, 2) ELSE {}
     ELSE UNCHANGED facts
  /\ routes' = Tail(routes)
  /\ Goto("routing")
  /\ UNCHANGED <<corpusVars, request, lists, agentVars, context, resultVars>>

\* The reranker looks at all of the fused list, in whatever order.
Candidates == Met(lists) \cup facts

\* Variant: only what the text searches found is looked up.
TextHits(ranked) == ranked \cap Met(lists)
\* The ids of the ranked sources whose documents are looked up.
ChunkIds(ranked) == {Chunk(d) : d \in Docs} \cap ranked

\* _fetch_source_metadata: the chunks the database knows by now.
WithMetadata(ranked) == ChunkIds(ranked) \cap {Chunk(d) : d \in indexed}

\* filter_sources_by_license: what has no metadata has no license and passes.
Permitted(ranked) ==
  {id \in ranked : id \in WithMetadata(ranked) /\ (\E d \in Internal : id = Chunk(d))
                    => request.privileged}

\* The max_sources a cross-encoder ranks best: it may order them in any way.
Reranked(found) == kSubset(Min({MaxSources, Cardinality(found)}), found)

\* Reranked, with the metadata of the documents, and filtered by the license rule.
RankAndFilter ==
  /\ phase = "ranking"
  /\ \E ranked \in Reranked(Candidates) : context' = Permitted(ranked)
  /\ Goto("writing")
  /\ UNCHANGED <<corpusVars, request, searchVars, agentVars, resultVars>>

\* Variant: citations are verified against what was ranked, not what was shown.
AllCandidates == Candidates
\* The ids a citation of answer() may name.
ValidIds == context

Synthesize ==
  /\ phase = "writing"
  /\ answer' \in Answers(context)
  /\ Respond(answer', ValidIds, context, context)
  /\ UNCHANGED <<corpusVars, request, searchVars, agentVars, context>>

(***************************************************************************)
(* run_agent()                                                             *)
(***************************************************************************)
\* Variant: one step too many.
OneMore == steps > MaxSteps \/ tokens >= MaxTokens
Exhausted == steps >= MaxSteps \/ tokens >= MaxTokens

\* What next_action may return besides finish, and the answers it may finish with.
Proposals ==
  CASE request.client = "live" -> Calls
    [] request.client = "mock" /\ steps = 0 -> {c \in Calls : c.tool = "search_text"}
    [] request.client = "mock" /\ steps = 1 -> {c \in Calls : c.tool = "graph_lookup" /\ c.hops = 1
                                                                /\ ~c.narrow}
    [] OTHER -> {}
Finals ==
  CASE request.client = "live" -> LiveAnswers
    [] request.client = "mock" /\ steps < 2 -> {}
    [] OTHER -> IF context = {} THEN {{}} ELSE MockAnswers(context)

\* Variant: only executed calls are recorded.
RecordExecuted(cost, executed) ==
  IF executed THEN steps' = steps + 1 /\ tokens' = tokens + cost ELSE UNCHANGED <<steps, tokens>>
\* record_step: what is proposed counts, executed or not.
RecordStep(cost, executed) == steps' = steps + 1 /\ tokens' = tokens + cost

PhaseOf(c) == CASE c.tool = "search_text" -> "lexical"
                [] c.tool = "graph_lookup" -> "looking_up"
                [] c.tool = "resolve_entity" -> "resolving"

Fresh(c) == c.tool \in Tool /\ c \notin seen

\* The model proposes a call; it is logged and counted.
NextAction ==
  /\ phase = "thinking" /\ ~Exhausted
  /\ \E c \in Proposals, cost \in Costs : call' = c /\ RecordStep(cost, Fresh(c))
  /\ Goto("acting")
  /\ UNCHANGED <<corpusVars, request, searchVars, seen, context, resultVars>>

\* An unknown tool, or a call made before, only adds an error to the history.
Dispatch ==
  /\ phase = "acting"
  /\ IF Fresh(call)
     THEN seen' = seen \cup {call} /\ Goto(PhaseOf(call)) /\ UNCHANGED call
     ELSE call' = NoCall /\ Goto("thinking") /\ UNCHANGED seen
  /\ UNCHANGED <<corpusVars, request, searchVars, steps, tokens, context, resultVars>>

\* Only a finish that comes with citations is looked at.
Finish ==
  /\ phase = "thinking" /\ ~Exhausted
  /\ \E final \in Finals, citations \in BOOLEAN, cost \in Costs :
       /\ request.client = "mock" => citations = (final # {})
       /\ answer' = IF citations THEN final ELSE {}
       /\ RecordStep(cost, TRUE)
  /\ Goto("concluding")
  /\ UNCHANGED <<corpusVars, request, searchVars, call, seen, context, response, retrieved>>

\* The tool's result is gathered and the loop goes on.
Gather(found) ==
  /\ context' = context \cup found
  /\ lists' = <<>>
  /\ call' = NoCall
  /\ Goto("thinking")
  /\ UNCHANGED <<corpusVars, request, routes, facts, seen, steps, tokens, resultVars>>

\* The fused hits search_text returns.
BestHits == Best(lists, call.k)

SearchText == phase = "fusing" /\ Gather(BestHits)

GraphLookup ==
  /\ phase = "looking_up"
  /\ \E known \in BOOLEAN :
       LET found == IF known THEN GraphSources(mirror, indexed, call.hops) ELSE {}
       IN Gather(IF call.narrow THEN found \cap Mentioning ELSE found)

ResolveEntity ==
  /\ phase = "resolving"
  /\ \E found \in {{}} \cup {{Ent(e)} : e \in Entities} : Gather(found)

Conclude ==
  /\ \/ phase = "concluding"
     \/ phase = "thinking" /\ Exhausted
  /\ Respond(answer, context, context, context)
  /\ UNCHANGED <<corpusVars, request, searchVars, agentVars, context, answer>>

-----------------------------------------------------------------------------
Step == \/ OpenSession \/ SearchLexical \/ SearchVector
        \/ Decompose \/ NextSubquestion \/ LookupGraph \/ RankAndFilter \/ Synthesize
        \/ NextAction \/ Dispatch \/ Finish \/ SearchText \/ GraphLookup \/ ResolveEntity \/ Conclude

Next == \/ Step
        \/ Abort
        \/ \E d \in Docs : IndexDocument(d)
        \/ \E f \in Facts, d \in Docs : MirrorEdge(f, d)

Spec == Init /\ [][Next]_vars
\* The worker thread of the request runs on; models and databases answer or raise.
FairSpec == Spec /\ WF_vars(Step)

(***************************************************************************)
(* Properties                                                              *)
(***************************************************************************)
\* With the Postgres lexical backend, whose hits are committed rows, what answer() hands to the
\* model is fit for this request, whichever way it was found and whatever was ingested since: a caller without the role gets no chunk of an internal-only
\* document (pipeline.py:126), and a chunk the filters exclude is there only as evidence of
\* a fact of the graph.
EvidenceIsAdmissible ==
  request.mode # "research" => \A d \in Docs : Chunk(d) \in context =>
    /\ d \in Internal => request.privileged
    /\ After = 0 \/ Published[d] >= After \/ \E f \in Facts : d \in mirror[f]

\* With the same backend, the response and the audit record tell the same story, in both modes: a claim cites only
\* sources the response lists, all of which the closing event names, and which exist.
RecordsAgree ==
  phase = "done" =>
    /\ UNION response.claims = response.sources
    /\ response.sources \subseteq retrieved
    /\ \A d \in Docs : Chunk(d) \in retrieved => d \in indexed
    /\ \A f \in Facts : Edge(f) \in retrieved => mirror[f] # {}

\* Cutting the fused list to k hits does not prefer a hit to one that every search ranks
\* better (fusion.py:35, tools.py:26).
BestHitsSurvive ==
  phase = "fusing" => \A a \in Id, b \in BestHits : Dominates(a, b, lists) => a \in BestHits

\* A request ends, whatever the model proposes: unknown tools and repeated calls use up
\* steps too.
RequestEnds == <>(phase \in Ended)
=============================================================================
