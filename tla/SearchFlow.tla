---------------------------- MODULE SearchFlow ----------------------------
(***************************************************************************)
(* Searches in the server processes: the API handlers of the three         *)
(* domains, their services and searchers, with the bindings that imports   *)
(* write meanwhile and the views the database gives of them.  A handler is *)
(* an async function that calls the service synchronously, so a server     *)
(* process carries out one search at a time.                               *)
(*                                                                         *)
(* Each call of the database or of the embedding model is a step of its    *)
(* own; what the code computes between two calls goes with the first one.  *)
(* A process serves the endpoints of all domains; searches of different    *)
(* domains share nothing, so one domain and one backend are chosen at the  *)
(* start.                                                                  *)
(***************************************************************************)
EXTENDS SearchProfile, FiniteSets

CONSTANTS
  Servers,    \* server processes
  Domains, Backends,
  Kbs,        \* kb_index names
  Models,     \* vector models
  Zero,       \* the zero vector a failing encode returns
  Profiles,   \* Profiles[d]: the profiles the parsers of domain d yield
  Requests,   \* the bodies of search requests
  Hits,       \* what a hit of the content index may hold
  Allowed,    \* search.allowed_search_types
  DefaultTopK, MaxTopK,
  MaxWrites   \* how often bindings are written

ASSUME SearchConstants ==
  /\ Domains \subseteq {"MEMORY", "SKILL", "KNOWLEDGE_BASE"}
  /\ Backends \subseteq {"opensearch", "elasticsearch", "postgresql"}
  /\ Kbs # {}
  /\ None \notin Models \cup Kbs \cup Nat /\ Zero \notin Models \cup {None}
  /\ \A r \in Requests : r.kb \in Kbs \cup {None}
  /\ \A h \in Hits : DOMAIN h \subseteq Seq(STRING) \ {<<>>}
  /\ Allowed \subseteq SearchTypes
  /\ DefaultTopK \in Nat /\ MaxTopK \in Nat /\ DefaultTopK <= MaxTopK
  /\ MaxWrites \in Nat

VARIABLES
  domain, backend,
  binding,  \* binding[kb]: the binding document
  visible,  \* visible[kb]: the one the last refresh made visible to searches
  writes,   \* how often bindings were written
  search    \* search[s]: what server process s is doing

vars == <<domain, backend, binding, visible, writes, search>>

(* created, updated: the order of the writes, for created_at, updated_at.  *)
NoBinding == [model |-> None, profile |-> <<>>, created |-> 0, updated |-> 0]

(* The profile as it is in the binding: memory imports strip it, skill     *)
(* imports do not; knowledge bases are not imported by this server.        *)
Stored(d, p) == IF d = "MEMORY" THEN ForBinding(p) ELSE p

Bindings == [model : Models \cup {None},
             profile : UNION {{Stored(d, p) : p \in Profiles[d]} : d \in Domains},
             created : 1..MaxWrites, updated : 1..MaxWrites]

Idle == [pc |-> "idle"]

Pcs == {"lookup", "embed", "compile", "query", "answered"}

Init ==
  /\ domain \in Domains
  /\ backend \in Backends
  /\ binding = [kb \in Kbs |-> NoBinding]
  /\ visible = binding
  /\ writes = 0
  /\ search = [s \in Servers |-> Idle]

-----------------------------------------------------------------------------
(* get_binding_by_domain_index is a GET of the document, by-tag a search   *)
(* of the refreshed documents; PostgreSQL has a single view.               *)
SeenBy(r, b, v) ==
  CASE r.kb # None                            -> {b[r.kb]}
    [] r.kb = None /\ backend = "postgresql"  -> {b[kb] : kb \in Kbs}
    [] r.kb = None /\ backend # "postgresql"  -> {v[kb] : kb \in Kbs}

(* since: the bindings the lookup could have seen since the search began.  *)
Looking(r, since) == [pc |-> "lookup", req |-> r, seen |-> NoBinding, since |-> since]

(* What a change of the bindings means to the searches under way.          *)
Track(b, v) ==
  search' = [s \in Servers |->
    IF search[s].pc = "lookup"
    THEN Looking(search[s].req, search[s].since \cup SeenBy(search[s].req, b, v))
    ELSE search[s]]

(* Mutant of Write: the clock of the writes stands still.                  *)
WriteUntimed(kb, b) ==
  /\ writes < MaxWrites
  /\ binding' = [binding EXCEPT ![kb] = b]
  /\ Track(binding', visible)
  /\ UNCHANGED <<domain, backend, visible, writes>>

Write(kb, b) ==
  /\ writes < MaxWrites
  /\ writes' = writes + 1
  /\ binding' = [binding EXCEPT ![kb] = b]
  /\ Track(binding', visible)
  /\ UNCHANGED <<domain, backend, visible>>

Version(m, p, created) ==
  [model |-> m, profile |-> p, created |-> created, updated |-> writes + 1]

(* The first import of a kb_index.                                         *)
Bind(kb, m, p) ==
  /\ binding[kb] = NoBinding
  /\ Write(kb, Version(m, Stored(domain, p), writes + 1))

(* Another import: skill takes over its settings, memory a missing model   *)
(* (of the writers only that of OpenSearch can).  Two imports may both     *)
(* find it missing, and the second patch then replaces the first.          *)
Rebind(kb, m, p) ==
  /\ binding[kb] # NoBinding
  /\ \/ /\ domain = "SKILL"
        /\ m # binding[kb].model \/ p # binding[kb].profile
        /\ Write(kb, Version(m, p, binding[kb].created))
     \/ /\ domain = "MEMORY" /\ backend = "opensearch"
        /\ m \notin {None, binding[kb].model}
        /\ binding[kb].model = None \/ binding[kb].updated # binding[kb].created
        /\ Write(kb, Version(m, binding[kb].profile, binding[kb].created))

(* The backend refreshes the index of the bindings.                        *)
Refresh ==
  /\ visible # binding
  /\ visible' = binding
  /\ Track(binding, visible')
  /\ UNCHANGED <<domain, backend, binding, writes>>

-----------------------------------------------------------------------------
Becomes(s, x) ==
  /\ search' = [search EXCEPT ![s] = x]
  /\ UNCHANGED <<domain, backend, binding, visible, writes>>

Answer(s, status, item) ==
  Becomes(s, [pc |-> "answered", req |-> search[s].req, seen |-> search[s].seen,
              status |-> status, item |-> item])

NoItem == <<>>

RequiredTag == [MEMORY |-> "memory", SKILL |-> "skill"]

(* The checks of the handlers; a knowledge base has any tag.               *)
ValidTopK(r) == r.topK = None \/ r.topK <= MaxTopK
ValidType(r) == r.type = None \/ r.type \in Allowed
ValidTag(r)  == domain \in DOMAIN RequiredTag => r.tag = RequiredTag[domain]

(* search_memory, search_skill, search_knowledge_base.                     *)
Accept(s, r) ==
  /\ search[s].pc = "idle"
  /\ Becomes(s,
       IF ValidType(r) /\ ValidTopK(r) /\ ValidTag(r)
       THEN Looking(r, SeenBy(r, binding, visible))
       ELSE [pc |-> "answered", req |-> r, seen |-> NoBinding, status |-> "400", item |-> NoItem])

Type(r) == IF r.type = None THEN "text" ELSE r.type

(* _normalise_top_k.                                                       *)
NormaliseTopK(r) ==
  LET k == IF r.topK = None THEN DefaultTopK ELSE r.topK IN
  IF k < MaxTopK THEN k ELSE MaxTopK

(* Mutant of SkillWeight: only the wrapped form is known.                  *)
SkillWeightWrapped(p) ==
  LET hybrid == Get(Get(p, "search_type_profile", <<>>), "hybrid", <<>>)
  IN Get(hybrid, "default_vector_weight", Get(hybrid, "vector_weight", 50))

(* _normalise_vector_weight: skill takes the weight from the hybrid        *)
(* section of either form, the others only from the wrapped one.           *)
SkillWeight(p) ==
  LET hybrid == Get(IF "search_type_profile" \in DOMAIN p THEN p.search_type_profile ELSE p,
                    "hybrid", <<>>)
  IN Get(hybrid, "default_vector_weight", Get(hybrid, "vector_weight", 50))

OtherWeight(p) ==
  Get(Get(Get(p, "search_type_profile", <<>>), "hybrid", p), "default_vector_weight", 60)

NormaliseWeight(r, p) ==
  CASE Type(r) \notin VectorTypes                  -> None
    [] Type(r) \in VectorTypes /\ r.weight # None  -> r.weight
    [] OTHER -> IF domain = "SKILL" THEN SkillWeight(p) ELSE OtherWeight(p)

(* Which of the active bindings of a tag the writers return: that of       *)
(* OpenSearch the one created last, that of PostgreSQL the one updated     *)
(* last, that of Elasticsearch any.                                        *)
NewestCreated(all) == {b \in all : \A c \in all : c.created <= b.created}
LatestUpdated(all) == {b \in all : \A c \in all : c.updated <= b.updated}

(* The bindings a lookup may return.                                       *)
Candidates(r) ==
  LET all == SeenBy(r, binding, visible) \ {NoBinding} IN
  CASE r.kb = None /\ backend = "opensearch" -> NewestCreated(all)
    [] r.kb = None /\ backend = "postgresql" -> LatestUpdated(all)
    [] OTHER -> all

Conflict(r, b) == r.model # None /\ b.model # None /\ r.model # b.model

Prepared(pc, r, b, w, v) == [pc |-> pc, req |-> r, seen |-> b, weight |-> w, vector |-> v]

Found(s, b) ==
  LET r == search[s].req IN
  CASE Conflict(r, b) -> [pc |-> "answered", req |-> r, seen |-> b, status |-> "409", item |-> NoItem]
    [] ~Conflict(r, b) /\ Type(r) \in VectorTypes /\ b.model = None ->
         [pc |-> "answered", req |-> r, seen |-> b, status |-> "422", item |-> NoItem]
    [] OTHER ->
         Prepared(IF Type(r) \in VectorTypes THEN "embed" ELSE "compile",
                  r, b, NormaliseWeight(r, b.profile), None)

(* Mutant of Lookup: a binding is always looked for in the search view.    *)
LookupByView(s) ==
  /\ search[s].pc = "lookup"
  /\ LET r == search[s].req
         all == {visible[kb] : kb \in IF r.kb = None THEN Kbs ELSE {r.kb}} \ {NoBinding}
     IN \/ all = {} /\ Answer(s, "404", NoItem)
        \/ \E b \in all : Becomes(s, Found(s, b))

(* The service up to the call of the searcher, and the searcher up to the  *)
(* first call of its own.  A DatabaseError of the writer is not caught.    *)
Lookup(s) ==
  /\ search[s].pc = "lookup"
  /\ \/ /\ SeenBy(search[s].req, binding, visible) \subseteq {NoBinding}
        /\ Answer(s, "404", NoItem)
     \/ \E b \in Candidates(search[s].req) : Becomes(s, Found(s, b))
     \/ Answer(s, "500", NoItem)

(* ensure_model_ready and embed_query, which may raise.                    *)
Embed(s) ==
  /\ search[s].pc = "embed"
  /\ \/ \E v \in {search[s].seen.model, Zero} :
          LET x == search[s] IN Becomes(s, Prepared("compile", x.req, x.seen, x.weight, v))
     \/ Answer(s, "500", NoItem)

(* The profile the compiler gets.                                          *)
Adapted(p) == IF domain = "SKILL" THEN AdaptSkillProfile(p) ELSE p

(* Compile, and the query that the writer sends.                           *)
CompileQuery(s) ==
  LET x == search[s]
      p == Adapted(x.seen.profile)
  IN
  /\ x.pc = "compile"
  /\ IF Compiles(Type(x.req), p, x.vector)
     THEN Becomes(s, [pc |-> "query", req |-> x.req, seen |-> x.seen,
            fields |-> Get(p, "response_fields", <<>>),
            dsl |-> PrepareSearchDsl(backend,
                      Compile(Type(x.req), p, NormaliseTopK(x.req), x.vector, x.weight))])
     ELSE Answer(s, "422", NoItem)

Item(hit, fields) ==
  IF domain = "KNOWLEDGE_BASE" THEN KbMapHits(hit, "relevance", fields)
                               ELSE MapHits(hit, "relevance", fields)

(* search_content_docs raises or returns; the one PostgreSQL inherits      *)
(* returns None, which nobody expects.                                     *)
Query(s) ==
  /\ search[s].pc = "query"
  /\ \/ backend # "postgresql" /\ \E h \in Hits : Answer(s, "200", Item(h, search[s].fields))
     \/ backend # "postgresql" /\ Answer(s, "500", NoItem)
     \/ backend = "postgresql" /\ Answer(s, "unhandled", NoItem)

Respond(s) ==
  /\ search[s].pc = "answered"
  /\ Becomes(s, Idle)

Serve(s) == Lookup(s) \/ Embed(s) \/ CompileQuery(s) \/ Query(s) \/ Respond(s)

Next ==
  \/ \E kb \in Kbs, m \in Models \cup {None}, p \in Profiles[domain] :
       Bind(kb, m, p) \/ Rebind(kb, m, p)
  \/ Refresh
  \/ \E s \in Servers : Serve(s) \/ \E r \in Requests : Accept(s, r)

Spec == Init /\ [][Next]_vars

-----------------------------------------------------------------------------
TypeOK ==
  /\ domain \in Domains /\ backend \in Backends
  /\ binding \in [Kbs -> Bindings \cup {NoBinding}]
  /\ visible \in [Kbs -> Bindings \cup {NoBinding}]
  /\ writes \in 0..MaxWrites
  /\ \A kb \in Kbs : /\ visible[kb].updated <= binding[kb].updated
                     /\ binding[kb].created <= binding[kb].updated
                     /\ binding[kb].updated <= writes
  /\ DOMAIN search = Servers
  /\ \A s \in Servers :
       search[s] = Idle \/ /\ search[s].pc \in Pcs
                           /\ search[s].req \in Requests
                           /\ search[s].seen \in Bindings \cup {NoBinding}

(* A search answers from a binding that was in force at some time since it *)
(* was accepted, whatever imports bind meanwhile: by kb_index from the     *)
(* document itself, so a kb_index whose import was over is found and an    *)
(* older state of it never used; by tag only from what a refresh has       *)
(* shown (opensearch/writer.py:35-105).  It answers 404 when, and only     *)
(* when, it read that there was none; a lookup that fails has read nothing *)
(* and answers 500 (errors.py:94-124).                                     *)
ReadInForce ==
  [][\A s \in Servers :
       search[s].pc = "lookup" /\ search'[s].pc # "lookup" =>
         LET x == search'[s] IN
         \/ x.seen = NoBinding /\ x.status = "500"
         \/ /\ x.seen \in search[s].since
            /\ x.seen = NoBinding <=> x.pc = "answered" /\ x.status = "404"]_vars

ParserProfile == [MEMORY |-> MemoryProfile, SKILL |-> SkillProfile]

OfParser(b) ==
  domain \in DOMAIN ParserProfile /\ b.profile = Stored(domain, ParserProfile[domain])

(* What the pre-registered parsers declare, the imports store, the skill   *)
(* searcher adapts and the compiler checks key by key fits together: the   *)
(* profile of such a binding serves every search type, except hybrid       *)
(* search of memory (query_profile_compiler.py:413-446).                   *)
UploadedSearchable ==
  \A s \in Servers :
    /\ search[s].pc = "answered" /\ search[s].status = "422"
    /\ OfParser(search[s].seen) /\ search[s].seen.model # None
    => domain = "MEMORY" /\ Type(search[s].req) = "hybrid"

(* The query is in the language of its backend, the kNN clause nested in a *)
(* hybrid query too: OpenSearch is sent no num_candidates,                 *)
(* (opensearch/writer.py:669-674), Elasticsearch only query_vector and     *)
(* num_candidates, with k where kNN is the whole query                     *)
(* (elasticsearch/writer.py:592-643).                                      *)
Fits(arms) ==
  \A i \in DOMAIN arms :
    LET clause == arms[i].clause IN
    clause.kind = "knn" =>
      /\ backend = "opensearch" => "num_candidates" \notin DOMAIN clause.body
      /\ backend = "elasticsearch" =>
           /\ "query_vector" \in DOMAIN clause.body /\ "vector" \notin DOMAIN clause.body
           /\ "k" \in DOMAIN clause.body <=> Alone(arms)

QueryFits == \A s \in Servers : search[s].pc = "query" => Fits(search[s].dsl.arms)

(* The weight a profile declares for its hybrid search is the one the kNN  *)
(* arm gets when the request names none, and the text arm gets the rest:   *)
(* the service's own reading of the profile agrees with the compiler's.    *)
(* The memory and knowledge-base services overlook it in the grouped form  *)
(* (memory_search_service.py:284-286).                                     *)
Declared(p) ==
  LET hybrid == Section("hybrid", p) IN
  {hybrid[k] : k \in DOMAIN hybrid \cap {"default_vector_weight"}}

WeightDeclared ==
  \A s \in Servers :
    LET x == search[s] IN
    /\ x.pc = "query" /\ Type(x.req) = "hybrid" /\ x.req.weight = None
    /\ domain = "SKILL" \/ Form("hybrid", x.seen.profile) = "wrapped"
    => \A w \in Declared(x.seen.profile) :
         x.dsl.arms[1].weight = One - w /\ x.dsl.arms[2].weight = w
=============================================================================
