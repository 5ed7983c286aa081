--------------------------- MODULE SearchProfile ---------------------------
(***************************************************************************)
(* The search profile of a binding and what a search makes of it: the      *)
(* profiles the pre-registered parsers write, their adaptation by the      *)
(* skill searcher, QueryProfileCompiler, the last changes by the database  *)
(* writers, and the mapping of hits to result items.                       *)
(*                                                                         *)
(* A dictionary is a function from the keys that are there.  JSON values   *)
(* of another type than expected (a number for a list) are left out,       *)
(* except list entries.  A list entry is a record: form "dict" is          *)
(* {"field", "weight"}, form "spec" the string "field^boost", extra says   *)
(* that a dict has other keys.  Weights of hybrid search are in percent.   *)
(* A field name with dots is the sequence of its parts, and the _source of *)
(* a hit is a function from all the paths of keys it has.                  *)
(***************************************************************************)
EXTENDS Integers, Sequences

CONSTANT None   \* the Python None

SearchTypes == {"keyword", "title", "text", "vector", "hybrid"}
VectorTypes == {"vector", "hybrid"}
One == 100

Get(d, k, default) == IF k \in DOMAIN d THEN d[k] ELSE default
Without(d, keys) == [k \in DOMAIN d \ keys |-> d[k]]

-----------------------------------------------------------------------------
(* The profiles the parsers write.                                         *)

Dict(f, w) == [form |-> "dict", field |-> f, weight |-> w, extra |-> FALSE]
Spec1(f, w) == [form |-> "spec", field |-> f, weight |-> w, extra |-> FALSE]

Score == <<"score">>

MemoryProfile ==
  [tag |-> "memory",
   search_type_profile |->
     [keyword |-> [enabled |-> TRUE,
                   term_fields |-> <<Dict("memory_id.keyword", 50), Dict("task_ids.keyword", 20)>>],
      title   |-> [enabled |-> TRUE, match_fields |-> <<Dict("title", 30)>>],
      text    |-> [enabled |-> TRUE, multi_match_type |-> "most_fields",
                   fields |-> <<Dict("title", 30), Dict("content", 20)>>],
      vector  |-> [enabled |-> TRUE, vector_field |-> "content_vector",
                   source_template |-> "title, abstract, overview", num_candidates |-> 100],
      hybrid  |-> [enabled |-> TRUE, default_vector_weight |-> 65]],
   response_fields |->
     <<<<"doc_id">>, <<"title">>, <<"metadata", "related_storage_paths">>, Score>>]

SkillProfile ==
  [keyword |-> [fields |-> <<Spec1("name.keyword", 50)>>],
   title   |-> [fields |-> <<Spec1("name", 30)>>],
   text    |-> [fields |-> <<Spec1("name", 40), Spec1("content", 10)>>],
   vector  |-> [vector_field |-> "content_vector",
                source_template |-> "name, description, body", num_candidates |-> 100],
   hybrid  |-> [default_vector_weight |-> 50],
   response_fields |->
     <<<<"doc_id">>, <<"name">>, <<"metadata", "related_storage_paths">>, Score>>]

(* Mutant of ForBinding: only the flat form is stripped.                   *)
ForBindingFlat(p) == Without(p, {"source_template"})

(* _search_profile_for_binding: what only the import needs is taken out.   *)
ForBinding(p) ==
  LET q == Without(p, {"source_template"}) IN
  IF "search_type_profile" \in DOMAIN q /\ "vector" \in DOMAIN q.search_type_profile
  THEN [q EXCEPT !.search_type_profile.vector = Without(@, {"source_template"})]
  ELSE q

-----------------------------------------------------------------------------
(* The skill searcher's adaptation.                                        *)

AllSpecs(list) == list # <<>> /\ \A i \in DOMAIN list : list[i].form = "spec"
ParseFieldBoosts(list) == [i \in DOMAIN list |-> [list[i] EXCEPT !.form = "dict"]]

AdaptKeyword(s) ==
  IF AllSpecs(Get(s, "fields", <<>>)) THEN [term_fields |-> ParseFieldBoosts(s.fields)]
                                      ELSE Without(s, {"fields"})

(* Bindings without a title section match the name.                        *)
AdaptTitle(p) ==
  LET s == Get(p, "title", <<>>) IN
  [match_fields |-> IF AllSpecs(Get(s, "fields", <<>>))         THEN ParseFieldBoosts(s.fields)
                    ELSE IF Get(s, "match_fields", <<>>) # <<>> THEN s.match_fields
                    ELSE <<Dict("name", 10)>>]

AdaptText(s) ==
  LET list == Get(s, "fields", <<>>) IN
  [k \in {"fields"} \cup (DOMAIN s \cap {"multi_match_type"}) |->
     IF k = "fields" THEN IF AllSpecs(list) THEN ParseFieldBoosts(list) ELSE list ELSE s[k]]

AdaptVector(s) ==
  [k \in {"vector_field"} \cup (DOMAIN s \cap {"num_candidates"}) |->
     IF k = "vector_field" THEN Get(s, k, "content_vector") ELSE s[k]]

(* A weight of 0 counts as none.                                           *)
AdaptHybrid(p) ==
  LET s == p.hybrid
      w == {k \in {"default_vector_weight", "vector_weight"} \cap DOMAIN s : s[k] # 0}
      passed == {"num_candidates", "fields", "match_fields", "multi_match_type"}
      weighed == IF w = {} /\ "vector_weight" \notin DOMAIN s THEN {} ELSE {"default_vector_weight"}
  IN
  [k \in {"vector_field"} \cup weighed \cup (DOMAIN s \cap passed) |->
     CASE k = "vector_field" ->
            Get(s, k, Get(Get(p, "vector", <<>>), k, "content_vector"))
       [] k = "default_vector_weight" ->
            IF k \in w THEN s[k] ELSE s["vector_weight"]
       [] OTHER -> s[k]]

AdaptSkillProfile(p) ==
  IF "search_type_profile" \in DOMAIN p THEN p
  ELSE [k \in {"title"} \cup (DOMAIN p \cap {"keyword", "text", "vector", "hybrid", "response_fields"}) |->
          CASE k = "keyword" -> AdaptKeyword(p[k])
            [] k = "title"   -> AdaptTitle(p)
            [] k = "text"    -> AdaptText(p[k])
            [] k = "vector"  -> AdaptVector(p[k])
            [] k = "hybrid"  -> AdaptHybrid(p)
            [] OTHER         -> p[k]]

-----------------------------------------------------------------------------
(* QueryProfileCompiler: which profiles it takes.                          *)

TypeProfileKeys ==
  [keyword |-> {"enabled", "term_fields"},
   title   |-> {"enabled", "match_fields"},
   text    |-> {"enabled", "fields", "multi_match_type"},
   vector  |-> {"enabled", "vector_field", "num_candidates"},
   hybrid  |-> {"enabled", "default_vector_weight", "vector_field", "num_candidates",
                "fields", "match_fields", "multi_match_type"}]

ValidEntries(list) == \A i \in DOMAIN list : list[i].form = "dict" /\ ~list[i].extra

ValidTypeProfile(type, s, extraKeys) ==
  /\ DOMAIN s \subseteq TypeProfileKeys[type] \cup extraKeys
  /\ \A l \in DOMAIN s \cap TypeProfileKeys[type] \cap {"term_fields", "match_fields", "fields"} :
       ValidEntries(s[l])
  /\ "num_candidates" \in DOMAIN s => s.num_candidates > 0

(* The wrapped form, the grouped one, or the profile is the section itself. *)
Form(type, p) ==
  CASE "search_type_profile" \in DOMAIN p -> "wrapped"
    [] "search_type_profile" \notin DOMAIN p /\ type \in DOMAIN p -> "grouped"
    [] OTHER -> "flat"

TopLevelKeys(form) ==
  IF form = "wrapped" THEN {"tag", "search_type_profile", "response_fields"}
                      ELSE SearchTypes \cup {"tag", "response_fields"}

Section(type, p) ==
  CASE Form(type, p) = "wrapped" -> p.search_type_profile[type]
    [] Form(type, p) = "grouped" -> p[type]
    [] Form(type, p) = "flat"    -> p

(* _extract_type_profile does not raise.                                   *)
Extracts(type, p) ==
  LET form == Form(type, p) IN
  /\ type \in SearchTypes
  /\ form # "flat" => DOMAIN p \subseteq TopLevelKeys(form)
  /\ form = "wrapped" => /\ DOMAIN p.search_type_profile \subseteq SearchTypes
                         /\ type \in DOMAIN p.search_type_profile
  /\ form # "flat" => Get(Section(type, p), "enabled", TRUE)
  /\ ValidTypeProfile(type, Section(type, p),
                      IF form = "flat" THEN {"tag", "response_fields"} ELSE {})

-----------------------------------------------------------------------------
(* QueryProfileCompiler: the query of a type.  A clause carries boosted    *)
(* fields, or the body of a kNN search; a query is a list of weighed arms, *)
(* with a single one except in hybrid search.                              *)

Needs(type, s, vector) ==
  /\ type = "keyword" => Get(s, "term_fields", <<>>) # <<>>
  /\ type = "title"   => Get(s, "match_fields", <<>>) # <<>>
  /\ type = "text"    => Get(s, "fields", <<>>) # <<>>
  /\ type \in VectorTypes => vector # None /\ "vector_field" \in DOMAIN s

Compiles(type, p, vector) == Extracts(type, p) /\ Needs(type, Section(type, p), vector)

Terms(s)   == [kind |-> "term", fields |-> s.term_fields]
Matches(s) == [kind |-> "match", fields |-> s.match_fields]
Multi(s)   == [kind |-> "multi_match", fields |-> s.fields,
               mode |-> Get(s, "multi_match_type", "most_fields")]

Knn(s, topK, vector) ==
  [kind |-> "knn", field |-> s.vector_field,
   body |-> [k \in {"vector", "k"} \cup (DOMAIN s \cap {"num_candidates"}) |->
               CASE k = "vector" -> vector [] k = "k" -> topK [] OTHER -> s[k]]]

(* Without text fields every document matches the text arm.                *)
TextArm(s) ==
  CASE Get(s, "fields", <<>>) # <<>> -> Multi(s)
    [] Get(s, "fields", <<>>) = <<>> /\ Get(s, "match_fields", <<>>) # <<>> -> Matches(s)
    [] OTHER -> [kind |-> "match_all"]

Hybrid(s, topK, vector, weight) ==
  LET w == IF weight # None THEN weight ELSE Get(s, "default_vector_weight", 60) IN
  <<[weight |-> One - w, clause |-> TextArm(s)],
    [weight |-> w, clause |-> Knn(s, topK, vector)]>>

Arms(type, s, topK, vector, weight) ==
  IF type = "hybrid" THEN Hybrid(s, topK, vector, weight)
  ELSE <<[weight |-> One,
          clause |-> CASE type = "keyword" -> Terms(s)
                       [] type = "title"   -> Matches(s)
                       [] type = "text"    -> Multi(s)
                       [] type = "vector"  -> Knn(s, topK, vector)]>>

(* The fields to ask the backend for.                                      *)
ExtractResponseFields(p) ==
  SelectSeq(Get(p, "response_fields", <<>>), LAMBDA f : f # Score)

Compile(type, p, topK, vector, weight) ==
  [size   |-> topK,
   arms   |-> Arms(type, Section(type, p), topK, vector, weight),
   source |-> ExtractResponseFields(p)]

-----------------------------------------------------------------------------
(* What the writers make of the kNN clauses.                               *)

(* _convert_knn_clause of Elasticsearch: k only where the search is kNN    *)
(* and nothing else, which then stands beside the query.                   *)
ConvertKnnClause(body, includeK) ==
  [k \in {"query_vector"} \cup (DOMAIN body \cap
           (IF includeK THEN {"k", "num_candidates"} ELSE {"num_candidates"})) |->
     IF k = "query_vector" THEN body.vector ELSE body[k]]

OverKnn(arms, Op(_)) ==
  [i \in DOMAIN arms |->
     LET c == arms[i].clause IN
     IF c.kind = "knn"
     THEN [weight |-> arms[i].weight,
           clause |-> [kind |-> "knn", field |-> c.field, body |-> Op(c.body)]]
     ELSE arms[i]]

(* OpenSearch takes the width of a kNN search from the index settings.     *)
StripNumCandidates(arms) == OverKnn(arms, LAMBDA b : Without(b, {"num_candidates"}))

Alone(arms) == DOMAIN arms = {1}
RewriteKnnClauses(arms) == OverKnn(arms, LAMBDA b : ConvertKnnClause(b, Alone(arms)))

(* Mutant of PrepareSearchDsl: only a search that is nothing but kNN is    *)
(* translated.                                                             *)
PrepareTopLevel(backend, dsl) ==
  CASE ~Alone(dsl.arms) -> dsl
    [] Alone(dsl.arms) /\ backend = "opensearch" ->
         [dsl EXCEPT !.arms = StripNumCandidates(@)]
    [] OTHER -> [dsl EXCEPT !.arms = RewriteKnnClauses(@)]

(* _prepare_search_dsl; PostgreSQL has no search.                          *)
PrepareSearchDsl(backend, dsl) ==
  CASE backend = "opensearch"    -> [dsl EXCEPT !.arms = StripNumCandidates(@)]
    [] backend = "elasticsearch" -> [dsl EXCEPT !.arms = RewriteKnnClauses(@)]
    [] OTHER                     -> dsl

-----------------------------------------------------------------------------
(* Result items.                                                           *)

ExcludedFields == {"chunk_id", "took_ms"}
Leaf(f) == f[Len(f)]
TopLevel(source) == {f[1] : f \in {g \in DOMAIN source : Len(g) = 1}}

(* map_hits, for one hit.  A listed path is shown under its last part, a   *)
(* later one in place of an earlier one; only whole names are excluded.    *)
MapHits(source, score, fields) ==
  LET listed == {i \in DOMAIN fields :
                   /\ fields[i] \in DOMAIN source
                   /\ fields[i] # Score
                   /\ fields[i] \notin {<<x>> : x \in ExcludedFields}}
      shown == IF fields = <<>> THEN TopLevel(source) \ ExcludedFields
                                ELSE {Leaf(fields[i]) : i \in listed}
      scored == IF fields = <<>> \/ Score \in {fields[i] : i \in DOMAIN fields}
                THEN {"score"} ELSE {}
      last(k) == CHOOSE i \in listed :
                   Leaf(fields[i]) = k /\ \A j \in listed : Leaf(fields[j]) = k => j <= i
  IN [k \in shown \cup scored |->
        IF k \in scored THEN score
        ELSE IF fields = <<>> THEN source[<<k>>] ELSE source[fields[last(k)]]]

(* _map_hits of the knowledge-base searcher knows no paths, and always     *)
(* shows the score.                                                        *)
KbMapHits(source, score, fields) ==
  LET top   == TopLevel(source) \ ExcludedFields
      shown == IF fields = <<>> THEN top
               ELSE {k \in top : <<k>> \in {fields[i] : i \in DOMAIN fields}}
  IN [k \in shown \cup {"score"} |-> IF k = "score" THEN score ELSE source[<<k>>]]
=============================================================================
