---------------------------- MODULE MCSearchFlow ----------------------------
(* A server process, two kb_indexes and two models; the profiles of the    *)
(* pre-registered parsers, and ones of custom parsers, in each of the      *)
(* forms the compiler takes.                                               *)
EXTENDS SearchFlow, TLC

CONSTANTS k1, k2, m1, m2

Sections ==
  [keyword |-> [enabled |-> FALSE, term_fields |-> <<Dict("name.keyword", 50)>>],
   title   |-> [match_fields |-> <<>>],
   text    |-> [fields |-> <<Dict("name", 40)>>],
   vector  |-> [vector_field |-> "v", num_candidates |-> 0],
   hybrid  |-> [default_vector_weight |-> 70, vector_field |-> "v", num_candidates |-> 9,
                match_fields |-> <<Dict("name", 10)>>]]

Wrapped == [search_type_profile |-> Sections,
            response_fields |-> <<<<"chunk_id">>, <<"name">>, <<"metadata", "score">>>>]

Grouped == [keyword |-> Sections.keyword, text |-> [fields |-> <<>>],
            hybrid |-> Sections.hybrid]

(* As older skill parsers wrote it, and the legacy form of one section.    *)
Older == [keyword |-> [fields |-> <<Spec1("name.keyword", 50)>>],
          vector  |-> [source_template |-> "name"],
          hybrid  |-> [vector_weight |-> 40]]
Flat  == [tag |-> "docs", fields |-> <<Dict("name", 40)>>, response_fields |-> <<Score>>]

MCProfiles == [MEMORY         |-> {MemoryProfile, Grouped},
               SKILL          |-> {SkillProfile, Wrapped, Grouped, Older},
               KNOWLEDGE_BASE |-> {Wrapped, Grouped, Flat}]

Request(type, kb, tag) ==
  [type |-> type, kb |-> kb, tag |-> tag, topK |-> None, model |-> None, weight |-> None]

MCRequests ==
  {Request(t, k1, tag) : t \in SearchTypes, tag \in {"memory", "skill"}}
  \cup {Request(None, None, tag) : tag \in {"memory", "skill", "docs"}}
  \cup {[Request("vector", k1, tag) EXCEPT !.model = m2] : tag \in {"memory", "skill"}}
  \cup {[Request("hybrid", k1, tag) EXCEPT !.weight = 30, !.topK = 2] : tag \in {"memory", "skill"}}
  \cup {Request("fuzzy", k1, "memory"), [Request("text", k1, "skill") EXCEPT !.topK = 4]}

MCHits == {<<"chunk_id">> :> "c" @@ <<"name">> :> "n" @@ <<"score">> :> "own" @@
           <<"metadata">> :> "obj" @@ <<"metadata", "score">> :> "other",
           <<"doc_id">> :> "d"}
=============================================================================
