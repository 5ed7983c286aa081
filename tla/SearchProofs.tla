---------------------------- MODULE SearchProofs ----------------------------
(***************************************************************************)
(* Proofs about SearchFlow and SearchProfile, for any number of server     *)
(* processes, kb_indexes, models, requests, profiles and binding writes.   *)
(***************************************************************************)
EXTENDS SearchFlow, TLAPS

AllBindings == Bindings \cup {NoBinding}

LEMMA NoBindingFacts ==
  /\ NoBinding \notin Bindings
  /\ NoBinding.updated = 0 /\ NoBinding.created = 0
  /\ \A b \in Bindings : /\ b.created \in 1..MaxWrites /\ b.updated \in 1..MaxWrites
                         /\ b.model \in Models \cup {None}
<1>1. \A b \in Bindings : b.created \in 1..MaxWrites /\ b.updated \in 1..MaxWrites
                          /\ b.model \in Models \cup {None}
  BY DEF Bindings
<1>2. NoBinding.updated = 0 /\ NoBinding.created = 0
  BY DEF NoBinding
<1>3. 0 \notin 1..MaxWrites
  BY SearchConstants
<1> QED BY <1>1, <1>2, <1>3

(* A lookup returns a binding of the view it reads.                        *)
LEMMA SeenTyped ==
  ASSUME NEW r \in Requests,
         NEW b \in [Kbs -> AllBindings], NEW v \in [Kbs -> AllBindings]
  PROVE  SeenBy(r, b, v) \subseteq AllBindings
<1>1. r.kb \in Kbs \cup {None}
  BY SearchConstants
<1> QED BY <1>1, SearchConstants DEF SeenBy

(* The lookups under way could still see everything that is in force.      *)
Tracked ==
  \A s \in Servers : search[s].pc = "lookup" =>
    /\ SeenBy(search[s].req, binding, visible) \subseteq search[s].since
    /\ search[s].seen = NoBinding

Inv == TypeOK /\ Tracked

LEMMA InitInv == Init => Inv
<1> SUFFICES ASSUME Init PROVE Inv
  OBVIOUS
<1>1. \A s \in Servers : search[s] = Idle
  BY DEF Init
<1>2. binding \in [Kbs -> AllBindings] /\ visible \in [Kbs -> AllBindings]
  BY DEF Init, AllBindings
<1>3. \A kb \in Kbs : /\ visible[kb].updated <= binding[kb].updated
                      /\ binding[kb].created <= binding[kb].updated
                      /\ binding[kb].updated <= writes
  BY NoBindingFacts DEF Init
<1>4. domain \in Domains /\ backend \in Backends /\ writes \in 0..MaxWrites /\ DOMAIN search = Servers
  BY SearchConstants DEF Init
<1>5. TypeOK
  BY <1>1, <1>2, <1>3, <1>4 DEF TypeOK, AllBindings
<1>6. Tracked
  BY <1>1 DEF Tracked, Idle
<1> QED BY <1>5, <1>6 DEF Inv

-----------------------------------------------------------------------------
Doing(x) ==
  \/ x = Idle
  \/ x.pc \in Pcs /\ x.req \in Requests /\ x.seen \in AllBindings

LEMMA TrackType ==
  ASSUME TypeOK, NEW b, NEW v, Track(b, v)
  PROVE  /\ DOMAIN search' = Servers
         /\ \A s \in Servers : Doing(search'[s])
<1>1. DOMAIN search' = Servers
  BY DEF Track
<1> SUFFICES ASSUME NEW s \in Servers PROVE Doing(search'[s])
  BY <1>1
<1>2. Doing(search[s])
  <2>1. search[s] = Idle \/ /\ search[s].pc \in Pcs
                            /\ search[s].req \in Requests
                            /\ search[s].seen \in Bindings \cup {NoBinding}
    BY DEF TypeOK
  <2> QED BY <2>1 DEF Doing, AllBindings
<1>3. CASE search[s].pc = "lookup"
  <2>1. /\ search'[s].pc = "lookup" /\ search'[s].req = search[s].req
        /\ search'[s].seen = NoBinding
    BY <1>3 DEF Track, Looking
  <2>2. search[s] # Idle
    BY <1>3 DEF Idle
  <2> QED BY <2>1, <2>2, <1>2, <1>3 DEF Doing, Pcs, AllBindings
<1>4. CASE search[s].pc # "lookup"
  BY <1>2, <1>4 DEF Track
<1> QED BY <1>3, <1>4

LEMMA TrackTracked ==
  ASSUME TypeOK, Track(binding', visible'), UNCHANGED backend
  PROVE  Tracked'
<1> DEFINE Sees(s) == /\ SeenBy(search[s].req, binding, visible) \subseteq search[s].since
                      /\ search[s].seen = NoBinding
<1> SUFFICES ASSUME NEW s \in Servers PROVE (search[s].pc = "lookup" => Sees(s))'
  BY DEF Tracked
<1>1. CASE search[s].pc = "lookup"
  <2>1. /\ search'[s].req = search[s].req
        /\ search'[s].since = search[s].since \cup SeenBy(search[s].req, binding', visible')
        /\ search'[s].seen = NoBinding
    BY <1>1 DEF Track, Looking
  <2>2. SeenBy(search'[s].req, binding', visible') = SeenBy(search[s].req, binding', visible')
    BY <2>1
  <2>3. SeenBy(search[s].req, binding, visible)' = SeenBy(search'[s].req, binding', visible')
    BY DEF SeenBy
  <2> QED BY <2>1, <2>2, <2>3
<1>2. CASE search[s].pc # "lookup"
  BY <1>2 DEF Track
<1> QED BY <1>1, <1>2

LEMMA WriteInv ==
  ASSUME Inv, NEW kb \in Kbs, NEW b \in Bindings, b.updated = writes + 1, b.created <= b.updated,
         Write(kb, b)
  PROVE  Inv'
<1> USE DEF Inv
<1>1. binding' = [binding EXCEPT ![kb] = b] /\ visible' = visible /\ writes' = writes + 1
  BY DEF Write
<1>2. binding' \in [Kbs -> AllBindings] /\ visible' \in [Kbs -> AllBindings]
  BY <1>1 DEF TypeOK, AllBindings
<1>3. writes \in Nat /\ writes' \in 0..MaxWrites
  BY <1>1, SearchConstants DEF Write, TypeOK
<1>4. \A k \in Kbs : /\ binding[k].updated \in Nat /\ binding[k].created \in Nat
                      /\ visible[k].updated \in Nat
  BY NoBindingFacts, SearchConstants DEF TypeOK
<1>5. ASSUME NEW k \in Kbs
      PROVE  /\ visible'[k].updated <= binding'[k].updated
             /\ binding'[k].created <= binding'[k].updated
             /\ binding'[k].updated <= writes'
  <2>1. /\ visible[k].updated <= binding[k].updated
        /\ binding[k].created <= binding[k].updated
        /\ binding[k].updated <= writes
    BY DEF TypeOK
  <2>2. b.updated \in Nat /\ b.created \in Nat
    BY NoBindingFacts, SearchConstants
  <2>3. CASE k = kb
    <3>1. binding'[k] = b
      BY <1>1, <2>3 DEF TypeOK
    <3> QED BY <1>1, <1>3, <1>4, <2>1, <2>2, <3>1
  <2>4. CASE k # kb
    <3>1. binding'[k] = binding[k]
      BY <1>1, <2>4 DEF TypeOK
    <3> QED BY <1>1, <1>3, <1>4, <2>1, <3>1
  <2> QED BY <2>3, <2>4
<1>6. Track(binding', visible')
  BY <1>1 DEF Write
<1>7. DOMAIN search' = Servers /\ \A s \in Servers : Doing(search'[s])
  BY <1>6, TrackType
<1>8. domain' = domain /\ backend' = backend
  BY DEF Write
<1>9. TypeOK'
  BY <1>2, <1>3, <1>5, <1>7, <1>8 DEF TypeOK, Doing, AllBindings
<1>10. Tracked'
  BY <1>6, <1>8, TrackTracked
<1> QED BY <1>9, <1>10

LEMMA VersionInv ==
  ASSUME Inv, NEW kb \in Kbs, NEW m \in Models \cup {None},
         NEW p \in UNION {{Stored(d, q) : q \in Profiles[d]} : d \in Domains},
         NEW c \in 1..(writes + 1), Write(kb, Version(m, p, c))
  PROVE  Inv'
<1>1. writes \in Nat /\ MaxWrites \in Nat /\ writes + 1 \in 1..MaxWrites /\ c \in 1..MaxWrites
  BY SearchConstants DEF Inv, TypeOK, Write
<1>2. Version(m, p, c) \in Bindings
  BY <1>1 DEF Bindings, Version
<1>3. Version(m, p, c).updated = writes + 1 /\ Version(m, p, c).created <= Version(m, p, c).updated
  BY <1>1 DEF Version
<1> QED BY <1>2, <1>3, WriteInv

LEMMA BindInv ==
  ASSUME Inv, NEW kb \in Kbs, NEW m \in Models \cup {None}, NEW p \in Profiles[domain], Bind(kb, m, p)
  PROVE  Inv'
<1>1. writes + 1 \in 1..(writes + 1)
  BY DEF Inv, TypeOK
<1>2. Stored(domain, p) \in UNION {{Stored(d, q) : q \in Profiles[d]} : d \in Domains}
  BY DEF Inv, TypeOK
<1> QED BY <1>1, <1>2, VersionInv DEF Bind

LEMMA RebindInv ==
  ASSUME Inv, NEW kb \in Kbs, NEW m \in Models \cup {None}, NEW p \in Profiles[domain], Rebind(kb, m, p)
  PROVE  Inv'
<1>1. binding[kb] \in Bindings
  BY DEF Inv, TypeOK, Rebind
<1>2. binding[kb].created \in 1..(writes + 1)
  <2>1. binding[kb].created \in 1..MaxWrites /\ binding[kb].updated \in 1..MaxWrites
    BY <1>1, NoBindingFacts
  <2>2. /\ binding[kb].created <= binding[kb].updated
        /\ binding[kb].updated <= writes /\ writes \in 0..MaxWrites
    BY DEF Inv, TypeOK
  <2> QED BY <2>1, <2>2, SearchConstants
<1>3. CASE domain = "SKILL" /\ Write(kb, Version(m, p, binding[kb].created))
  <2>1. Stored(domain, p) = p
    BY <1>3 DEF Stored
  <2>2. p \in UNION {{Stored(d, q) : q \in Profiles[d]} : d \in Domains}
    BY <2>1 DEF Inv, TypeOK
  <2> QED BY <1>2, <1>3, <2>2, VersionInv
<1>4. CASE Write(kb, Version(m, binding[kb].profile, binding[kb].created))
  <2>1. binding[kb].profile \in UNION {{Stored(d, q) : q \in Profiles[d]} : d \in Domains}
    BY <1>1 DEF Bindings
  <2> QED BY <1>2, <1>4, <2>1, VersionInv
<1> QED BY <1>3, <1>4 DEF Rebind

LEMMA RefreshInv == Inv /\ Refresh => Inv'
<1> SUFFICES ASSUME Inv, Refresh PROVE Inv'
  OBVIOUS
<1> USE DEF Inv
<1>1. visible' = binding /\ binding' = binding /\ writes' = writes /\ UNCHANGED <<domain, backend>>
  BY DEF Refresh
<1>2. Track(binding', visible')
  BY <1>1 DEF Refresh
<1>3. DOMAIN search' = Servers /\ \A s \in Servers : Doing(search'[s])
  BY <1>2, TrackType
<1>4. \A kb \in Kbs : binding[kb].updated \in Nat
  BY NoBindingFacts, SearchConstants DEF TypeOK
<1>5. TypeOK'
  BY <1>1, <1>3, <1>4 DEF TypeOK, Doing, AllBindings
<1>6. Tracked'
  BY <1>1, <1>2, TrackTracked
<1> QED BY <1>5, <1>6

LEMMA ServerInv ==
  ASSUME Inv, NEW s \in Servers, NEW x, Becomes(s, x), Doing(x),
         x.pc = "lookup" => /\ SeenBy(x.req, binding, visible) \subseteq x.since
                            /\ x.seen = NoBinding
  PROVE  Inv'
<1> USE DEF Inv
<1>1. /\ DOMAIN search' = Servers /\ search'[s] = x
      /\ \A t \in Servers \ {s} : search'[t] = search[t]
      /\ UNCHANGED <<domain, backend, binding, visible, writes>>
  BY DEF Becomes, TypeOK
<1>2. TypeOK'
  BY <1>1 DEF TypeOK, Doing, AllBindings
<1>3. Tracked'
  BY <1>1 DEF Tracked, SeenBy
<1> QED BY <1>2, <1>3

-----------------------------------------------------------------------------
(* The steps of a server process.                                          *)

LEMMA Current ==
  ASSUME Inv, NEW s \in Servers, search[s].pc # "idle"
  PROVE  search[s].pc \in Pcs /\ search[s].req \in Requests /\ search[s].seen \in AllBindings
BY DEF Inv, TypeOK, Idle, AllBindings

LEMMA AnswerInv ==
  ASSUME Inv, NEW s \in Servers, search[s].pc # "idle", NEW c, NEW item, Answer(s, c, item)
  PROVE  Inv'
<1> DEFINE x == [pc |-> "answered", req |-> search[s].req, seen |-> search[s].seen,
                 status |-> c, item |-> item]
<1>1. Doing(x) /\ x.pc # "lookup"
  BY Current DEF Doing, Pcs
<1>2. Becomes(s, x)
  BY DEF Answer
<1> HIDE DEF x
<1> QED BY <1>1, <1>2, ServerInv

LEMMA AcceptInv ==
  ASSUME Inv, NEW s \in Servers, NEW r \in Requests, Accept(s, r)
  PROVE  Inv'
<1> DEFINE x == Looking(r, SeenBy(r, binding, visible))
           y == [pc |-> "answered", req |-> r, seen |-> NoBinding, status |-> "400",
                 item |-> NoItem]
<1>1. Doing(x) /\ Doing(y) /\ y.pc # "lookup"
  BY DEF Doing, Pcs, AllBindings, Looking
<1>2. SeenBy(x.req, binding, visible) \subseteq x.since /\ x.seen = NoBinding
  BY DEF Looking
<1>3. Becomes(s, x) \/ Becomes(s, y)
  BY DEF Accept
<1> HIDE DEF x, y
<1> QED BY <1>1, <1>2, <1>3, ServerInv

(* What a lookup may return was in force and is a binding.                 *)
LEMMA CandidatesTyped ==
  ASSUME Inv, NEW s \in Servers, search[s].pc = "lookup", NEW b \in Candidates(search[s].req)
  PROVE  b \in Bindings /\ b \in search[s].since
<1>1. b \in SeenBy(search[s].req, binding, visible) \ {NoBinding}
  BY DEF Candidates, NewestCreated, LatestUpdated
<1>2. SeenBy(search[s].req, binding, visible) \subseteq AllBindings
  BY SeenTyped, Current DEF Inv, TypeOK, AllBindings
<1> QED BY <1>1, <1>2 DEF Inv, Tracked, AllBindings

LEMMA FoundTyped ==
  ASSUME Inv, NEW s \in Servers, search[s].pc = "lookup", NEW b \in Bindings
  PROVE  /\ Found(s, b).pc \in {"answered", "embed", "compile"}
         /\ Found(s, b).req = search[s].req
         /\ Found(s, b).seen = b
<1> DEFINE r == search[s].req
<1>1. CASE Conflict(r, b)
  BY <1>1 DEF Found
<1>2. CASE ~Conflict(r, b) /\ Type(r) \in VectorTypes /\ b.model = None
  BY <1>2 DEF Found
<1>3. CASE ~Conflict(r, b) /\ ~(Type(r) \in VectorTypes /\ b.model = None)
  BY <1>3 DEF Found, Prepared
<1> QED BY <1>1, <1>2, <1>3

LEMMA LookupInv ==
  ASSUME Inv, NEW s \in Servers, Lookup(s)
  PROVE  Inv'
<1>1. search[s].pc = "lookup"
  BY DEF Lookup
<1>2. ASSUME NEW b \in Candidates(search[s].req), Becomes(s, Found(s, b)) PROVE Inv'
  <2>1. b \in Bindings
    BY <1>1, CandidatesTyped
  <2>2. Doing(Found(s, b)) /\ Found(s, b).pc # "lookup"
    BY <1>1, <2>1, FoundTyped, Current DEF Doing, Pcs, AllBindings
  <2> QED BY <1>2, <2>2, ServerInv
<1> QED BY <1>1, <1>2, AnswerInv DEF Lookup

LEMMA EmbedInv ==
  ASSUME Inv, NEW s \in Servers, Embed(s)
  PROVE  Inv'
<1>1. search[s].pc = "embed"
  BY DEF Embed
<1> DEFINE x(v) == Prepared("compile", search[s].req, search[s].seen, search[s].weight, v)
<1>2. ASSUME NEW v, Becomes(s, x(v)) PROVE Inv'
  <2>1. Doing(x(v)) /\ x(v).pc # "lookup"
    BY <1>1, Current DEF Doing, Pcs, Prepared
  <2> QED BY <1>2, <2>1, ServerInv
<1> QED BY <1>1, <1>2, AnswerInv DEF Embed

LEMMA CompileInv ==
  ASSUME Inv, NEW s \in Servers, CompileQuery(s)
  PROVE  Inv'
<1>1. search[s].pc = "compile"
  BY DEF CompileQuery
<1> DEFINE x(f, d) == [pc |-> "query", req |-> search[s].req, seen |-> search[s].seen,
                       fields |-> f, dsl |-> d]
<1>2. ASSUME NEW f, NEW d, Becomes(s, x(f, d)) PROVE Inv'
  <2>1. Doing(x(f, d)) /\ x(f, d).pc # "lookup"
    BY <1>1, Current DEF Doing, Pcs
  <2> HIDE DEF x
  <2> QED BY <1>2, <2>1, ServerInv
<1>3. (\E f, d : Becomes(s, x(f, d))) \/ Answer(s, "422", NoItem)
  BY DEF CompileQuery
<1> QED BY <1>1, <1>2, <1>3, AnswerInv

LEMMA ServeInv ==
  ASSUME Inv, NEW s \in Servers, Serve(s)
  PROVE  Inv'
<1>1. CASE Query(s)
  BY <1>1, AnswerInv DEF Query
<1>2. CASE Respond(s)
  <2>1. Doing(Idle)
    BY DEF Doing
  <2>2. Idle.pc # "lookup"
    BY DEF Idle
  <2> QED BY <1>2, <2>1, <2>2, ServerInv DEF Respond
<1> QED BY <1>1, <1>2, LookupInv, EmbedInv, CompileInv DEF Serve

LEMMA StepInv == Inv /\ [Next]_vars => Inv'
<1> SUFFICES ASSUME Inv, [Next]_vars PROVE Inv'
  OBVIOUS
<1>1. CASE Next
  BY <1>1, BindInv, RebindInv, RefreshInv, ServeInv, AcceptInv DEF Next
<1>2. CASE UNCHANGED vars
  BY <1>2 DEF vars, Inv, TypeOK, Tracked, SeenBy, Bindings, Stored
<1> QED BY <1>1, <1>2

(* The bindings and the views of them keep their shape and order, and a    *)
(* server process is in one of the stages of a search.                     *)
THEOREM TypeCorrect == Spec => []TypeOK
<1>1. Inv => TypeOK
  BY DEF Inv
<1> QED BY InitInv, StepInv, <1>1, PTL DEF Spec

-----------------------------------------------------------------------------
(* What a search that leaves the lookup has read, and answers.             *)
InForce(x, since) ==
  \/ x.seen = NoBinding /\ x.status = "500"
  \/ /\ x.seen \in since
     /\ x.seen = NoBinding <=> x.pc = "answered" /\ x.status = "404"

(* A search that leaves the lookup has seen what was in force since it was *)
(* accepted: the set of those bindings contains the ones it may return.    *)
LEMMA LookupInForce ==
  ASSUME Inv, [Next]_vars, NEW s \in Servers, search[s].pc = "lookup", search'[s].pc # "lookup"
  PROVE  InForce(search'[s], search[s].since)
<1>1. ASSUME NEW b, NEW v, Track(b, v) PROVE FALSE
  BY <1>1 DEF Track, Looking
<1>2. ASSUME NEW t \in Servers, NEW x, Becomes(t, x)
      PROVE  t = s /\ search'[s] = x
  BY <1>2 DEF Becomes, Inv, TypeOK
<1>3. Lookup(s)
  <2>1. ASSUME NEW t \in Servers, NEW r \in Requests, Accept(t, r) PROVE FALSE
    <3>1. t = s
      BY <2>1, <1>2 DEF Accept
    <3> QED BY <2>1, <3>1 DEF Accept
  <2>2. ASSUME NEW t \in Servers, Serve(t) PROVE Lookup(s)
    <3>1. t = s
      BY <2>2, <1>2 DEF Serve, Lookup, Embed, CompileQuery, Query, Respond, Answer
    <3> QED BY <2>2, <3>1 DEF Serve, Embed, CompileQuery, Query, Respond
  <2>3. Next
    BY DEF vars
  <2>4. ASSUME NEW kb \in Kbs, NEW m \in Models \cup {None}, NEW p \in Profiles[domain],
               Bind(kb, m, p) \/ Rebind(kb, m, p)
        PROVE  FALSE
    BY <2>4, <1>1 DEF Bind, Rebind, Write
  <2>5. ~Refresh
    BY <1>1 DEF Refresh
  <2> QED BY <2>1, <2>2, <2>3, <2>4, <2>5 DEF Next
<1>4. CASE /\ SeenBy(search[s].req, binding, visible) \subseteq {NoBinding}
           /\ Answer(s, "404", NoItem)
  <2>1. search'[s].seen = search[s].seen /\ search'[s].pc = "answered" /\ search'[s].status = "404"
    BY <1>2, <1>4 DEF Answer
  <2>2. search[s].seen = NoBinding /\ SeenBy(search[s].req, binding, visible) \subseteq search[s].since
    BY DEF Inv, Tracked
  <2>3. SeenBy(search[s].req, binding, visible) # {}
    <3>1. PICK kb \in Kbs : TRUE
      BY SearchConstants
    <3>2. CASE search[s].req.kb # None
      BY <3>2 DEF SeenBy
    <3>3. CASE search[s].req.kb = None /\ backend = "postgresql"
      BY <3>1, <3>3 DEF SeenBy
    <3>4. CASE search[s].req.kb = None /\ backend # "postgresql"
      BY <3>1, <3>4 DEF SeenBy
    <3> QED BY <3>2, <3>3, <3>4
  <2> QED BY <1>4, <2>1, <2>2, <2>3 DEF InForce
<1>5. ASSUME NEW b \in Candidates(search[s].req), Becomes(s, Found(s, b))
      PROVE  InForce(search'[s], search[s].since)
  <2>1. search'[s] = Found(s, b) /\ b \in Bindings /\ b # NoBinding /\ b \in search[s].since
    BY <1>2, <1>5, CandidatesTyped, NoBindingFacts
  <2>2. Found(s, b).seen = b
    BY <2>1, FoundTyped
  <2>3. ~(Found(s, b).pc = "answered" /\ Found(s, b).status = "404")
    <3>1. CASE Conflict(search[s].req, b)
      BY <3>1 DEF Found
    <3>2. CASE ~Conflict(search[s].req, b) /\ Type(search[s].req) \in VectorTypes /\ b.model = None
      BY <3>2 DEF Found
    <3>3. CASE ~Conflict(search[s].req, b) /\ ~(Type(search[s].req) \in VectorTypes /\ b.model = None)
      BY <3>3 DEF Found, Prepared
    <3> QED BY <3>1, <3>2, <3>3
  <2> QED BY <2>1, <2>2, <2>3 DEF InForce
<1>6. CASE Answer(s, "500", NoItem)
  <2>1. search'[s].seen = search[s].seen /\ search'[s].status = "500"
    BY <1>2, <1>6 DEF Answer
  <2>2. search[s].seen = NoBinding
    BY DEF Inv, Tracked
  <2> QED BY <2>1, <2>2 DEF InForce
<1> QED BY <1>3, <1>4, <1>5, <1>6 DEF Lookup

(* A search answers from a binding in force during its lookup; a lookup    *)
(* that fails has read none, and is not taken for one that found none.     *)
THEOREM AnsweredInForce == Spec => ReadInForce
<1>1. Inv /\ [Next]_vars =>
        \A s \in Servers :
          search[s].pc = "lookup" /\ search'[s].pc # "lookup" =>
            LET x == search'[s] IN
            \/ x.seen = NoBinding /\ x.status = "500"
            \/ /\ x.seen \in search[s].since
               /\ x.seen = NoBinding <=> x.pc = "answered" /\ x.status = "404"
  BY LookupInForce DEF InForce
<1> QED BY InitInv, StepInv, <1>1, PTL DEF Spec, ReadInForce

-----------------------------------------------------------------------------
(* The queries.                                                            *)

KnnShape(arms) ==
  \A i \in DOMAIN arms : arms[i].clause.kind = "knn" => "k" \in DOMAIN arms[i].clause.body

LEMMA CompiledShape ==
  ASSUME NEW type \in SearchTypes, NEW s, NEW k, NEW v, NEW w
  PROVE  KnnShape(Arms(type, s, k, v, w))
<1>1. Knn(s, k, v).kind = "knn" /\ "k" \in DOMAIN Knn(s, k, v).body
  BY DEF Knn
<1>2. TextArm(s).kind \in {"multi_match", "match", "match_all"}
  BY DEF TextArm, Multi, Matches
<1>3. Terms(s).kind = "term" /\ Matches(s).kind = "match" /\ Multi(s).kind = "multi_match"
  BY DEF Terms, Matches, Multi
<1>4. CASE type = "hybrid"
  <2> DEFINE u == IF w # None THEN w ELSE Get(s, "default_vector_weight", 60)
  <2>1. Arms(type, s, k, v, w) = <<[weight |-> One - u, clause |-> TextArm(s)],
                                   [weight |-> u, clause |-> Knn(s, k, v)]>>
    BY <1>4 DEF Arms, Hybrid
  <2> QED BY <2>1, <1>1, <1>2 DEF KnnShape
<1>5. CASE type # "hybrid"
  <2>1. PICK c \in {Terms(s), Matches(s), Multi(s), Knn(s, k, v)} :
          Arms(type, s, k, v, w) = <<[weight |-> One, clause |-> c]>>
    BY <1>5 DEF Arms, SearchTypes
  <2> QED BY <2>1, <1>1, <1>3 DEF KnnShape
<1> QED BY <1>4, <1>5

LEMMA RewrittenFits ==
  ASSUME NEW arms, KnnShape(arms), NEW i \in DOMAIN RewriteKnnClauses(arms),
         RewriteKnnClauses(arms)[i].clause.kind = "knn"
  PROVE  LET body == RewriteKnnClauses(arms)[i].clause.body IN
         /\ "query_vector" \in DOMAIN body /\ "vector" \notin DOMAIN body
         /\ "k" \in DOMAIN body <=> Alone(RewriteKnnClauses(arms))
<1>1. i \in DOMAIN arms /\ DOMAIN RewriteKnnClauses(arms) = DOMAIN arms
  BY DEF RewriteKnnClauses, OverKnn
<1>2. arms[i].clause.kind = "knn"
  BY <1>1 DEF RewriteKnnClauses, OverKnn
<1>3. RewriteKnnClauses(arms)[i].clause.body = ConvertKnnClause(arms[i].clause.body, Alone(arms))
  BY <1>1, <1>2 DEF RewriteKnnClauses, OverKnn
<1>4. "k" \in DOMAIN arms[i].clause.body
  BY <1>1, <1>2 DEF KnnShape
<1>5. Alone(RewriteKnnClauses(arms)) <=> Alone(arms)
  BY <1>1 DEF Alone
<1> QED BY <1>3, <1>4, <1>5 DEF ConvertKnnClause

LEMMA StrippedFits ==
  ASSUME NEW arms, NEW i \in DOMAIN StripNumCandidates(arms),
         StripNumCandidates(arms)[i].clause.kind = "knn"
  PROVE  "num_candidates" \notin DOMAIN StripNumCandidates(arms)[i].clause.body
<1>1. i \in DOMAIN arms /\ arms[i].clause.kind = "knn"
  BY DEF StripNumCandidates, OverKnn
<1>2. StripNumCandidates(arms)[i].clause.body = Without(arms[i].clause.body, {"num_candidates"})
  BY <1>1 DEF StripNumCandidates, OverKnn
<1> QED BY <1>2 DEF Without

LEMMA PreparedFits ==
  ASSUME NEW type \in SearchTypes, NEW p, NEW k, NEW v, NEW w
  PROVE  Fits(PrepareSearchDsl(backend, Compile(type, p, k, v, w)).arms)
<1> DEFINE dsl == Compile(type, p, k, v, w)
           arms == Arms(type, Section(type, p), k, v, w)
<1>1. KnnShape(arms)
  BY CompiledShape
<1>2. CASE backend = "opensearch"
  <2>1. PrepareSearchDsl(backend, dsl).arms = StripNumCandidates(arms)
    BY <1>2 DEF PrepareSearchDsl, Compile
  <2> QED BY <1>2, <2>1, StrippedFits DEF Fits
<1>3. CASE backend = "elasticsearch"
  <2>1. PrepareSearchDsl(backend, dsl).arms = RewriteKnnClauses(arms)
    BY <1>3 DEF PrepareSearchDsl, Compile
  <2> QED BY <1>1, <1>3, <2>1, RewrittenFits DEF Fits
<1>4. CASE backend \notin {"opensearch", "elasticsearch"}
  BY <1>4 DEF Fits
<1> QED BY <1>2, <1>3, <1>4

-----------------------------------------------------------------------------
(* The stages of a search.                                                 *)

Failed(x) == x.pc = "answered" /\ x.status \notin {"200", "422"}

Sent(x, p) ==
  [pc |-> "query", req |-> x.req, seen |-> x.seen, fields |-> Get(p, "response_fields", <<>>),
   dsl |-> PrepareSearchDsl(backend,
             Compile(Type(x.req), p, NormaliseTopK(x.req), x.vector, x.weight))]

Ended(x, status, item) ==
  [pc |-> "answered", req |-> x.req, seen |-> x.seen, status |-> status, item |-> item]

(* What a step may make of the search of a process.                        *)
LEMMA SearchStep ==
  ASSUME Inv, [Next]_vars, NEW s \in Servers
  PROVE  LET x == search[s]
             p == Adapted(x.seen.profile)
         IN
         /\ UNCHANGED <<domain, backend>>
         /\ \/ search'[s] = x
            \/ search'[s] = Idle
            \/ Failed(search'[s])
            \/ \E r \in Requests : \E since : ValidType(r) /\ search'[s] = Looking(r, since)
            \/ x.pc = "lookup" /\ \E since : search'[s] = Looking(x.req, since)
            \/ x.pc = "lookup" /\ \E b \in Bindings : search'[s] = Found(s, b)
            \/ /\ x.pc = "embed"
               /\ \E v \in {x.seen.model, Zero} :
                    search'[s] = Prepared("compile", x.req, x.seen, x.weight, v)
            \/ x.pc = "compile" /\ Compiles(Type(x.req), p, x.vector) /\ search'[s] = Sent(x, p)
            \/ /\ x.pc = "compile" /\ ~Compiles(Type(x.req), p, x.vector)
               /\ search'[s] = Ended(x, "422", NoItem)
            \/ /\ x.pc = "query"
               /\ \E h \in Hits : search'[s] = Ended(x, "200", Item(h, x.fields))
<1>1. UNCHANGED <<domain, backend>>
  BY DEF Next, vars, Bind, Rebind, Write, Refresh, Accept, Serve, Lookup, Embed, CompileQuery,
         Query, Respond, Answer, Becomes
<1>2. ASSUME NEW b, NEW v, Track(b, v)
      PROVE  \/ search'[s] = search[s]
             \/ search[s].pc = "lookup" /\ \E since : search'[s] = Looking(search[s].req, since)
  BY <1>2 DEF Track
<1>3. ASSUME NEW t \in Servers, NEW x, Becomes(t, x)
      PROVE  search'[s] = search[s] \/ (t = s /\ search'[s] = x)
  BY <1>3 DEF Becomes, Inv, TypeOK
<1>4. ASSUME NEW t \in Servers, NEW c, NEW item, Answer(t, c, item)
      PROVE  search'[s] = search[s] \/ (t = s /\ search'[s] = Ended(search[s], c, item))
  BY <1>3, <1>4 DEF Answer, Ended
<1>5. ASSUME NEW t \in Servers, NEW c, c \notin {"200", "422"}, Answer(t, c, NoItem)
      PROVE  search'[s] = search[s] \/ Failed(search'[s])
  <2>1. Failed(Ended(search[s], c, NoItem))
    BY <1>5 DEF Ended, Failed
  <2> QED BY <1>4, <1>5, <2>1
<1>6. ASSUME NEW t \in Servers, NEW r \in Requests, Accept(t, r)
      PROVE  \/ search'[s] = search[s]
             \/ Failed(search'[s])
             \/ \E since : ValidType(r) /\ search'[s] = Looking(r, since)
  <2>1. CASE ValidType(r) /\ ValidTopK(r) /\ ValidTag(r)
    BY <1>3, <1>6, <2>1 DEF Accept
  <2>2. CASE ~(ValidType(r) /\ ValidTopK(r) /\ ValidTag(r))
    BY <1>3, <1>6, <2>2 DEF Accept, Failed
  <2> QED BY <2>1, <2>2
<1>7. ASSUME NEW t \in Servers, Lookup(t)
      PROVE  \/ search'[s] = search[s]
             \/ Failed(search'[s])
             \/ search[s].pc = "lookup" /\ \E b \in Bindings : search'[s] = Found(s, b)
  <2>1. ASSUME NEW b \in Candidates(search[t].req), Becomes(t, Found(t, b))
        PROVE  search'[s] = search[s] \/ (t = s /\ b \in Bindings /\ search'[s] = Found(s, b))
    BY <1>3, <1>7, <2>1, CandidatesTyped DEF Lookup
  <2> QED BY <1>5, <1>7, <2>1 DEF Lookup
<1>8. ASSUME NEW t \in Servers, Embed(t)
      PROVE  \/ search'[s] = search[s]
             \/ Failed(search'[s])
             \/ /\ search[s].pc = "embed"
                /\ \E v \in {search[s].seen.model, Zero} :
                     search'[s] = Prepared("compile", search[s].req, search[s].seen,
                                           search[s].weight, v)
  BY <1>3, <1>5, <1>8 DEF Embed
<1>9. ASSUME NEW t \in Servers, CompileQuery(t)
      PROVE  LET x == search[s]
                 p == Adapted(x.seen.profile)
             IN
             \/ search'[s] = x
             \/ x.pc = "compile" /\ Compiles(Type(x.req), p, x.vector) /\ search'[s] = Sent(x, p)
             \/ /\ x.pc = "compile" /\ ~Compiles(Type(x.req), p, x.vector)
                /\ search'[s] = Ended(x, "422", NoItem)
  BY <1>3, <1>4, <1>9 DEF CompileQuery, Sent
<1>10. ASSUME NEW t \in Servers, Query(t)
       PROVE  \/ search'[s] = search[s]
              \/ Failed(search'[s])
              \/ /\ search[s].pc = "query"
                 /\ \E h \in Hits : search'[s] = Ended(search[s], "200", Item(h, search[s].fields))
  <2>1. ASSUME NEW h \in Hits, Answer(t, "200", Item(h, search[t].fields))
        PROVE  \/ search'[s] = search[s]
               \/ t = s /\ search'[s] = Ended(search[s], "200", Item(h, search[s].fields))
    BY <1>4, <2>1
  <2> QED BY <1>5, <1>10, <2>1 DEF Query
<1>11. ASSUME NEW t \in Servers, Respond(t)
       PROVE  search'[s] = search[s] \/ search'[s] = Idle
  BY <1>3, <1>11 DEF Respond
<1>12. CASE UNCHANGED vars
  BY <1>12, <1>1 DEF vars
<1>13. CASE \E kb \in Kbs, m \in Models \cup {None}, q \in Profiles[domain] :
              Bind(kb, m, q) \/ Rebind(kb, m, q)
  BY <1>1, <1>2, <1>13 DEF Bind, Rebind, Write
<1>14. CASE Refresh
  BY <1>1, <1>2, <1>14 DEF Refresh
<1>15. CASE \E t \in Servers : Serve(t) \/ \E r \in Requests : Accept(t, r)
  BY <1>1, <1>6, <1>7, <1>8, <1>9, <1>10, <1>11, <1>15 DEF Serve
<1> QED BY <1>12, <1>13, <1>14, <1>15 DEF Next

(* What a search carries from one stage to the next: the weight the        *)
(* service took from the request or the profile, the model of the binding  *)
(* and the vector, the query that was compiled from them, the item mapped  *)
(* from a hit; and why a search was answered 422.                          *)
Stage(x) ==
  LET p == Adapted(x.seen.profile)
      w == NormaliseWeight(x.req, x.seen.profile)
  IN
  /\ x.pc \in {"lookup", "embed", "compile"} => Type(x.req) \in SearchTypes
  /\ x.pc \in {"embed", "compile"} => x.weight = w
  /\ x.pc = "embed" => x.seen.model # None
  /\ x.pc = "compile" /\ Type(x.req) \in VectorTypes => x.vector # None
  /\ x.pc = "query" =>
       /\ Type(x.req) \in SearchTypes
       /\ x.fields = Get(p, "response_fields", <<>>)
       /\ \E v : /\ Compiles(Type(x.req), p, v)
                 /\ x.dsl = PrepareSearchDsl(backend,
                              Compile(Type(x.req), p, NormaliseTopK(x.req), v, w))
  /\ x.pc = "answered" /\ x.status = "200" =>
       \E h \in Hits : x.item = Item(h, Get(p, "response_fields", <<>>))
  /\ x.pc = "answered" /\ x.status = "422" /\ x.seen.model # None =>
       /\ Type(x.req) \in SearchTypes
       /\ \E v : /\ Type(x.req) \in VectorTypes => v # None
                 /\ ~Compiles(Type(x.req), p, v)

Staged == \A s \in Servers : Stage(search[s])

LEMMA FoundStage ==
  ASSUME NEW s \in Servers, search[s].pc = "lookup", Stage(search[s]), NEW b \in Bindings
  PROVE  Stage(Found(s, b))
<1> DEFINE r == search[s].req
<1>1. Type(r) \in SearchTypes
  BY DEF Stage
<1>2. CASE Conflict(r, b)
  BY <1>2 DEF Found, Stage
<1>3. CASE ~Conflict(r, b) /\ Type(r) \in VectorTypes /\ b.model = None
  BY <1>3 DEF Found, Stage
<1>4. CASE ~Conflict(r, b) /\ ~(Type(r) \in VectorTypes /\ b.model = None)
  <2> DEFINE pc == IF Type(r) \in VectorTypes THEN "embed" ELSE "compile"
             w == NormaliseWeight(r, b.profile)
             x == Prepared(pc, r, b, w, None)
  <2>1. Found(s, b) = x
    BY <1>4 DEF Found
  <2>2. x.pc = pc /\ x.req = r /\ x.seen = b /\ x.weight = w /\ x.vector = None
    BY DEF Prepared
  <2>3. pc \in {"embed", "compile"} /\ (pc = "embed" <=> Type(r) \in VectorTypes)
    OBVIOUS
  <2> HIDE DEF x, pc, w
  <2>4. pc = "embed" => b.model # None
    BY <1>4, <2>3
  <2> QED BY <1>1, <2>1, <2>2, <2>3, <2>4 DEF Stage, w
<1> QED BY <1>2, <1>3, <1>4

LEMMA StagedStep ==
  ASSUME Inv, Staged, [Next]_vars
  PROVE  Staged'
<1> SUFFICES ASSUME NEW s \in Servers PROVE Stage(search[s])'
  BY DEF Staged
<1> DEFINE x == search[s]
           y == search'[s]
           p == Adapted(x.seen.profile)
<1>1. UNCHANGED <<domain, backend>> /\ Stage(x)
  BY SearchStep DEF Staged
<1>2. Stage(y) => Stage(search[s])'
  BY <1>1 DEF Stage, Adapted, NormaliseWeight, Item
<1>3. CASE y = x
  BY <1>1, <1>2, <1>3
<1>4. CASE y = Idle \/ Failed(y)
  BY <1>2, <1>4 DEF Stage, Idle, Failed
<1>5. CASE \E r \in Requests : \E since : ValidType(r) /\ y = Looking(r, since)
  <2>1. \A r \in Requests : ValidType(r) => Type(r) \in SearchTypes
    BY SearchConstants DEF ValidType, Type, SearchTypes
  <2> QED BY <1>2, <1>5, <2>1 DEF Stage, Looking
<1>6. CASE x.pc = "lookup" /\ \E since : y = Looking(x.req, since)
  BY <1>1, <1>2, <1>6 DEF Stage, Looking
<1>7. CASE x.pc = "lookup" /\ \E b \in Bindings : y = Found(s, b)
  BY <1>1, <1>2, <1>7, FoundStage
<1>8. ASSUME x.pc = "embed", NEW v \in {x.seen.model, Zero},
             y = Prepared("compile", x.req, x.seen, x.weight, v)
      PROVE  Stage(y)
  <2>1. v # None
    BY <1>1, <1>8, SearchConstants DEF Stage
  <2>2. y.pc = "compile" /\ y.req = x.req /\ y.seen = x.seen /\ y.weight = x.weight /\ y.vector = v
    BY <1>8 DEF Prepared
  <2> HIDE DEF y
  <2> QED BY <1>1, <1>8, <2>1, <2>2 DEF Stage
<1>9. CASE x.pc = "compile" /\ Compiles(Type(x.req), p, x.vector) /\ y = Sent(x, p)
  <2>1. /\ y.pc = "query" /\ y.req = x.req /\ y.seen = x.seen
        /\ y.fields = Get(p, "response_fields", <<>>)
        /\ y.dsl = PrepareSearchDsl(backend,
                     Compile(Type(x.req), p, NormaliseTopK(x.req), x.vector, x.weight))
    BY <1>9 DEF Sent
  <2> HIDE DEF y
  <2> QED BY <1>1, <1>2, <1>9, <2>1 DEF Stage, y
<1>10. CASE /\ x.pc = "compile" /\ ~Compiles(Type(x.req), p, x.vector)
            /\ y = Ended(x, "422", NoItem)
  BY <1>1, <1>2, <1>10 DEF Stage, Ended
<1>11. CASE x.pc = "query" /\ \E h \in Hits : y = Ended(x, "200", Item(h, x.fields))
  BY <1>1, <1>2, <1>11 DEF Stage, Ended
<1> QED BY <1>2, <1>3, <1>4, <1>5, <1>6, <1>7, <1>8, <1>9, <1>10, <1>11, SearchStep

LEMMA AlwaysStaged == Spec => []Staged
<1>1. Init => Staged
  BY DEF Init, Staged, Stage, Idle
<1> QED BY InitInv, StepInv, StagedStep, <1>1, PTL DEF Spec

(* Whatever profile a binding holds, the query is in the language of the   *)
(* backend.                                                                *)
THEOREM QueriesFit == Spec => []QueryFits
<1>1. Staged => QueryFits
  BY PreparedFits DEF Staged, Stage, QueryFits
<1> QED BY AlwaysStaged, <1>1, PTL

-----------------------------------------------------------------------------
(* Result items: what the two mappers make of a hit.                       *)

Paths == Seq(STRING) \ {<<>>}

AsListed(item, fields, score, scoreToo) ==
  LET listed == {fields[i] : i \in DOMAIN fields}
      paths  == {Leaf(f) : f \in {g \in listed : Len(g) > 1}}
  IN \A k \in DOMAIN item \ paths :
       /\ k \notin ExcludedFields
       /\ k = "score" => item[k] = score
       /\ fields # <<>> => <<k>> \in listed \/ (k = "score" /\ scoreToo)

LEMMA ShortPath ==
  ASSUME NEW f \in Paths, ~(Len(f) > 1)
  PROVE  f = <<Leaf(f)>>
<1>1. f \in Seq(STRING) /\ f # <<>> /\ Len(f) \in Nat
  BY DEF Paths
<1>2. Len(f) = 1
  <2>1. Len(f) # 0
    BY <1>1
  <2>2. \A n \in Nat : n # 0 /\ ~(n > 1) => n = 1
    OBVIOUS
  <2> QED BY <1>1, <2>1, <2>2
<1>3. f = <<f[1]>>
  BY <1>1, <1>2
<1> QED BY <1>2, <1>3 DEF Leaf

LEMMA MappedAsListed ==
  ASSUME NEW source, DOMAIN source \subseteq Paths, NEW score, NEW fields
  PROVE  AsListed(MapHits(source, score, fields), fields, score, FALSE)
<1> DEFINE listed == {i \in DOMAIN fields :
                        /\ fields[i] \in DOMAIN source
                        /\ fields[i] # Score
                        /\ fields[i] \notin {<<x>> : x \in ExcludedFields}}
           shown == IF fields = <<>> THEN TopLevel(source) \ ExcludedFields
                                     ELSE {Leaf(fields[i]) : i \in listed}
           scored == IF fields = <<>> \/ Score \in {fields[i] : i \in DOMAIN fields}
                     THEN {"score"} ELSE {}
           names == {fields[i] : i \in DOMAIN fields}
           paths == {Leaf(f) : f \in {g \in names : Len(g) > 1}}
           item == MapHits(source, score, fields)
<1>1. DOMAIN item = shown \cup scored
  BY DEF MapHits
<1>2. \A k \in scored : item[k] = score
  BY DEF MapHits
<1>3. "score" \notin ExcludedFields
  BY DEF ExcludedFields
<1> SUFFICES ASSUME NEW k \in DOMAIN item, k \notin paths
             PROVE  /\ k \notin ExcludedFields
                    /\ k = "score" => item[k] = score
                    /\ fields # <<>> => <<k>> \in names
  BY DEF AsListed
<1>4. CASE k \in scored
  <2>1. k = "score"
    BY <1>4
  <2>2. fields # <<>> => <<k>> \in names
    BY <1>4, <2>1 DEF Score
  <2> QED BY <1>2, <1>3, <1>4, <2>1, <2>2
<1>5. CASE fields = <<>>
  BY <1>1, <1>2, <1>3, <1>5
<1>6. CASE k \notin scored /\ fields # <<>>
  <2>1. PICK i \in listed : k = Leaf(fields[i])
    BY <1>1, <1>6
  <2>2. fields[i] \in names /\ ~(Len(fields[i]) > 1)
    BY <2>1
  <2>3. fields[i] = <<k>>
    BY <2>1, <2>2, ShortPath
  <2>4. k # "score"
    BY <2>1, <2>3 DEF Score
  <2>5. k \notin ExcludedFields
    BY <2>1, <2>3
  <2> QED BY <2>2, <2>3, <2>4, <2>5
<1> QED BY <1>4, <1>5, <1>6

LEMMA KbMappedAsListed ==
  ASSUME NEW source, NEW score, NEW fields
  PROVE  AsListed(KbMapHits(source, score, fields), fields, score, TRUE)
<1> DEFINE item == KbMapHits(source, score, fields)
           names == {fields[i] : i \in DOMAIN fields}
           top == TopLevel(source) \ ExcludedFields
           shown == IF fields = <<>> THEN top ELSE {k \in top : <<k>> \in names}
<1>1. DOMAIN item = shown \cup {"score"} /\ item["score"] = score
  BY DEF KbMapHits
<1>2. "score" \notin ExcludedFields
  BY DEF ExcludedFields
<1>3. ASSUME NEW k \in DOMAIN item
      PROVE  /\ k \notin ExcludedFields
             /\ k = "score" => item[k] = score
             /\ fields # <<>> => <<k>> \in names \/ k = "score"
  BY <1>1, <1>2
<1> HIDE DEF item
<1> QED BY <1>3 DEF AsListed, item

(* A result item holds only what the profile lists (everything, if it      *)
(* lists nothing), never the chunk_id or took_ms of the document           *)
(* (hit_mapper.py:31-33), and as its score the relevance of the hit.  The  *)
(* exception are paths that end in one of these names.                     *)
ItemAsListed ==
  \A s \in Servers : search[s].pc = "answered" /\ search[s].status = "200" =>
    LET item   == search[s].item
        fields == Get(Adapted(search[s].seen.profile), "response_fields", <<>>)
        listed == {fields[i] : i \in DOMAIN fields}
        paths  == {Leaf(f) : f \in {g \in listed : Len(g) > 1}}
    IN \A k \in DOMAIN item \ paths :
         /\ k \notin ExcludedFields
         /\ k = "score" => item[k] = "relevance"
         /\ fields # <<>> => <<k>> \in listed \/ (k = "score" /\ domain = "KNOWLEDGE_BASE")

(* A result item shows what the profile lists, and the relevance.          *)
THEOREM ItemsAsListed == Spec => []ItemAsListed
<1>1. ASSUME Staged PROVE ItemAsListed
  <2> SUFFICES ASSUME NEW s \in Servers, search[s].pc = "answered", search[s].status = "200"
               PROVE  AsListed(search[s].item,
                               Get(Adapted(search[s].seen.profile), "response_fields", <<>>),
                               "relevance", domain = "KNOWLEDGE_BASE")
    BY DEF ItemAsListed, AsListed
  <2> DEFINE fields == Get(Adapted(search[s].seen.profile), "response_fields", <<>>)
  <2>1. PICK h \in Hits : search[s].item = Item(h, fields)
    BY <1>1 DEF Staged, Stage
  <2> HIDE DEF fields
  <2>2. CASE domain = "KNOWLEDGE_BASE"
    <3>1. AsListed(search[s].item, fields, "relevance", TRUE)
      BY <2>1, <2>2, KbMappedAsListed DEF Item
    <3> QED BY <2>2, <3>1 DEF AsListed, fields
  <2>3. CASE domain # "KNOWLEDGE_BASE"
    <3>1. DOMAIN h \subseteq Paths
      BY SearchConstants DEF Paths
    <3>2. AsListed(search[s].item, fields, "relevance", FALSE)
      BY <2>1, <2>3, <3>1, MappedAsListed DEF Item
    <3> QED BY <2>3, <3>2 DEF AsListed, fields
  <2> QED BY <2>2, <2>3
<1> QED BY AlwaysStaged, <1>1, PTL

-----------------------------------------------------------------------------
(* The weight of hybrid search.                                            *)

(* The writers leave the weights of the arms as they were compiled.        *)
LEMMA PreparedWeights ==
  ASSUME NEW dsl, DOMAIN dsl = {"size", "arms", "source"},
         NEW i \in DOMAIN dsl.arms
  PROVE  PrepareSearchDsl(backend, dsl).arms[i].weight = dsl.arms[i].weight
<1> DEFINE arms == dsl.arms
<1>1. StripNumCandidates(arms)[i].weight = arms[i].weight
  BY DEF StripNumCandidates, OverKnn
<1>2. RewriteKnnClauses(arms)[i].weight = arms[i].weight
  BY DEF RewriteKnnClauses, OverKnn
<1>3. PrepareSearchDsl(backend, dsl).arms
        \in {arms, StripNumCandidates(arms), RewriteKnnClauses(arms)}
  BY DEF PrepareSearchDsl
<1> QED BY <1>1, <1>2, <1>3

LEMMA CompiledWeights ==
  ASSUME NEW p, NEW k, NEW v, NEW w
  PROVE  LET arms == PrepareSearchDsl(backend, Compile("hybrid", p, k, v, w)).arms
             u == IF w # None THEN w
                  ELSE Get(Section("hybrid", p), "default_vector_weight", 60)
         IN arms[1].weight = One - u /\ arms[2].weight = u
<1> DEFINE dsl == Compile("hybrid", p, k, v, w)
           s == Section("hybrid", p)
           u == IF w # None THEN w ELSE Get(s, "default_vector_weight", 60)
<1>1. DOMAIN dsl = {"size", "arms", "source"} /\ dsl.arms = Hybrid(s, k, v, w)
  BY DEF Compile, Arms
<1>2. Hybrid(s, k, v, w) = <<[weight |-> One - u, clause |-> TextArm(s)],
                             [weight |-> u, clause |-> Knn(s, k, v)]>>
  BY DEF Hybrid
<1> HIDE DEF dsl, u
<1>3. 1 \in DOMAIN dsl.arms /\ 2 \in DOMAIN dsl.arms
  BY <1>1, <1>2
<1>4. dsl.arms[1].weight = One - u /\ dsl.arms[2].weight = u
  BY <1>1, <1>2
<1> QED BY <1>1, <1>3, <1>4, PreparedWeights DEF dsl, u

(* A profile whose sections are not told apart is no profile of a skill:   *)
(* the adaptation has given it a title section.                            *)
LEMMA FlatSkillFails ==
  ASSUME NEW p, "search_type_profile" \notin DOMAIN p, "hybrid" \notin DOMAIN p, NEW v
  PROVE  ~Compiles("hybrid", AdaptSkillProfile(p), v)
<1> DEFINE q == AdaptSkillProfile(p)
<1>1. DOMAIN q = {"title"} \cup (DOMAIN p \cap {"keyword", "text", "vector", "hybrid",
                                              "response_fields"})
  BY DEF AdaptSkillProfile
<1> HIDE DEF q
<1>2. Form("hybrid", q) = "flat"
  BY <1>1 DEF Form
<1>3. Section("hybrid", q) = q
  BY <1>2 DEF Section
<1>4. "title" \notin TypeProfileKeys["hybrid"] \cup {"tag", "response_fields"}
  BY DEF TypeProfileKeys
<1> QED BY <1>1, <1>2, <1>3, <1>4 DEF Compiles, Extracts, ValidTypeProfile, q

LEMMA AdaptedHybrid ==
  ASSUME NEW p, "search_type_profile" \notin DOMAIN p, "hybrid" \in DOMAIN p,
         "default_vector_weight" \in DOMAIN p.hybrid
  PROVE  LET s == Section("hybrid", AdaptSkillProfile(p))
             w == p.hybrid["default_vector_weight"]
         IN w # 0 => Get(s, "default_vector_weight", 60) = w
<1> DEFINE q == AdaptSkillProfile(p)
           w == p.hybrid["default_vector_weight"]
<1>1. "hybrid" \in DOMAIN q /\ "search_type_profile" \notin DOMAIN q /\ q["hybrid"] = AdaptHybrid(p)
  BY DEF AdaptSkillProfile
<1> HIDE DEF q
<1>2. Section("hybrid", q) = AdaptHybrid(p)
  BY <1>1 DEF Section, Form
<1>3. ASSUME w # 0
      PROVE  /\ "default_vector_weight" \in DOMAIN AdaptHybrid(p)
             /\ AdaptHybrid(p)["default_vector_weight"] = w
  BY <1>3 DEF AdaptHybrid
<1> QED BY <1>2, <1>3 DEF Get, q

(* The weight the service reads, or the one the compiler falls back to, is *)
(* the one the profile declares for its hybrid section.                    *)
LEMMA ReadWeight ==
  ASSUME NEW p, NEW w \in Declared(p), NEW r, NEW v,
         Type(r) = "hybrid", r.weight = None,
         domain = "SKILL" \/ Form("hybrid", p) = "wrapped",
         Compiles("hybrid", Adapted(p), v)
  PROVE  LET n == NormaliseWeight(r, p) IN
         w = IF n # None THEN n
             ELSE Get(Section("hybrid", Adapted(p)), "default_vector_weight", 60)
<1> DEFINE hybrid == Section("hybrid", p)
           n == NormaliseWeight(r, p)
<1>1. "default_vector_weight" \in DOMAIN hybrid /\ w = hybrid["default_vector_weight"]
  BY DEF Declared
<1>2. None # 0
  BY SearchConstants
<1>3. n = IF domain = "SKILL" THEN SkillWeight(p) ELSE OtherWeight(p)
  BY DEF NormaliseWeight, VectorTypes
<1>4. CASE "search_type_profile" \in DOMAIN p
  <2>1. Adapted(p) = p /\ Form("hybrid", p) = "wrapped"
    BY <1>4 DEF Adapted, AdaptSkillProfile, Form
  <2>2. hybrid = p.search_type_profile["hybrid"] /\ "hybrid" \in DOMAIN p.search_type_profile
    BY <2>1 DEF Section, Compiles, Extracts
  <2>3. SkillWeight(p) = w /\ OtherWeight(p) = w
    BY <1>1, <1>4, <2>2 DEF SkillWeight, OtherWeight, Get
  <2> HIDE DEF n
  <2> QED BY <1>1, <1>3, <2>1, <2>3 DEF Get, n
<1>5. CASE "search_type_profile" \notin DOMAIN p
  <2>1. domain = "SKILL" /\ Adapted(p) = AdaptSkillProfile(p)
    BY <1>5 DEF Form, Adapted
  <2>2. "hybrid" \in DOMAIN p
    BY <1>5, <2>1, FlatSkillFails
  <2>3. hybrid = p["hybrid"]
    BY <1>5, <2>2 DEF Section, Form
  <2>4. SkillWeight(p) = w
    BY <1>1, <1>5, <2>2, <2>3 DEF SkillWeight, Get
  <2>5. w = None => Get(Section("hybrid", AdaptSkillProfile(p)), "default_vector_weight", 60) = w
    BY <1>1, <1>2, <1>5, <2>2, <2>3, AdaptedHybrid
  <2> HIDE DEF n
  <2> QED BY <1>3, <2>1, <2>4, <2>5 DEF n
<1> QED BY <1>4, <1>5

(* A hybrid query weighs its arms as the profile declares, if the request  *)
(* does not say: for every profile there can be, in any of the forms.      *)
THEOREM DeclaredWeights == Spec => []WeightDeclared
<1>1. ASSUME Staged PROVE WeightDeclared
  <2> SUFFICES ASSUME NEW s \in Servers, search[s].pc = "query",
                      Type(search[s].req) = "hybrid", search[s].req.weight = None,
                      domain = "SKILL" \/ Form("hybrid", search[s].seen.profile) = "wrapped",
                      NEW w \in Declared(search[s].seen.profile)
               PROVE  /\ search[s].dsl.arms[1].weight = One - w
                      /\ search[s].dsl.arms[2].weight = w
    BY DEF WeightDeclared
  <2> DEFINE r == search[s].req
             p == search[s].seen.profile
             n == NormaliseWeight(r, p)
             k == NormaliseTopK(r)
  <2>1. PICK v : /\ Compiles("hybrid", Adapted(p), v)
                 /\ search[s].dsl = PrepareSearchDsl(backend,
                                      Compile("hybrid", Adapted(p), k, v, n))
    BY <1>1 DEF Staged, Stage
  <2>2. w = IF n # None THEN n
            ELSE Get(Section("hybrid", Adapted(p)), "default_vector_weight", 60)
    BY <2>1, ReadWeight
  <2> HIDE DEF n, k
  <2> QED BY <2>1, <2>2, CompiledWeights
<1> QED BY AlwaysStaged, <1>1, PTL

-----------------------------------------------------------------------------
(* What the pre-registered parsers declare compiles.                       *)

SectionCompiles(type, s, vector) ==
  /\ Get(s, "enabled", TRUE)
  /\ ValidTypeProfile(type, s, {})
  /\ Needs(type, s, vector)

LEMMA WrappedCompiles ==
  ASSUME NEW p, NEW type \in SearchTypes, NEW v,
         "search_type_profile" \in DOMAIN p, DOMAIN p \subseteq TopLevelKeys("wrapped"),
         DOMAIN p.search_type_profile = SearchTypes,
         SectionCompiles(type, p.search_type_profile[type], v)
  PROVE  Compiles(type, p, v)
<1>1. Form(type, p) = "wrapped"
  BY DEF Form
<1>2. Section(type, p) = p.search_type_profile[type]
  BY <1>1 DEF Section
<1> QED BY <1>1, <1>2 DEF Compiles, Extracts, SectionCompiles

LEMMA GroupedCompiles ==
  ASSUME NEW p, NEW type \in SearchTypes, NEW v,
         "search_type_profile" \notin DOMAIN p, DOMAIN p \subseteq TopLevelKeys("grouped"),
         type \in DOMAIN p, SectionCompiles(type, p[type], v)
  PROVE  Compiles(type, p, v)
<1>1. Form(type, p) = "grouped"
  BY DEF Form
<1>2. Section(type, p) = p[type]
  BY <1>1 DEF Section
<1> QED BY <1>1, <1>2 DEF Compiles, Extracts, SectionCompiles

FieldList == [keyword |-> "term_fields", title |-> "match_fields", text |-> "fields"]

LEMMA ListCompiles ==
  ASSUME NEW type \in {"keyword", "title", "text"}, NEW s, NEW v,
         DOMAIN s \subseteq {"enabled", FieldList[type]}
           \cup (IF type = "text" THEN {"multi_match_type"} ELSE {}),
         FieldList[type] \in DOMAIN s, ValidEntries(s[FieldList[type]]),
         s[FieldList[type]] # <<>>, Get(s, "enabled", TRUE)
  PROVE  SectionCompiles(type, s, v)
<1>1. /\ FieldList["keyword"] = "term_fields" /\ FieldList["title"] = "match_fields"
      /\ FieldList["text"] = "fields"
  BY DEF FieldList
<1>2. /\ TypeProfileKeys["keyword"] = {"enabled", "term_fields"}
      /\ TypeProfileKeys["title"] = {"enabled", "match_fields"}
      /\ TypeProfileKeys["text"] = {"enabled", "fields", "multi_match_type"}
  BY DEF TypeProfileKeys
<1>3. \A l \in DOMAIN s \cap {"term_fields", "match_fields", "fields"} : l = FieldList[type]
  BY <1>1
<1>4. DOMAIN s \subseteq TypeProfileKeys[type] /\ "num_candidates" \notin DOMAIN s
  BY <1>1, <1>2
<1>5. ValidTypeProfile(type, s, {})
  BY <1>3, <1>4 DEF ValidTypeProfile
<1>6. Needs(type, s, v)
  BY <1>1 DEF Needs, Get, VectorTypes
<1> QED BY <1>5, <1>6 DEF SectionCompiles

LEMMA VectorCompiles ==
  ASSUME NEW type \in VectorTypes, NEW s, NEW v, v # None,
         DOMAIN s \subseteq {"enabled", "vector_field", "num_candidates"}
           \cup (IF type = "hybrid" THEN {"default_vector_weight"} ELSE {}),
         "vector_field" \in DOMAIN s,
         "num_candidates" \in DOMAIN s => s.num_candidates > 0, Get(s, "enabled", TRUE)
  PROVE  SectionCompiles(type, s, v)
<1>1. /\ TypeProfileKeys["vector"] = {"enabled", "vector_field", "num_candidates"}
      /\ {"enabled", "default_vector_weight", "vector_field", "num_candidates"}
           \subseteq TypeProfileKeys["hybrid"]
  BY DEF TypeProfileKeys
<1>2. DOMAIN s \subseteq TypeProfileKeys[type]
  BY <1>1 DEF VectorTypes
<1>3. DOMAIN s \cap {"term_fields", "match_fields", "fields"} = {}
  OBVIOUS
<1>4. ValidTypeProfile(type, s, {})
  BY <1>2, <1>3 DEF ValidTypeProfile
<1>5. Needs(type, s, v)
  BY DEF Needs, VectorTypes
<1> QED BY <1>4, <1>5 DEF SectionCompiles

LEMMA MemorySearchable ==
  ASSUME NEW type \in SearchTypes \ {"hybrid"}, NEW v, type \in VectorTypes => v # None
  PROVE  Compiles(type, ForBinding(MemoryProfile), v)
<1> DEFINE m == MemoryProfile
           sections == m.search_type_profile
           stored == ForBinding(m).search_type_profile
<1>1. /\ DOMAIN m = {"tag", "search_type_profile", "response_fields"}
      /\ DOMAIN sections = SearchTypes
  BY DEF MemoryProfile, SearchTypes
<1>2. /\ sections["keyword"] =
            [enabled |-> TRUE,
             term_fields |-> <<Dict("memory_id.keyword", 50), Dict("task_ids.keyword", 20)>>]
      /\ sections["title"] = [enabled |-> TRUE, match_fields |-> <<Dict("title", 30)>>]
      /\ sections["text"] = [enabled |-> TRUE, multi_match_type |-> "most_fields",
                             fields |-> <<Dict("title", 30), Dict("content", 20)>>]
      /\ sections["vector"] =
            [enabled |-> TRUE, vector_field |-> "content_vector",
             source_template |-> "title, abstract, overview", num_candidates |-> 100]
  BY DEF MemoryProfile
<1> HIDE DEF m, sections
<1>3. /\ DOMAIN ForBinding(m) = DOMAIN m
      /\ stored = [sections EXCEPT !["vector"] = Without(@, {"source_template"})]
  <2> DEFINE q == Without(m, {"source_template"})
  <2>1. DOMAIN q = DOMAIN m /\ q.search_type_profile = sections /\ "vector" \in DOMAIN sections
    BY <1>1 DEF Without, sections, SearchTypes
  <2> HIDE DEF q
  <2>2. ForBinding(m) = [q EXCEPT !.search_type_profile.vector = Without(@, {"source_template"})]
    BY <1>1, <2>1 DEF ForBinding, q
  <2> QED BY <1>1, <2>1, <2>2
<1>4. /\ DOMAIN stored = SearchTypes
      /\ \A k \in SearchTypes \ {"vector"} : stored[k] = sections[k]
      /\ stored["vector"] = Without(sections["vector"], {"source_template"})
  BY <1>1, <1>3 DEF SearchTypes
<1> HIDE DEF stored
<1>5. \A x, y : ValidEntries(<<Dict(x, y)>>)
  BY DEF ValidEntries, Dict
<1>6. \A x, y, w, z : ValidEntries(<<Dict(x, y), Dict(w, z)>>)
  BY DEF ValidEntries, Dict
<1>7. SectionCompiles(type, stored[type], v)
  <2>1. CASE type = "keyword"
    BY <1>2, <1>4, <1>6, <2>1, ListCompiles DEF FieldList, Get, SearchTypes
  <2>2. CASE type = "title"
    BY <1>2, <1>4, <1>5, <2>2, ListCompiles DEF FieldList, Get, SearchTypes
  <2>3. CASE type = "text"
    BY <1>2, <1>4, <1>6, <2>3, ListCompiles DEF FieldList, Get, SearchTypes
  <2>4. CASE type = "vector"
    <3> DEFINE s == stored["vector"]
    <3>1. /\ DOMAIN s = {"enabled", "vector_field", "num_candidates"}
          /\ s.num_candidates = 100 /\ s.enabled = TRUE
      <4> DEFINE r == [enabled |-> TRUE, vector_field |-> "content_vector",
                       source_template |-> "title, abstract, overview", num_candidates |-> 100]
      <4>1. s = Without(r, {"source_template"})
        BY <1>2, <1>4
      <4>2. /\ DOMAIN r = {"enabled", "vector_field", "source_template", "num_candidates"}
            /\ r.num_candidates = 100 /\ r.enabled = TRUE
        OBVIOUS
      <4> HIDE DEF r
      <4> QED BY <4>1, <4>2 DEF Without
    <3>2. Get(s, "enabled", TRUE)
      BY <3>1 DEF Get
    <3>3. "vector" \in VectorTypes /\ v # None
      BY <2>4 DEF VectorTypes
    <3> HIDE DEF s
    <3>4. SectionCompiles("vector", s, v)
      <4>1. "num_candidates" \in DOMAIN s => s.num_candidates > 0
        BY <3>1
      <4>2. /\ DOMAIN s \subseteq {"enabled", "vector_field", "num_candidates"}
                 \cup (IF "vector" = "hybrid" THEN {"default_vector_weight"} ELSE {})
            /\ "vector_field" \in DOMAIN s
        BY <3>1
      <4> QED BY <3>2, <3>3, <4>1, <4>2, VectorCompiles
    <3> QED BY <2>4, <3>4 DEF s
  <2> QED BY <2>1, <2>2, <2>3, <2>4 DEF SearchTypes
<1> QED BY <1>1, <1>3, <1>4, <1>7, WrappedCompiles DEF TopLevelKeys, m, stored

LEMMA BoostsParse ==
  \A x, y, w, z :
    /\ LET one == <<Spec1(x, y)>> IN
       AllSpecs(one) /\ ValidEntries(ParseFieldBoosts(one)) /\ ParseFieldBoosts(one) # <<>>
    /\ LET two == <<Spec1(x, y), Spec1(w, z)>> IN
       AllSpecs(two) /\ ValidEntries(ParseFieldBoosts(two)) /\ ParseFieldBoosts(two) # <<>>
<1> SUFFICES ASSUME NEW x, NEW y, NEW w, NEW z,
                    NEW list \in {<<Spec1(x, y)>>, <<Spec1(x, y), Spec1(w, z)>>}
             PROVE  /\ AllSpecs(list) /\ ValidEntries(ParseFieldBoosts(list))
                    /\ ParseFieldBoosts(list) # <<>>
  OBVIOUS
<1>1. list # <<>> /\ 1 \in DOMAIN list
  OBVIOUS
<1>2. \A i \in DOMAIN list : list[i].form = "spec" /\ list[i].extra = FALSE
                             /\ DOMAIN list[i] = {"form", "field", "weight", "extra"}
  BY DEF Spec1
<1>3. DOMAIN ParseFieldBoosts(list) = DOMAIN list
  BY DEF ParseFieldBoosts
<1>4. \A i \in DOMAIN list : ParseFieldBoosts(list)[i].form = "dict"
                             /\ ParseFieldBoosts(list)[i].extra = FALSE
  BY <1>2 DEF ParseFieldBoosts
<1>5. ParseFieldBoosts(list) # <<>>
  <2>1. DOMAIN <<>> = {}
    OBVIOUS
  <2> QED BY <1>1, <1>3, <2>1
<1> QED BY <1>1, <1>2, <1>3, <1>4, <1>5 DEF AllSpecs, ValidEntries

LEMMA SkillSearchable ==
  ASSUME NEW type \in SearchTypes, NEW v, type \in VectorTypes => v # None
  PROVE  Compiles(type, AdaptSkillProfile(SkillProfile), v)
<1> DEFINE p == SkillProfile
           q == AdaptSkillProfile(p)
<1>1. /\ DOMAIN p = {"keyword", "title", "text", "vector", "hybrid", "response_fields"}
      /\ p["keyword"] = [fields |-> <<Spec1("name.keyword", 50)>>]
      /\ p["title"] = [fields |-> <<Spec1("name", 30)>>]
      /\ p["text"] = [fields |-> <<Spec1("name", 40), Spec1("content", 10)>>]
      /\ p["vector"] = [vector_field |-> "content_vector",
                        source_template |-> "name, description, body", num_candidates |-> 100]
      /\ p["hybrid"] = [default_vector_weight |-> 50]
  BY DEF SkillProfile
<1> HIDE DEF p
<1>2. /\ DOMAIN q = DOMAIN p
      /\ q["keyword"] = AdaptKeyword(p["keyword"]) /\ q["title"] = AdaptTitle(p)
      /\ q["text"] = AdaptText(p["text"]) /\ q["vector"] = AdaptVector(p["vector"])
      /\ q["hybrid"] = AdaptHybrid(p)
  BY <1>1 DEF AdaptSkillProfile
<1> HIDE DEF q
<1>3. ASSUME type = "keyword" PROVE SectionCompiles(type, q[type], v)
  <2> DEFINE list == <<Spec1("name.keyword", 50)>>
  <2>1. AllSpecs(list) /\ ValidEntries(ParseFieldBoosts(list)) /\ ParseFieldBoosts(list) # <<>>
    BY BoostsParse
  <2> HIDE DEF list
  <2>2. q["keyword"] = [term_fields |-> ParseFieldBoosts(list)]
    <3>1. p["keyword"] = [fields |-> list]
      BY <1>1 DEF list
    <3>2. Get([fields |-> list], "fields", <<>>) = list
      BY DEF Get
    <3> QED BY <1>2, <2>1, <3>1, <3>2 DEF AdaptKeyword
  <2>3. SectionCompiles("keyword", q["keyword"], v)
    BY <2>1, <2>2, ListCompiles DEF FieldList, Get
  <2> QED BY <1>3, <2>3
<1>4. ASSUME type = "title" PROVE SectionCompiles(type, q[type], v)
  <2> DEFINE list == <<Spec1("name", 30)>>
  <2>1. AllSpecs(list) /\ ValidEntries(ParseFieldBoosts(list)) /\ ParseFieldBoosts(list) # <<>>
    BY BoostsParse
  <2> HIDE DEF list
  <2>2. q["title"] = [match_fields |-> ParseFieldBoosts(list)]
    <3>1. Get(p, "title", <<>>) = [fields |-> list]
      BY <1>1 DEF Get, list
    <3>2. Get([fields |-> list], "fields", <<>>) = list
      BY DEF Get
    <3> QED BY <1>2, <2>1, <3>1, <3>2 DEF AdaptTitle
  <2>3. SectionCompiles("title", q["title"], v)
    BY <2>1, <2>2, ListCompiles DEF FieldList, Get
  <2> QED BY <1>4, <2>3
<1>5. ASSUME type = "text" PROVE SectionCompiles(type, q[type], v)
  <2> DEFINE list == <<Spec1("name", 40), Spec1("content", 10)>>
  <2>1. AllSpecs(list) /\ ValidEntries(ParseFieldBoosts(list)) /\ ParseFieldBoosts(list) # <<>>
    BY BoostsParse
  <2> HIDE DEF list
  <2>2. /\ DOMAIN q["text"] = {"fields"} /\ q["text"]["fields"] = ParseFieldBoosts(list)
    <3>1. p["text"] = [fields |-> list]
      BY <1>1 DEF list
    <3>2. Get([fields |-> list], "fields", <<>>) = list
      BY DEF Get
    <3> QED BY <1>2, <2>1, <3>1, <3>2 DEF AdaptText
  <2>3. SectionCompiles("text", q["text"], v)
    BY <2>1, <2>2, ListCompiles DEF FieldList, Get
  <2> QED BY <1>5, <2>3
<1>6. ASSUME type = "vector" PROVE SectionCompiles(type, q[type], v)
  <2> DEFINE s == q["vector"]
  <2>1. /\ DOMAIN s = {"vector_field", "num_candidates"} /\ s["num_candidates"] = 100
    <3> DEFINE r == p["vector"]
    <3>1. DOMAIN r = {"vector_field", "source_template", "num_candidates"} /\ r["num_candidates"] = 100
      <4> DEFINE declared == [vector_field |-> "content_vector",
                              source_template |-> "name, description, body",
                              num_candidates |-> 100]
      <4>1. /\ DOMAIN declared = {"vector_field", "source_template", "num_candidates"}
            /\ declared["num_candidates"] = 100
        OBVIOUS
      <4>2. r = declared
        BY <1>1
      <4> HIDE DEF r, declared
      <4> QED BY <4>1, <4>2
    <3> HIDE DEF r
    <3>2. s = AdaptVector(r)
      BY <1>2 DEF r
    <3> QED BY <3>1, <3>2 DEF AdaptVector
  <2>2. Get(s, "enabled", TRUE) /\ "vector" \in VectorTypes /\ v # None
    BY <1>6, <2>1 DEF Get, VectorTypes
  <2> HIDE DEF s
  <2>3. "num_candidates" \in DOMAIN s => s.num_candidates > 0
    BY <2>1
  <2>4. SectionCompiles("vector", s, v)
    BY <2>1, <2>2, <2>3, VectorCompiles
  <2> QED BY <1>6, <2>4 DEF s
<1>7. ASSUME type = "hybrid" PROVE SectionCompiles(type, q[type], v)
  <2> DEFINE s == q["hybrid"]
  <2>1. DOMAIN s = {"vector_field", "default_vector_weight"}
    <3>1. DOMAIN p["hybrid"] = {"default_vector_weight"} /\ p["hybrid"]["default_vector_weight"] # 0
      <4> DEFINE declared == [default_vector_weight |-> 50]
      <4>1. DOMAIN declared = {"default_vector_weight"} /\ declared["default_vector_weight"] # 0
        OBVIOUS
      <4>2. p["hybrid"] = declared
        BY <1>1
      <4> HIDE DEF declared
      <4> QED BY <4>1, <4>2
    <3> QED BY <1>2, <3>1 DEF AdaptHybrid
  <2>2. Get(s, "enabled", TRUE) /\ "hybrid" \in VectorTypes /\ v # None
    BY <1>7, <2>1 DEF Get, VectorTypes
  <2> HIDE DEF s
  <2>3. SectionCompiles("hybrid", s, v)
    BY <2>1, <2>2, VectorCompiles
  <2> QED BY <1>7, <2>3 DEF s
<1>8. SectionCompiles(type, q[type], v)
  BY <1>3, <1>4, <1>5, <1>6, <1>7 DEF SearchTypes
<1>9. /\ "search_type_profile" \notin DOMAIN q /\ type \in DOMAIN q
      /\ DOMAIN q \subseteq TopLevelKeys("grouped")
  <2>1. DOMAIN q = SearchTypes \cup {"response_fields"}
    BY <1>1, <1>2 DEF SearchTypes
  <2>2. TopLevelKeys("grouped") = SearchTypes \cup {"tag", "response_fields"}
    BY DEF TopLevelKeys
  <2> QED BY <2>1, <2>2 DEF SearchTypes
<1> QED BY <1>8, <1>9, GroupedCompiles DEF q, p

(* The profiles of the pre-registered parsers serve every search type,     *)
(* whatever was bound before and is bound meanwhile.                       *)
THEOREM UploadsSearchable == Spec => []UploadedSearchable
<1>1. ASSUME Staged PROVE UploadedSearchable
  <2> SUFFICES ASSUME NEW s \in Servers, search[s].pc = "answered", search[s].status = "422",
                      OfParser(search[s].seen), search[s].seen.model # None
               PROVE  domain = "MEMORY" /\ Type(search[s].req) = "hybrid"
    BY DEF UploadedSearchable
  <2> DEFINE type == Type(search[s].req)
             p == search[s].seen.profile
  <2>1. PICK v : /\ type \in VectorTypes => v # None
                 /\ type \in SearchTypes /\ ~Compiles(type, Adapted(p), v)
    BY <1>1 DEF Staged, Stage
  <2> HIDE DEF type
  <2>2. CASE domain = "MEMORY"
    <3>1. p = ForBinding(MemoryProfile) /\ Adapted(p) = p
      BY <2>2 DEF OfParser, ParserProfile, Stored, Adapted
    <3> QED BY <2>1, <2>2, <3>1, MemorySearchable DEF type
  <2>3. CASE domain = "SKILL"
    <3>1. p = SkillProfile /\ Adapted(p) = AdaptSkillProfile(SkillProfile)
      BY <2>3 DEF OfParser, ParserProfile, Stored, Adapted
    <3> QED BY <2>1, <3>1, SkillSearchable
  <2> QED BY <2>2, <2>3 DEF OfParser, ParserProfile
<1> QED BY AlwaysStaged, <1>1, PTL

-----------------------------------------------------------------------------
(* A profile with sections for search types, in the canonical wrapped form *)
(* and with the sections at the top level ("flat (legacy) form", the       *)
(* compiler's docstring), compiles to the same queries.                    *)
Wrap(sections, fields) ==
  [search_type_profile |-> sections, response_fields |-> fields]
Group(sections, fields) ==
  [k \in DOMAIN sections \cup {"response_fields"} |->
     IF k = "response_fields" THEN fields ELSE sections[k]]

THEOREM FormsAgree ==
  ASSUME NEW sections, NEW fields, DOMAIN sections \subseteq SearchTypes,
         NEW type \in DOMAIN sections, NEW k, NEW v, NEW w
  PROVE  LET p == Wrap(sections, fields)
             q == Group(sections, fields)
         IN /\ Compiles(type, p, v) <=> Compiles(type, q, v)
            /\ Compile(type, p, k, v, w) = Compile(type, q, k, v, w)
<1> DEFINE p == Wrap(sections, fields)
           q == Group(sections, fields)
<1>1. type # "response_fields" /\ "search_type_profile" \notin DOMAIN q /\ type \in DOMAIN q
  BY DEF Group, SearchTypes
<1>2. Form(type, p) = "wrapped" /\ Form(type, q) = "grouped"
  BY <1>1 DEF Form, Wrap
<1>3. Section(type, p) = sections[type] /\ Section(type, q) = sections[type]
  BY <1>1, <1>2 DEF Section, Wrap, Group
<1>4. Get(p, "response_fields", <<>>) = fields /\ Get(q, "response_fields", <<>>) = fields
  BY DEF Get, Wrap, Group
<1>5. /\ DOMAIN p \subseteq TopLevelKeys("wrapped")
      /\ DOMAIN q \subseteq TopLevelKeys("grouped")
      /\ p.search_type_profile = sections
  BY DEF Wrap, Group, TopLevelKeys
<1>6. Extracts(type, p) <=> Extracts(type, q)
  BY <1>2, <1>3, <1>5 DEF Extracts
<1> QED BY <1>3, <1>4, <1>6 DEF Compiles, Compile, ExtractResponseFields
=============================================================================
