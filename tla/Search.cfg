SPECIFICATION Spec
CONSTANTS
  None = None
  Zero = Zero
  k1 = k1
  k2 = k2
  m1 = m1
  m2 = m2
  Servers = {s1}
  Domains = {"MEMORY", "SKILL", "KNOWLEDGE_BASE"}
  Backends = {"opensearch", "elasticsearch", "postgresql"}
  Kbs = {k1, k2}
  Models = {m1, m2}
  Profiles <- MCProfiles
  Requests <- MCRequests
  Hits <- MCHits
  Allowed = {"keyword", "title", "text", "vector", "hybrid"}
  DefaultTopK = 2
  MaxTopK = 3
  MaxWrites = 2
INVARIANTS TypeOK UploadedSearchable QueryFits WeightDeclared
PROPERTIES ReadInForce
