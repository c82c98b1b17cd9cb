------------------------- MODULE SchemaCacheProofs -------------------------
(***************************************************************************)
(* How stale an answer of the schema cache can be, for any TTL, any fetch  *)
(* limit and any number of concurrent lookups.                             *)
(***************************************************************************)
EXTENDS SchemaCache, TLAPS

LEMMA InitCache == Init => CacheInv
BY CacheAssumption DEF Init, CacheInv, TypeOK, Version, Age, Old, Places

LEMMA ClockCache ==
  ASSUME CacheInv, Clock
  PROVE  CacheInv'
<1> USE CacheAssumption DEF Age, Old, Older
<1>1. TypeOK'
  BY DEF CacheInv, TypeOK, Clock, Waiting
<1>2. cached' # None => readAge' <= cachedAge' + FetchMax
  BY DEF CacheInv, TypeOK, Clock
<1>3. ASSUME NEW l \in Lookup, pc'[l] = "store"
      PROVE  gotAge'[l] <= spent'[l]
  BY <1>3 DEF CacheInv, TypeOK, Clock, Waiting
<1>4. ASSUME NEW l \in Lookup, pc'[l] = "served"
      PROVE  gotAge'[l] < TTL + FetchMax
  BY <1>4 DEF CacheInv, TypeOK, Clock
<1>5. ASSUME NEW l \in Lookup
      PROVE  /\ pc'[l] # "idle" => asked'[l] \in Tables
             /\ pc'[l] \in {"store", "served", "fetched"} =>
                  got'[l] \in Columns /\ got'[l].key = asked'[l]
             /\ pc'[l] \in {"failed", "model"} =>
                  \/ got'[l] = None
                  \/ got'[l] \in Columns /\ got'[l].key = asked'[l]
  BY DEF CacheInv, Clock, Columns, Version
<1> QED
  BY <1>1, <1>2, <1>3, <1>4, <1>5 DEF CacheInv, Columns, Version

LEMMA StepCache == CacheInv /\ [Next]_vars => CacheInv'
<1> SUFFICES ASSUME CacheInv, [Next]_vars PROVE CacheInv'
  OBVIOUS
<1> USE CacheAssumption, NoneColumns
<1>1. ASSUME NEW l \in Lookup, NEW k \in Tables, Hit(l, k) PROVE CacheInv'
  <2>1. /\ cached \in Columns /\ cached.key = k /\ cachedAge < TTL
        /\ readAge <= cachedAge + FetchMax
    BY <1>1 DEF Hit, Fresh, CacheInv, TypeOK
  <2>2. readAge < TTL + FetchMax
    BY <2>1 DEF CacheInv, TypeOK, Age, Old
  <2> QED
    BY <1>1, <2>1, <2>2 DEF Hit, CacheInv, TypeOK, Places, cacheVars
<1>2. ASSUME NEW l \in Lookup, NEW k \in Tables, Miss(l, k) PROVE CacheInv'
  BY <1>2 DEF Miss, CacheInv, TypeOK, Places, cacheVars
<1>3. ASSUME NEW l \in Lookup, Read(l) PROVE CacheInv'
  <2>1. asked[l] \in Tables /\ 0 \in Age /\ 0 <= spent[l]
    BY <1>3 DEF Read, CacheInv, TypeOK, Age, Old
  <2>2. [key |-> asked[l], version |-> schema] \in Columns
    BY <2>1 DEF CacheInv, TypeOK, Columns
  <2> QED
    BY <1>3, <2>1, <2>2 DEF Read, CacheInv, TypeOK, Places, cacheVars
<1>4. ASSUME NEW l \in Lookup, FetchFails(l) PROVE CacheInv'
  BY <1>4 DEF FetchFails, CacheInv, TypeOK, Places, cacheVars
<1>5. ASSUME NEW l \in Lookup, Store(l) PROVE CacheInv'
  <2>1. got[l] \in Columns /\ gotAge[l] <= spent[l] /\ spent[l] <= FetchMax
    BY <1>5 DEF Store, CacheInv, TypeOK
  <2>2. gotAge[l] <= FetchMax /\ 0 \in Age
    BY <2>1 DEF CacheInv, TypeOK, Age, Old
  <2> QED
    BY <1>5, <2>1, <2>2 DEF Store, CacheInv, TypeOK, Places, Age
<1>6. ASSUME NEW l \in Lookup, Suggest(l) PROVE CacheInv'
  BY <1>6 DEF Suggest, Goto, CacheInv, TypeOK, Places, cacheVars
<1>10. ASSUME NEW l \in Lookup, ModelReturns(l) PROVE CacheInv'
  BY <1>10 DEF ModelReturns, Forget, CacheInv, TypeOK, Places, cacheVars, Age, Old
<1>7. CASE Alter
  BY <1>7 DEF Alter, CacheInv, TypeOK, Version, cacheVars, lookupVars
<1>8. CASE Clock
  BY <1>8, ClockCache
<1>9. CASE UNCHANGED vars
  BY <1>9 DEF vars, CacheInv, TypeOK
<1> QED
  BY <1>1, <1>2, <1>3, <1>4, <1>5, <1>6, <1>7, <1>8, <1>9, <1>10
     DEF Next, Continue

THEOREM CacheInvariance == Spec => []CacheInv
<1> QED
  BY InitCache, StepCache, PTL DEF Spec

\* A hit is never staler than the TTL plus one fetch.
THEOREM BoundedStaleness == Spec => []ServedIsRecent
<1>1. CacheInv => ServedIsRecent
  BY DEF CacheInv, ServedIsRecent
<1> QED
  BY <1>1, CacheInvariance, PTL

\* A lookup is answered for the tables it asked for.
THEOREM RightTables == Spec => []AnswersItsQuestion
<1>1. CacheInv => AnswersItsQuestion
  BY NoneColumns DEF CacheInv, AnswersItsQuestion
<1> QED
  BY <1>1, CacheInvariance, PTL
=============================================================================
