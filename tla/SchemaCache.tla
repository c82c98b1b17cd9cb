---------------------------- MODULE SchemaCache ----------------------------
(***************************************************************************)
(* internal/engine SchemaCache and its only caller, the suggestion of      *)
(* internal/api SuggestSQL, which goes on to ask the model.  Lookups run   *)
(* concurrently: the mutex is held to look at the cache and to store in    *)
(* it, and not while the database is asked.                                *)
(*                                                                         *)
(* A schema is a version number that ALTERs by others raise.  Ages are in  *)
(* ticks and stop counting at a value past every comparison.  A lookup has *)
(* FetchMax ticks (schemaTimeout): when they are over, time waits for the  *)
(* driver to return, which it does as soon as its context is done.         *)
(***************************************************************************)
EXTENDS Integers

CONSTANTS
  Lookup,      \* the requests that can be in flight
  Tables,      \* the lists of tables that can be asked for
  TTL,         \* schemaTTL in ticks
  FetchMax,    \* schemaTimeout in ticks
  MaxVersion,  \* bound on the number of ALTERs
  None

ASSUME CacheAssumption ==
  /\ TTL \in Nat
  /\ FetchMax \in Nat
  /\ MaxVersion \in Nat
  /\ None \notin Tables

VARIABLES
  schema,      \* the version the database is at
  cached,      \* Cache.cached: key, version; None before the first store
  cachedAge,   \* now - cachedAt
  readAge,     \* history: how long ago the cached version was read
  pc,          \* where each lookup is
  asked,       \* the tables it asks for
  spent,       \* how long it has been in the lookup
  got,         \* what it brings back: key and version, or None
  gotAge       \* history: how long ago that was read

cacheVars  == <<cached, cachedAge, readAge>>
lookupVars == <<pc, asked, spent, got, gotAge>>
vars       == <<schema, cached, cachedAge, readAge, pc, asked, spent, got,
                gotAge>>

Version == 0..MaxVersion
Columns == [key : Tables, version : Version]
Old     == TTL + FetchMax + 1          \* where ages stop counting
Age     == 0..Old

ASSUME NoneColumns == None \notin Columns

Places == {"idle", "fetch", "store", "served", "fetched", "failed", "model"}

TypeOK ==
  /\ schema    \in Version
  /\ cached    \in Columns \cup {None}
  /\ cachedAge \in Age
  /\ readAge   \in Age
  /\ pc        \in [Lookup -> Places]
  /\ asked     \in [Lookup -> Tables \cup {None}]
  /\ spent     \in [Lookup -> 0..FetchMax]
  /\ got       \in [Lookup -> Columns \cup {None}]
  /\ gotAge    \in [Lookup -> Age]

Init ==
  /\ schema    = 0
  /\ cached    = None
  /\ cachedAge = 0
  /\ readAge   = 0
  /\ pc        = [l \in Lookup |-> "idle"]
  /\ asked     = [l \in Lookup |-> None]
  /\ spent     = [l \in Lookup |-> 0]
  /\ got       = [l \in Lookup |-> None]
  /\ gotAge    = [l \in Lookup |-> 0]

-----------------------------------------------------------------------------
\* Variants: one tick too long; whatever tables were asked for.
FreshOneMore(k) == cached # None /\ cached.key = k /\ cachedAge <= TTL
FreshAnyKey(k)  == cached # None /\ cachedAge < TTL

\* `fresh`, under the lock.
Fresh(k) == cached # None /\ cached.key = k /\ cachedAge < TTL

Hit(l, k) ==
  /\ pc[l] = "idle"
  /\ Fresh(k)
  /\ pc'     = [pc EXCEPT ![l] = "served"]
  /\ asked'  = [asked EXCEPT ![l] = k]
  /\ got'    = [got EXCEPT ![l] = cached]
  /\ gotAge' = [gotAge EXCEPT ![l] = readAge]
  /\ UNCHANGED <<schema, cacheVars, spent>>

Miss(l, k) ==
  /\ pc[l] = "idle"
  /\ ~Fresh(k)
  /\ pc'    = [pc EXCEPT ![l] = "fetch"]
  /\ asked' = [asked EXCEPT ![l] = k]
  /\ spent' = [spent EXCEPT ![l] = 0]
  /\ UNCHANGED <<schema, cacheVars, got, gotAge>>

\* The introspection query reads the schema as it is.
Read(l) ==
  /\ pc[l] = "fetch"
  /\ pc'     = [pc EXCEPT ![l] = "store"]
  /\ got'    = [got EXCEPT ![l] = [key |-> asked[l], version |-> schema]]
  /\ gotAge' = [gotAge EXCEPT ![l] = 0]
  /\ UNCHANGED <<schema, cacheVars, asked, spent>>

\* The query fails or its context is done, before or after the database has
\* read: nothing is stored.
FetchFails(l) ==
  /\ pc[l] \in {"fetch", "store"}
  /\ pc'  = [pc EXCEPT ![l] = "failed"]
  /\ got' = [got EXCEPT ![l] = None]
  /\ UNCHANGED <<schema, cacheVars, asked, spent, gotAge>>

\* The second critical section: the last one to get here wins.
Store(l) ==
  /\ pc[l] = "store"
  /\ pc'        = [pc EXCEPT ![l] = "fetched"]
  /\ cached'    = got[l]
  /\ cachedAge' = 0
  /\ readAge'   = gotAge[l]
  /\ UNCHANGED <<schema, asked, spent, got, gotAge>>

Goto(l, place) ==
  /\ pc' = [pc EXCEPT ![l] = place]
  /\ UNCHANGED <<schema, cacheVars, asked, spent, got, gotAge>>

\* SuggestSQL returns, with what the model said or with its error.
Forget(l) ==
  /\ pc'    = [pc EXCEPT ![l] = "idle"]
  /\ asked' = [asked EXCEPT ![l] = None]
  /\ spent' = [spent EXCEPT ![l] = 0]
  /\ got'   = [got EXCEPT ![l] = None]
  /\ gotAge' = [gotAge EXCEPT ![l] = 0]
  /\ UNCHANGED <<schema, cacheVars>>

\* Variant: the error of the schema is the suggestion's.
SuggestNeedsSchema(l) ==
  \/ pc[l] \in {"served", "fetched"} /\ Goto(l, "model")
  \/ pc[l] = "failed" /\ Forget(l)

\* schemaContext returns, nil after a failure, and the model is asked with
\* whatever there is.
Suggest(l) == pc[l] \in {"served", "fetched", "failed"} /\ Goto(l, "model")

ModelReturns(l) == pc[l] = "model" /\ Forget(l)

-----------------------------------------------------------------------------
Alter ==
  /\ schema < MaxVersion
  /\ schema' = schema + 1
  /\ UNCHANGED <<cacheVars, lookupVars>>

Older(a) == IF a < Old THEN a + 1 ELSE a
Waiting(l) == pc[l] \in {"fetch", "store"}

\* Variant: the query runs under the request's context alone.
ClockNoDeadline ==
  /\ cachedAge' = Older(cachedAge)
  /\ readAge'   = Older(readAge)
  /\ spent'  = [l \in Lookup |-> IF Waiting(l) THEN spent[l] + 1 ELSE spent[l]]
  /\ gotAge' = [l \in Lookup |->
                  IF pc[l] = "store" THEN Older(gotAge[l]) ELSE gotAge[l]]
  /\ UNCHANGED <<schema, cached, pc, asked, got>>

\* context.WithTimeout(ctx, schemaTimeout): no lookup waits longer.
Clock ==
  /\ \A l \in Lookup : Waiting(l) => spent[l] < FetchMax
  /\ cachedAge' = Older(cachedAge)
  /\ readAge'   = Older(readAge)
  /\ spent'  = [l \in Lookup |-> IF Waiting(l) THEN spent[l] + 1 ELSE spent[l]]
  /\ gotAge' = [l \in Lookup |->
                  IF pc[l] = "store" THEN Older(gotAge[l]) ELSE gotAge[l]]
  /\ UNCHANGED <<schema, cached, pc, asked, got>>

Continue(l) ==
  Read(l) \/ FetchFails(l) \/ Store(l) \/ Suggest(l) \/ ModelReturns(l)

Next ==
  \/ \E l \in Lookup, k \in Tables : Hit(l, k) \/ Miss(l, k)
  \/ \E l \in Lookup : Continue(l)
  \/ Alter
  \/ Clock

\* A query returns, and so does the model, if only because a context is done;
\* the goroutine goes on.
Spec == Init /\ [][Next]_vars /\ \A l \in Lookup : WF_vars(Continue(l))

-----------------------------------------------------------------------------
\* No answer out of the cache is staler than its TTL and the time a fetch may
\* take: cachedAt is stamped after the fetch, so the fetch comes on top.
ServedIsRecent ==
  \A l \in Lookup : pc[l] = "served" => gotAge[l] < TTL + FetchMax

\* A lookup gets the columns of the tables it asked for, also when lookups for
\* other tables store in between, and the model gets those or none.
AnswersItsQuestion ==
  \A l \in Lookup :
    /\ pc[l] \in {"served", "fetched"} => got[l] # None
    /\ pc[l] \in {"served", "fetched", "model"} /\ got[l] # None =>
         got[l].key = asked[l]

\* The model is asked in the end, although the schema may be missing: whether
\* the database answers, fails or is too slow, the suggestion is not refused for
\* it (ai.go:64, "la sugerencia debe poder generarse igual").
ModelIsAsked == \A l \in Lookup : Waiting(l) ~> pc[l] = "model"

-----------------------------------------------------------------------------
\* The cached version was read no more than one fetch before it was stored,
\* and a lookup carries the columns of its own tables.
CacheInv ==
  /\ TypeOK
  /\ cached # None => readAge <= cachedAge + FetchMax
  /\ \A l \in Lookup :
       /\ pc[l] # "idle" => asked[l] \in Tables
       /\ pc[l] \in {"store", "served", "fetched"} =>
            got[l] \in Columns /\ got[l].key = asked[l]
       /\ pc[l] \in {"failed", "model"} =>
            got[l] = None \/ (got[l] \in Columns /\ got[l].key = asked[l])
       /\ pc[l] = "store" => gotAge[l] <= spent[l]
       /\ pc[l] = "served" => gotAge[l] < TTL + FetchMax
=============================================================================
