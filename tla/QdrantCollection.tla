-------------------------- MODULE QdrantCollection --------------------------
(***************************************************************************)
(* QdrantVectorStore.upsert and ensure_collection: several ingestion       *)
(* workers meet in the one shared collection, with a step for every call   *)
(* to Qdrant.  A store is the one of a worker's current ingestion.         *)
(***************************************************************************)
EXTENDS Naturals

CONSTANT Writers  \* ingestion workers, each with a store of its own

VARIABLES
  collection,  \* "absent", or its HNSW settings: "old" or the "configured" ones
  indexed,     \* TRUE if repo_id has its tenant index
  call,        \* call[w]: the store's next call to Qdrant, "none" between upserts
  synced       \* synced[w]: the store's _hnsw_synced

collectionVars == <<collection, indexed, call, synced>>

\* The collection of an earlier release has its index and older settings.
CollectionInit ==
  /\ \/ collection = "absent" /\ indexed = FALSE
     \/ collection \in {"old", "configured"} /\ indexed = TRUE
  /\ call = [w \in Writers |-> "none"]
  /\ synced = [w \in Writers |-> FALSE]

Then(w, next) == call' = [call EXCEPT ![w] = next]

\* The store is done with ensure_collection.
Synced(w) == synced' = [synced EXCEPT ![w] = TRUE] /\ Then(w, "write")

\* A call that raises ends the upsert, and with it the ingestion.
Raise(w) == Then(w, "raised") /\ UNCHANGED synced

\* A new ingestion, or a redelivered one, builds a new store.
NewStore(w) ==
  /\ call' = [call EXCEPT ![w] = "none"]
  /\ synced' = [synced EXCEPT ![w] = FALSE]
  /\ UNCHANGED <<collection, indexed>>

\* upsert of a batch that is not empty.
Upsert(w) ==
  /\ call[w] = "none"
  /\ Then(w, IF synced[w] THEN "write" ELSE "exists")
  /\ UNCHANGED <<collection, indexed, synced>>

CollectionExists(w) ==
  /\ call[w] = "exists"
  /\ \/ Then(w, IF collection = "absent" THEN "create" ELSE "get config")
     \/ Then(w, "raised")
  /\ UNCHANGED <<collection, indexed, synced>>

\* create_collection: done, done with its answer lost, refused (the collection
\* is there already, or the service fails), or never sent.
CreateCollection(w) ==
  /\ call[w] = "create"
  /\ \/ /\ collection = "absent" /\ collection' = "configured"
        /\ Then(w, "create index") \/ Then(w, "exists again") \/ Then(w, "raised")
     \/ /\ Then(w, "exists again") \/ Then(w, "raised")
        /\ UNCHANGED collection
  /\ UNCHANGED <<indexed, synced>>

\* create_payload_index, with the same outcomes.
CreateIndex(w) ==
  /\ call[w] = "create index"
  /\ \/ indexed' = TRUE /\ Synced(w)
     \/ /\ indexed' \in {indexed, TRUE}
        /\ Then(w, "exists again") \/ Then(w, "raised")
        /\ UNCHANGED synced
  /\ UNCHANGED collection

\* The except branch: an error is ignored if there is a collection now.
ExistsAgain(w) ==
  /\ call[w] = "exists again"
  /\ \/ collection # "absent" /\ Synced(w)
     \/ Raise(w)
  /\ UNCHANGED <<collection, indexed>>

\* Faulty: the settings of an existing collection are taken to be right.
GetConfig_unread(w) ==
  /\ call[w] = "get config"
  /\ Synced(w) \/ Raise(w)
  /\ UNCHANGED <<collection, indexed>>

\* sync_hnsw_config: read the settings ...
GetConfig(w) ==
  /\ call[w] = "get config"
  /\ \/ collection = "configured" /\ Synced(w)
     \/ collection = "old" /\ Then(w, "update") /\ UNCHANGED synced
     \/ Raise(w)
  /\ UNCHANGED <<collection, indexed>>

\* ... and correct them.
UpdateCollection(w) ==
  /\ call[w] = "update"
  /\ \/ collection' = "configured" /\ Synced(w)
     \/ collection' \in {collection, "configured"} /\ Raise(w)
  /\ UNCHANGED indexed

\* The points are written: client.upsert(wait=True) returns or raises.
Write(w) ==
  /\ call[w] = "write"
  /\ Then(w, "none") \/ Then(w, "raised")
  /\ UNCHANGED <<collection, indexed, synced>>

StoreStep(w) ==
  \/ CollectionExists(w) \/ CreateCollection(w) \/ CreateIndex(w)
  \/ ExistsAgain(w) \/ GetConfig(w) \/ UpdateCollection(w) \/ Write(w)

CollectionNext == \E w \in Writers : NewStore(w) \/ Upsert(w) \/ StoreStep(w)

CollectionSpec == CollectionInit /\ [][CollectionNext]_collectionVars

----------------------------------------------------------------------------
(* Properties *)

CollectionTypeOK ==
  /\ collection \in {"absent", "old", "configured"}
  /\ indexed \in BOOLEAN
  /\ call \in [Writers -> {"none", "exists", "create", "create index",
                           "exists again", "get config", "update", "write",
                           "raised"}]
  /\ synced \in [Writers -> BOOLEAN]

\* A store that is done with ensure_collection can rely on the tenant index, or
\* another one is about to create it (qdrant_store.py:138, "Create the
\* collection and its tenant index if they don't exist yet").  TLC refutes it
\* by an error answer that is taken for a lost race.
TenantIndexBuilt ==
  \A w \in Writers :
    synced[w] => indexed \/ \E v \in Writers : call[v] = "create index"

\* A store writes points only into a collection that exists and has the
\* configured HNSW settings, whoever created it (qdrant_store.py:140-141 "An
\* existing collection gets the configured HNSW settings").
WritesIntoConfigured ==
  \A w \in Writers :
    synced[w] \/ call[w] = "write" => collection = "configured"

=============================================================================
