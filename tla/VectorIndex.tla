---------------------------- MODULE VectorIndex ----------------------------
(***************************************************************************)
(* The vectors of objects (internal/store/embeddings.go) and the three     *)
(* ways to search them: the portable scan of object_embeddings, Turso's    *)
(* native functions (turso_vector.go) and pgvector with one HNSW index per *)
(* profile (vector_search.go).  The last two keep a side table that a      *)
(* start of the process fills with the rows an earlier backend left out.   *)
(*                                                                         *)
(* A vector is known by its object, its producer and the bytes it was      *)
(* computed from; each producer has a profile of its own.                  *)
(***************************************************************************)
EXTENDS Integers, Sequences, FiniteSets, SequencesExt

CONSTANTS Key,            \* object keys
          Maker,          \* what produces vectors: plugins, external workers
          Rank,           \* for every key and maker, how close its vector is
                          \* to the query, and the order of its row's id
          Indexable,      \* makers whose vectors have at most 2000 dimensions
          Backends,       \* the backends the store may be opened with
          MaxProfiles,    \* store.vector_search.max_profiles
          MaxCandidates,  \* max_candidates of a search
          Mixed           \* whether an instance without a side table writes, too

ASSUME VectorAssumption ==
  /\ Rank \in [Key \X Maker -> [score : Nat, id : Nat]]
  /\ Indexable \subseteq Maker
  /\ Backends \subseteq {"exact", "turso-native", "pgvector"}
  /\ MaxProfiles \in Nat \ {0} /\ MaxCandidates \in Nat \ {0}
  /\ Mixed \in BOOLEAN

VARIABLES embeddings,  \* object_embeddings
          vectors,     \* the rows with a native vector in the side table
          hnsw,        \* the HNSW index of every profile: none, invalid or valid
          backend      \* vectorBackend of the open store

vecVars == <<embeddings, vectors, hnsw, backend>>

-----------------------------------------------------------------------------
(* Writing.                                                                *)

Vector(k, p, b) == [key |-> k, plugin |-> p, bytes |-> b]
Others(rows, k, p) == {e \in rows : e.key # k \/ e.plugin # p}

\* Deleting a row deletes its native vector: the foreign key cascades.
DeleteEmbeddings(gone) ==
  /\ embeddings' = embeddings \ gone
  /\ vectors' = vectors \ gone
  /\ UNCHANGED <<hnsw, backend>>

\* What the transaction that writes rows inserts into the side table.
Inserted(rows) == {IF backend = "exact" THEN {} ELSE rows}
                  \cup (IF Mixed THEN {{}} ELSE {})

\* The transaction of ReplaceObjectEmbeddings, once the generation is checked.
ReplaceEmbeddings(k, p, rows) ==
  /\ embeddings' = Others(embeddings, k, p) \cup rows
  /\ \E new \in Inserted(rows) : vectors' = Others(vectors, k, p) \cup new
  /\ UNCHANGED <<hnsw, backend>>

-----------------------------------------------------------------------------
(* ensurePGVectorIndex, after the transaction.                             *)

NeedsIndex(p) == backend = "pgvector" /\ p \in Indexable /\ hnsw[p] # "valid"

\* An invalid index of the profile is dropped before the others are counted.
LimitReached(p) == Cardinality({q \in Maker \ {p} : hnsw[q] # "none"}) >= MaxProfiles

IndexBecomes(p, state) ==
  /\ hnsw' = [hnsw EXCEPT ![p] = state]
  /\ UNCHANGED <<embeddings, vectors, backend>>

\* It returns at once, refuses, or builds the index.
EnsurePGVectorIndex(p) ==
  IF ~NeedsIndex(p) THEN UNCHANGED vecVars
  ELSE IndexBecomes(p, IF LimitReached(p) THEN "none" ELSE "valid")

\* CREATE INDEX CONCURRENTLY that fails, or dies with its process, leaves an
\* index that is not valid.
BuildFails(p) == NeedsIndex(p) /\ ~LimitReached(p) /\ IndexBecomes(p, "invalid")

-----------------------------------------------------------------------------
(* Opening the store.                                                      *)

Profiles(rows) == {e.plugin : e \in rows}

\* The rows without a native vector get one, under a lock of PostgreSQL's ...
BackfillPGVectors == vectors' = vectors \cup (embeddings \ vectors)

\* ... and in Turso's single process.
BackfillTursoVectors == vectors' = vectors \cup (embeddings \ vectors)

\* cleanupStalePGVectorIndexes drops those of profiles no row has any more.
Cleaned(live) == [p \in Maker |-> IF p \in live THEN hnsw[p] ELSE "none"]

\* ensureExistingPGVectorIndexes: beyond the limit the store does not open.
Ensured(live) ==
  [p \in Maker |-> IF p \in live \cap Indexable THEN "valid" ELSE Cleaned(live)[p]]

ConfigurePGVector ==
  /\ Cardinality(Profiles(embeddings) \cap Indexable) <= MaxProfiles
  /\ BackfillPGVectors
  /\ hnsw' = Ensured(Profiles(vectors'))
  /\ backend' = "pgvector"
  /\ UNCHANGED embeddings

ConfigureTursoVectors ==
  /\ BackfillTursoVectors
  /\ backend' = "turso-native"
  /\ UNCHANGED <<embeddings, hnsw>>

\* PostgreSQL without the extension, or configured not to use it.
ConfigureExact == backend' = "exact" /\ UNCHANGED <<embeddings, vectors, hnsw>>

\* Turso and PostgreSQL are different databases: only from or to the portable
\* table is a change of backend.
OpenStore(b) ==
  /\ b \in Backends /\ b # backend /\ "exact" \in {b, backend}
  /\ \/ b = "pgvector" /\ ConfigurePGVector
     \/ b = "turso-native" /\ ConfigureTursoVectors
     \/ b = "exact" /\ ConfigureExact

\* A new store; a Turso file is one whose first start finds nothing to add.
VecInit ==
  /\ embeddings = {} /\ vectors = {}
  /\ hnsw = [p \in Maker |-> "none"]
  /\ backend \in Backends \ {"turso-native"}

-----------------------------------------------------------------------------
(* Searching: at most limit rows that score min or more.                   *)

Score(e) == Rank[e.key, e.plugin].score
IdBefore(l, r) == Rank[l.key, l.plugin].id < Rank[r.key, r.plugin].id

\* embeddingResultBetter, and ORDER BY score DESC, id.
Better(l, r) == Score(l) > Score(r) \/ (Score(l) = Score(r) /\ IdBefore(l, r))

Best(rows, limit) ==
  {r \in rows : Cardinality({o \in rows : o = r \/ Better(o, r)}) <= limit}

\* ORDER BY id LIMIT max_candidates.
Candidates(rows) ==
  {r \in rows : Cardinality({o \in rows : o = r \/ IdBefore(o, r)}) <= MaxCandidates}

\* A full list gives up its worst result for a better one.
Keep(results, e, limit) ==
  LET worst == CHOOSE r \in results : \A o \in results : o = r \/ Better(o, r)
  IN  IF Cardinality(results) < limit THEN results \cup {e}
      ELSE IF Better(e, worst) THEN (results \ {worst}) \cup {e} ELSE results

SearchExact(limit, min) ==
  FoldLeft(LAMBDA results, e : IF Score(e) < min THEN results ELSE Keep(results, e, limit),
           {}, SetToSortSeq(Candidates(embeddings), IdBefore))

\* The least score is part of Turso's statement; pgvector's answer is cut first.
\* Rows with equal scores, whose order pgvector leaves open, are told apart.
SearchTursoVectors(limit, min) ==
  Best({e \in Candidates(vectors) : Score(e) >= min}, limit)
SearchPGVector(limit, min) == {e \in Best(vectors, limit) : Score(e) >= min}

SearchObjectEmbeddings(limit, min) ==
  CASE backend = "pgvector" -> SearchPGVector(limit, min)
    [] backend = "turso-native" -> SearchTursoVectors(limit, min)
    [] backend = "exact" -> SearchExact(limit, min)
=============================================================================
