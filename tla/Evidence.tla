------------------------------ MODULE Evidence ------------------------------
(***************************************************************************)
(* Retrieval Requests and the Evidence Set made of them                    *)
(* (retrieval/search.py, retrieval/evidence.py): per source a read-only    *)
(* transaction with a dense and a lexical search, rank fusion, one global  *)
(* rerank, selection, assembly over all requests so far, and the expansion *)
(* of the selected chunks in a second transaction.  Syncs publish and      *)
(* administrators grant and revoke between any two statements.             *)
(*                                                                         *)
(* Research models the rounds around this module with everything about     *)
(* ranks, scores and budgets left open; here they are what the code        *)
(* computes.  Scores of the branches and of the reranker are open: any     *)
(* order of the matching chunks may come back.                             *)
(***************************************************************************)
EXTENDS Naturals, FiniteSets, SequencesExt, FiniteSetsExt

CONSTANTS KnowledgeSources, \* the requested sources, a sequence in name order
          Documents,        \* documents, as numbers
          SourceOf,         \* the Knowledge Source of each
          Grantable,        \* bound: documents the Principal may ever be granted
          Revisions,        \* Source Revisions of each, as numbers
          Lengths,          \* characters of each section of a document
          MatchLimit,       \* dense and lexical candidate limit of a request
          FusionLimit, RerankLimit, ResultLimit, RrfK, \* RetrievalConfig
          Scale,            \* a common denominator of the weights 1 / (rrf_k + rank)
          ItemLimit, TokenLimit, ContextWindow,
          Requests,         \* bound: Retrieval Requests of one run
          MaxChanges,       \* bound: publications, grants and revocations
          None

ASSUME EvidenceAssumption ==
  /\ KnowledgeSources \in Seq(ToSet(KnowledgeSources)) \ {<<>>} /\ IsInjective(KnowledgeSources)
  /\ Documents \subseteq Nat /\ IsFiniteSet(Documents) /\ Grantable \subseteq Documents
  /\ Revisions \in [Documents -> SUBSET Nat]
  /\ SourceOf \in [Documents -> ToSet(KnowledgeSources)]
  /\ Lengths \in [Documents -> Seq(Nat \ {0})]
  /\ \A n \in {MatchLimit, FusionLimit, RerankLimit, ResultLimit, RrfK, Scale, ItemLimit,
               TokenLimit, Requests} : n \in Nat \ {0}
  /\ \A rank \in 1..MatchLimit : Scale % (RrfK + rank) = 0
  /\ ContextWindow \in 0..3 /\ MaxChanges \in Nat

VARIABLES published,  \* what each source has published, or None
          readable,   \* documents the Principal may read
          phase,      \* where retrieve, or the expansion after it, is waiting
          snapshot,   \* what the open transaction sees
          dense,      \* its dense candidates
          searches,   \* the sources searched for this request
          results,    \* the Retrieval Results so far
          evidence,   \* the Evidence Set made of them
          changes     \* spent bound

world == <<published, readable, changes>>
request == <<snapshot, dense, searches>>
vars == <<world, phase, request, results, evidence>>

-----------------------------------------------------------------------------
(* Corpora and chunks                                                      *)

Sources == ToSet(KnowledgeSources)

\* A Corpus Revision is a digest of the document revisions it was published with.
CorporaOf(source) ==
  {corpus \in SUBSET UNION {{d} \X Revisions[d] : d \in {x \in Documents : SourceOf[x] = source}} :
     \A x, y \in corpus : x[1] = y[1] => x = y}
Corpora == UNION {CorporaOf(source) : source \in Sources}

Chunks ==
  UNION {[document : {d}, revision : Revisions[d], ordinal : DOMAIN Lengths[d]] : d \in Documents}

\* chunk_id: some order of the chunks that no revision of the corpus changes.
Precedes(x, y) ==
  \/ x.document < y.document
  \/ x.document = y.document /\ x.revision < y.revision
  \/ x.document = y.document /\ x.revision = y.revision /\ x.ordinal < y.ordinal

ChunksOf(corpus) == {ch \in Chunks : <<ch.document, ch.revision>> \in corpus}
Length(ch) == Lengths[ch.document][ch.ordinal]

\* count_evidence_tokens: a quarter of the characters, rounded up, at least one.
Tokens(length) == IF length = 0 THEN 1 ELSE (length + 3) \div 4

Take(s, n) == SubSeq(s, 1, IF n < Len(s) THEN n ELSE Len(s))
Chunked(items) == {items[i].chunk : i \in DOMAIN items}

\* What a search can match: the chunks of the corpus the Principal may read.
Matchable(sees) == {ch \in ChunksOf(sees.corpus) : ch.document \in sees.readable}

-----------------------------------------------------------------------------
(* Rank fusion                                                             *)

RankIn(branch, ch) == CHOOSE i \in DOMAIN branch : branch[i] = ch

\* The sum of 1 / (rrf_k + rank) over the branches that found the chunk.
FusedScore(ch, dense_branch, lexical) ==
  LET weight(branch) == IF ch \in ToSet(branch)
                          THEN Scale \div (RrfK + RankIn(branch, ch)) ELSE 0
  IN weight(dense_branch) + weight(lexical)

\* Candidates by falling score, then by source, then by chunk id.
SourceRank(source) == RankIn(KnowledgeSources, source)
Ahead(x, y) ==
  \/ x.score > y.score
  \/ x.score = y.score /\ SourceRank(x.source) < SourceRank(y.source)
  \/ x.score = y.score /\ x.source = y.source /\ Precedes(x.chunk, y.chunk)

Sorted(candidates) ==
  [rank \in 1..Cardinality(candidates) |->
     CHOOSE x \in candidates : Cardinality({y \in candidates : Ahead(y, x)}) = rank - 1]

FuseCandidates(source, corpus, dense_branch, lexical) ==
  Sorted({[chunk |-> ch, source |-> source, corpus |-> corpus,
           score |-> FusedScore(ch, dense_branch, lexical)] :
            ch \in ToSet(dense_branch) \cup ToSet(lexical)})

-----------------------------------------------------------------------------
(* Results                                                                 *)

Statuses == {"completed", "no_evidence", "failed"}

\* What one source contributed to a result.
Outcome(search, reranked, returned) ==
  [source |-> search.source, status |-> search.status, corpus |-> search.corpus,
   deduplicated |-> search.deduplicated, reranked |-> reranked, returned |-> returned]

Outcomes(searched, candidates, items) ==
  [i \in DOMAIN searched |->
     LET of(s) == Cardinality({j \in DOMAIN s : s[j].source = searched[i].source})
     IN Outcome(searched[i], of(candidates), of(items))]

RetrievalResult(status, items, outcomes, reranked) ==
  [status |-> status, items |-> items, outcomes |-> outcomes, reranked |-> reranked]

FailedResult(searched) == RetrievalResult("failed", <<>>, Outcomes(searched, <<>>, <<>>), 0)

\* The candidates of all sources that enter the rerank.
Candidates(searched) ==
  Take(Sorted(UNION {ToSet(searched[i].candidates) : i \in DOMAIN searched}), RerankLimit)

\* In rerank order: what fits the token limit, up to the result limit.
Select(s, candidate) ==
  LET tokens == s.tokens + Tokens(Length(candidate.chunk))
  IN IF tokens > TokenLimit \/ Len(s.items) = ResultLimit THEN s
     ELSE [items |-> Append(s.items, [chunk |-> candidate.chunk, source |-> candidate.source,
                                      corpus |-> candidate.corpus]),
           tokens |-> tokens]

Selected(relevant) ==
  LET upto[n \in 0..Len(relevant)] ==
        IF n = 0 THEN [items |-> <<>>, tokens |-> 0] ELSE Select(upto[n - 1], relevant[n])
  IN upto[Len(relevant)].items

StatusOf(items, reranked) == IF items # <<>> THEN "completed" ELSE "no_evidence"

-----------------------------------------------------------------------------
(* Assembly                                                                *)

\* Variant: only the first request that returned the chunk is named.
ProvenanceFirst(ch, rs) ==
  <<CHOOSE i \in DOMAIN rs :
      ch \in Chunked(rs[i].items) /\ \A j \in 1..(i - 1) : ch \notin Chunked(rs[j].items)>>

\* The requests that returned a chunk, in their order.
Provenance(ch, rs) ==
  LET upto[n \in 0..Len(rs)] ==
        IF n = 0 THEN <<>>
        ELSE IF ch \in Chunked(rs[n].items) THEN Append(upto[n - 1], n) ELSE upto[n - 1]
  IN upto[Len(rs)]

\* _merge_provenance: the item of the first request, with the provenance of all.
Merged(ch, rs) ==
  LET first == rs[Provenance(ch, rs)[1]].items
      item == first[CHOOSE i \in DOMAIN first : first[i].chunk = ch]
  IN [chunk |-> ch, source |-> item.source, corpus |-> item.corpus,
      provenance |-> Provenance(ch, rs), context |-> <<>>]

\* What a request contributes to the Evidence Set.
Returned(r) == IF r.status = "completed" THEN r.items ELSE <<>>

\* Variant: rounds end with the shortest result.
RoundCountShortest(rs) ==
  LET lengths == {Len(rs[i].items) : i \in {j \in DOMAIN rs : rs[j].status = "completed"}}
  IN IF lengths = {} THEN 0 ELSE Min(lengths)

RoundCount(rs) == Max({0} \cup {Len(Returned(rs[i])) : i \in DOMAIN rs})

\* Variant: the limit is looked at before the item is counted.
ExceedsTokensAlready(tokens, length) == tokens > TokenLimit

ExceedsTokens(tokens, length) == tokens + Tokens(length) > TokenLimit

EmptySet(complete) ==
  [items |-> <<>>, complete |-> complete, tokens |-> 0, items_exhausted |-> FALSE,
   tokens_exhausted |-> FALSE, expanded |-> FALSE]

\* One chunk is taken, passed over with the budget that ran out, or there already.
Consider(set, ch, rs) ==
  LET exceeds_items == Len(set.items) >= ItemLimit
      exceeds_tokens == ExceedsTokens(set.tokens, Length(ch))
  IN IF ch \in Chunked(set.items) THEN set
     ELSE IF exceeds_items \/ exceeds_tokens
       THEN [set EXCEPT !.items_exhausted = @ \/ exceeds_items,
                        !.tokens_exhausted = @ \/ exceeds_tokens]
     ELSE [set EXCEPT !.items = Append(@, Merged(ch, rs)),
                      !.tokens = @ + Tokens(Length(ch))]

\* One round: the n-th chunk of every result that has one.
Round(set, n, rs) ==
  LET upto[i \in 0..Len(rs)] ==
        IF i = 0 THEN set
        ELSE IF n > Len(Returned(rs[i])) THEN upto[i - 1]
        ELSE Consider(upto[i - 1], Returned(rs[i])[n].chunk, rs)
  IN upto[Len(rs)]

\* assemble_evidence_set
Assembled(rs) ==
  LET upto[n \in 0..RoundCount(rs)] ==
        IF n = 0 THEN EmptySet(\A i \in DOMAIN rs : rs[i].status # "failed")
        ELSE Round(upto[n - 1], n, rs)
  IN upto[RoundCount(rs)]

-----------------------------------------------------------------------------
(* Expansion                                                               *)

\* Variant: a neighbor costs what it would cost alone.
AddedTokensAlone(previous, length) == Tokens(length)

\* What a neighbor adds to a context of so many characters, joined by an empty line.
AddedTokens(previous, length) ==
  IF previous = 0 THEN Tokens(length)
                  ELSE Tokens(previous + 2 + length) - Tokens(previous)

IsNeighbor(ch, ordinal) ==
  /\ ordinal # ch.ordinal
  /\ ordinal <= ch.ordinal + ContextWindow /\ ch.ordinal <= ordinal + ContextWindow

\* Variant: any corpus that still holds the matched chunk will do.
HydratableAnyCorpus(item) ==
  /\ published[item.source] # None
  /\ item.chunk \in ChunksOf(published[item.source])
  /\ item.chunk.document \in readable

\* The matched chunk is still there, in the same corpus, and may be read.
Hydratable(item) ==
  /\ published[item.source] = item.corpus
  /\ item.chunk \in ChunksOf(published[item.source])
  /\ item.chunk.document \in readable

\* A neighbor is added while the budget holds; a smaller one may follow it.
AddNeighbor(s, ch) ==
  LET added == AddedTokens(s.characters, Length(ch))
  IN IF s.tokens + added > TokenLimit
       THEN [s EXCEPT !.exhausted = TRUE]
       ELSE [s EXCEPT !.tokens = @ + added,
                      !.characters = @ + Length(ch) + (IF @ = 0 THEN 0 ELSE 2),
                      !.context = Append(@, ch)]

\* The sections around a chunk, in their order.
Context(set, ch) ==
  LET upto[o \in 0..Len(Lengths[ch.document])] ==
        IF o = 0 THEN [tokens |-> set.tokens, characters |-> 0, context |-> <<>>,
                       exhausted |-> set.tokens_exhausted]
        ELSE IF IsNeighbor(ch, o) THEN AddNeighbor(upto[o - 1], [ch EXCEPT !.ordinal = o])
        ELSE upto[o - 1]
  IN upto[Len(Lengths[ch.document])]

\* One item with its context.
Hydrate(set, item) ==
  LET added == Context(set, item.chunk)
  IN [set EXCEPT !.items = Append(@, [item EXCEPT !.context = added.context]),
                 !.tokens = added.tokens, !.tokens_exhausted = added.exhausted]

Expanded(set) ==
  LET upto[n \in 0..Len(set.items)] ==
        IF n = 0 THEN [set EXCEPT !.items = <<>>, !.expanded = TRUE]
        ELSE Hydrate(upto[n - 1], set.items[n])
  IN upto[Len(set.items)]

-----------------------------------------------------------------------------
(* State                                                                   *)

Phases == {"ready", "searching", "dense", "lexical", "expanding", "failed"}

NoSnapshot == [corpus |-> {}, readable |-> {}]

Items == [chunk : Chunks, source : Sources, corpus : Corpora]
Ranked == [chunk : Chunks, source : Sources, corpus : Corpora, score : Nat]
Searches ==
  [source : Sources, corpus : Corpora \cup {None}, status : Statuses,
   candidates : Seq(Ranked), deduplicated : Nat]
SourceOutcomes ==
  [source : Sources, corpus : Corpora \cup {None}, status : Statuses,
   deduplicated : Nat, reranked : Nat, returned : Nat]
Results ==
  [status : Statuses, items : Seq(Items), outcomes : Seq(SourceOutcomes), reranked : Nat]
EvidenceItems ==
  [chunk : Chunks, source : Sources, corpus : Corpora,
   provenance : Seq(1..Requests), context : Seq(Chunks)]
EvidenceSets ==
  [items : Seq(EvidenceItems), complete : BOOLEAN, tokens : 0..TokenLimit,
   items_exhausted : BOOLEAN, tokens_exhausted : BOOLEAN, expanded : BOOLEAN]

TypeOK ==
  /\ published \in [Sources -> Corpora \cup {None}]
  /\ \A source \in Sources : published[source] \in CorporaOf(source) \cup {None}
  /\ readable \subseteq Documents
  /\ phase \in Phases
  /\ snapshot \in [corpus : Corpora, readable : SUBSET Documents]
  /\ dense \in Seq(Chunks) /\ Len(dense) <= MatchLimit
  /\ searches \in Seq(Searches) /\ Len(searches) <= Len(KnowledgeSources)
  /\ \A i \in DOMAIN searches : Len(searches[i].candidates) <= FusionLimit
  /\ results \in Seq(Results) /\ Len(results) <= Requests
  /\ \A i \in DOMAIN results :
       Len(results[i].items) <= ResultLimit /\ results[i].reranked <= RerankLimit
  /\ evidence \in EvidenceSets /\ Len(evidence.items) <= ItemLimit
  /\ changes \in 0..MaxChanges

\* Nothing requested yet; any source may have published any corpus, or none.
Init ==
  /\ published \in [Sources -> Corpora \cup {None}]
  /\ \A source \in Sources : published[source] \in CorporaOf(source) \cup {None}
  /\ readable \in SUBSET {d \in Grantable :
                            /\ published[SourceOf[d]] # None
                            /\ \E r \in Revisions[d] : <<d, r>> \in published[SourceOf[d]]}
  /\ phase = "ready"
  /\ snapshot = NoSnapshot /\ dense = <<>> /\ searches = <<>>
  /\ results = <<>>
  /\ evidence = EmptySet(TRUE)
  /\ changes = 0

-----------------------------------------------------------------------------
(* retrieve                                                                *)

\* The request is over: its result joins the earlier ones, and the Evidence Set
\* is assembled anew from all of them.
Conclude(result) ==
  /\ results' = Append(results, result)
  /\ evidence' = Assembled(Append(results, result))
  /\ phase' = "expanding"
  /\ snapshot' = NoSnapshot /\ dense' = <<>> /\ searches' = <<>>
  /\ UNCHANGED world

\* No snapshot of authority, or an embedder that raises or returns no usable vector.
EmbeddingFails ==
  /\ phase = "ready" /\ Len(results) < Requests
  /\ Conclude(FailedResult(<<>>))

EmbeddingReturns ==
  /\ phase = "ready" /\ Len(results) < Requests
  /\ phase' = "searching"
  /\ UNCHANGED <<world, request, results, evidence>>

Searching == KnowledgeSources[Len(searches) + 1]

\* One source is done with, well or badly, and the next one follows.
Searched(search) ==
  /\ searches' = Append(searches, search)
  /\ phase' = "searching"
  /\ snapshot' = NoSnapshot /\ dense' = <<>>
  /\ UNCHANGED <<world, results, evidence>>

FailedSearch(corpus) ==
  [source |-> Searching, corpus |-> corpus, status |-> "failed", candidates |-> <<>>,
   deduplicated |-> 0]

\* The first query of the transaction reads the Corpus Revision and fixes what
\* every later one of it sees.
OpenSnapshot ==
  /\ phase = "searching" /\ Len(searches) < Len(KnowledgeSources)
  /\ published[Searching] # None
  /\ snapshot' = [corpus |-> published[Searching], readable |-> readable]
  /\ phase' = "dense"
  /\ UNCHANGED <<world, dense, searches, results, evidence>>

\* The source was never published, or the database is gone.
CorpusUnavailable ==
  /\ phase = "searching" /\ Len(searches) < Len(KnowledgeSources)
  /\ Searched(FailedSearch(None))

\* The first chunks of some order of all, or of some, that can be matched.
Orders(matching) == {Take(s, MatchLimit) : s \in SetToSeqs(matching)}

\* The transaction is REPEATABLE READ: it searches what its first query saw.
DenseReturns ==
  /\ phase = "dense"
  /\ \E branch \in Orders(Matchable(snapshot)) : dense' = branch
  /\ phase' = "lexical"
  /\ UNCHANGED <<world, snapshot, searches, results, evidence>>

\* The transaction ends; what it found is fused and cut.
LexicalReturns ==
  /\ phase = "lexical"
  /\ \E matching \in SUBSET Matchable(snapshot) : \E lexical \in Orders(matching) :
       LET fused == FuseCandidates(Searching, snapshot.corpus, dense, lexical)
       IN Searched([source |-> Searching, corpus |-> snapshot.corpus,
                    status |-> IF fused = <<>> THEN "no_evidence" ELSE "completed",
                    candidates |-> Take(fused, FusionLimit),
                    deduplicated |-> Len(fused)])

\* A database error in either search keeps the Corpus Revision that was read.
SearchFails ==
  /\ phase \in {"dense", "lexical"}
  /\ Searched(FailedSearch(snapshot.corpus))

AllSearched == phase = "searching" /\ Len(searches) = Len(KnowledgeSources)
SomeFailed == \E i \in DOMAIN searches : searches[i].status = "failed"

\* One failed source fails the request, whatever the others found.
SearchesFailed ==
  /\ AllSearched /\ SomeFailed
  /\ Conclude(FailedResult(searches))

NothingToRerank ==
  /\ AllSearched /\ ~SomeFailed
  /\ Candidates(searches) = <<>>
  /\ Conclude(RetrievalResult("no_evidence", <<>>, Outcomes(searches, <<>>, <<>>), 0))

\* The reranker's answers: sequences of the candidates, complete or not.
Answers(candidates) == BoundedSeq(ToSet(candidates), Len(candidates)) \ {<<>>}

\* Variant: an answer of the right length will do.
FullPermutationLength(answer, candidates) == Len(answer) = Len(candidates)

FullPermutation(answer, candidates) ==
  Len(answer) = Len(candidates) /\ ToSet(answer) = ToSet(candidates)

\* A full permutation is cut where the scores fall below the threshold.
RerankReturns ==
  /\ AllSearched /\ ~SomeFailed
  /\ LET candidates == Candidates(searches)
     IN \E answer \in Answers(candidates) :
          /\ FullPermutation(answer, candidates)
          /\ \E relevant \in 0..Len(answer) :
               LET items == Selected(Take(answer, relevant))
               IN Conclude(RetrievalResult(StatusOf(items, answer), items,
                                           Outcomes(searches, answer, items), Len(answer)))

\* It raises, or answers with no full permutation in falling order.
RerankFails ==
  /\ AllSearched /\ ~SomeFailed
  /\ Candidates(searches) # <<>>
  /\ Conclude(FailedResult(searches))

-----------------------------------------------------------------------------
(* expand_evidence_set_context                                             *)

Expand(set, next) ==
  /\ evidence' = set
  /\ phase' = next
  /\ UNCHANGED <<world, request, results>>

\* An incomplete set is returned as it is, and ends the run.
NotExpanded ==
  /\ phase = "expanding" /\ ~evidence.complete
  /\ Expand(evidence, "failed")

\* Nothing to look up: no item, or no window.
NothingToExpand ==
  /\ phase = "expanding" /\ evidence.complete
  /\ evidence.items = <<>> \/ ContextWindow = 0
  /\ Expand([evidence EXCEPT !.expanded = TRUE], "ready")

\* All items are looked up in one snapshot.
ExpansionReturns ==
  /\ phase = "expanding" /\ evidence.complete
  /\ evidence.items # <<>> /\ ContextWindow > 0
  /\ \A i \in DOMAIN evidence.items : Hydratable(evidence.items[i])
  /\ Expand(Expanded(evidence), "ready")

\* One item that is gone, replaced or no longer readable, or a database error,
\* takes them all.
ExpansionFails ==
  /\ phase = "expanding" /\ evidence.complete
  /\ evidence.items # <<>> /\ ContextWindow > 0
  /\ Expand([evidence EXCEPT !.items = <<>>, !.complete = FALSE, !.tokens = 0], "failed")

-----------------------------------------------------------------------------
(* The environment                                                         *)

Changes(n) == changes < MaxChanges /\ changes' = changes + n

\* A sync publishes; grants of the documents it deletes go with them.
Publish(source, corpus) ==
  /\ Changes(1)
  /\ published[source] # corpus
  /\ published' = [published EXCEPT ![source] = corpus]
  /\ readable' = {d \in readable : SourceOf[d] = source => \E x \in corpus : x[1] = d}
  /\ UNCHANGED <<phase, request, results, evidence>>

\* An administrator grants or revokes a published document.
ChangeAccess(d) ==
  /\ d \in Grantable /\ Changes(1)
  /\ published[SourceOf[d]] # None
  /\ \E x \in published[SourceOf[d]] : x[1] = d
  /\ readable' = SymDiff(readable, {d})
  /\ UNCHANGED <<published, phase, request, results, evidence>>

-----------------------------------------------------------------------------
Retrieve ==
  \/ EmbeddingFails \/ EmbeddingReturns
  \/ OpenSnapshot \/ CorpusUnavailable \/ DenseReturns \/ LexicalReturns \/ SearchFails
  \/ SearchesFailed \/ NothingToRerank \/ RerankReturns \/ RerankFails

ExpandContext == NotExpanded \/ NothingToExpand \/ ExpansionReturns \/ ExpansionFails

Environment ==
  \/ \E source \in Sources : \E corpus \in CorporaOf(source) : Publish(source, corpus)
  \/ \E d \in Documents : ChangeAccess(d)

Next == Retrieve \/ ExpandContext \/ Environment

Spec == Init /\ [][Next]_vars

-----------------------------------------------------------------------------
(* Properties                                                              *)

\* The sum of a sequence of numbers.
Total(s) ==
  LET upto[n \in 0..Len(s)] == IF n = 0 THEN 0 ELSE upto[n - 1] + s[n]
  IN upto[Len(s)]

\* No result is built that its own validators refuse, or whose totals disagree
\* with its sources: the reranked and returned counts of the sources add up, a
\* source that completed had candidates, and only completed requests carry items.
ResultsConsistent ==
  \A i \in DOMAIN results :
    LET r == results[i]
    IN /\ (r.status = "completed") = (r.items # <<>>)
       /\ Total([j \in DOMAIN r.outcomes |-> r.outcomes[j].reranked]) = r.reranked
       /\ Total([j \in DOMAIN r.outcomes |-> r.outcomes[j].returned]) = Len(r.items)
       /\ \A j \in DOMAIN r.outcomes :
            LET o == r.outcomes[j]
            IN /\ (o.status = "completed") = (o.deduplicated > 0)
               /\ o.returned <= o.reranked /\ o.reranked <= o.deduplicated
               /\ o.status = "failed" => r.status = "failed"

\* Whatever is published between its statements, the items of a request come
\* from the Corpus Revision it reports for their source, each of them once.
ItemsOfReportedCorpus ==
  \A i \in DOMAIN results :
    LET items == results[i].items
    IN /\ IsInjective([j \in DOMAIN items |-> items[j].chunk])
       /\ \A j \in DOMAIN items : \E k \in DOMAIN results[i].outcomes :
            LET o == results[i].outcomes[k]
            IN /\ o.source = items[j].source /\ o.corpus = items[j].corpus
               /\ items[j].chunk \in ChunksOf(o.corpus)

\* The exhaustion flags tell the truth: an assembled set says that a budget ran
\* out exactly when some chunk a request returned is not in it.
NothingSilentlyDropped ==
  phase = "expanding" =>
    (evidence.items_exhausted \/ evidence.tokens_exhausted)
      = (\E i \in DOMAIN results : Chunked(results[i].items) \ Chunked(evidence.items) # {})

\* However often its chunk was returned, by requests of different Corpus
\* Revisions too, an item is there once and names every request that returned it.
ProvenanceComplete ==
  /\ IsInjective([i \in DOMAIN evidence.items |-> evidence.items[i].chunk])
  /\ \A i \in DOMAIN evidence.items :
       LET item == evidence.items[i]
       IN /\ IsInjective(item.provenance)
          /\ ToSet(item.provenance)
               = {j \in DOMAIN results : item.chunk \in Chunked(results[j].items)}

\* Characters of the chunks joined by empty lines.
JoinedLength(context) ==
  IF context = <<>> THEN 0
    ELSE Total([i \in DOMAIN context |-> Length(context[i])]) + 2 * (Len(context) - 1)

\* Tokens of the texts of an item.
Cost(item) ==
  Tokens(Length(item.chunk))
    + (IF item.context = <<>> THEN 0 ELSE Tokens(JoinedLength(item.context)))

\* The token count is that of the texts the model will be shown, though it was
\* added up neighbor by neighbor with its rounding.
TokensAccounted ==
  evidence.tokens = Total([i \in DOMAIN evidence.items |-> Cost(evidence.items[i])])

\* Evidence that comes out of an expansion is of the corpora published and the
\* documents readable at that moment, neighbors included, whichever requests
\* found it and under whichever Corpus Revision.
ExpandedEvidenceCurrent ==
  [][ExpandContext /\ evidence'.complete /\ ContextWindow > 0 =>
       \A i \in DOMAIN evidence'.items :
         LET item == evidence'.items[i]
         IN /\ published[item.source] = item.corpus
            /\ \A ch \in {item.chunk} \cup ToSet(item.context) :
                 ch \in ChunksOf(published[item.source]) /\ ch.document \in readable]_vars
=============================================================================
