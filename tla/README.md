# Verification of the Reference System

TLA+ models of the agentic RAG application in this repository, checked with TLC
and, where the text says so, proved with TLAPS. Paths below are relative to the
repository; `PROJECT.json` maps every definition to the lines it stands for.

## The system

A trusted Principal asks questions on a *Conversation Thread*. One *Turn* runs
the top-level LangGraph graph (`src/agentic_rag/graph/_turn.py`): it binds the
Turn to the thread, captures the Principal's effective scope, compacts the
memory if it grew too long, rewrites the message into a standalone question,
researches authorized Evidence, generates a cited answer, and finally compares
the scope with the one captured before it commits a Turn Record. The graph
library writes a checkpoint after every node; a run that stops continues from
the last one.

| Part | State | Operations | Interacts with |
| --- | --- | --- | --- |
| Turn graph (`graph/_turn.py`, `_turn_nodes.py`, `nodes.py` 70-438, `state.py`, `runtime.py`) | checkpointed `thread`, `current_turn`, next node | eight nodes, their routes, resume | memory, authorization, both subgraphs |
| Conversation memory (`conversation.py`, `agents/contextualization.py`) | `ThreadState`: records, summary, active Turn and fingerprint | `begin_turn`, `commit_turn`, `compact_thread_memory`, projections | Turn graph, authorization |
| Authorization (`authorization.py`, `migrations/0002`, `0003`) | principals, groups, grants in PostgreSQL | capture a snapshot, decide commit/restart/fail, authorize one document | every component that reads documents |
| Research subgraph (`graph/_research.py`, `nodes.py` 744-1152, `agents/research.py`) | counters, results, status | plan, retrieve, assess, refine | Turn graph, retrieval |
| Answer subgraph (`graph/_answer.py`, `nodes.py` 441-741, `citations.py`, `agents/answering.py`) | draft, validation, verification, repairs | hydrate, generate, validate, verify, repair, finalize | Turn graph, PostgreSQL |
| Retrieval and Evidence (`retrieval/`) | none of its own | search per source, fuse, rerank, assemble, expand | research, PostgreSQL |
| Corpus Sync (`corpus/`) | documents, chunks, corpus revision, sync reports | discover, diff, embed, publish | PostgreSQL, retrieval |
| Database and migrations (`database.py`, `migrations/`) | applied migrations | apply | everything in PostgreSQL |
| Evaluation and release (`evals/`) | dataset versions, `release-v1`, candidate and accepted report | publish a dataset, run an experiment, accept a candidate | the Turn graph as a target |
| Reference fixture (`src/fixtures/reference_support.py`) | none of its own | load demonstration documents and grants | PostgreSQL |
| Observability (`observability.py`) | none | trace metadata | - |

### What is hard

* Checkpoints and resumption: nodes write with `model_copy`, which validates
  nothing; the next node, maybe in another process, validates.
* A caller's new input replaces checkpointed work before any node can object.
* The scope changes at any moment; work derived under a lost scope must not be
  committed, and a compaction made under it must be undone.
* Budgets must survive restarts, retries, failures and lost subgraphs.
* Documents are re-synchronised while a Turn is answering from them.
* Two syncs of one source under different configurations, a directory that
  changes while it is read, ambiguous commits, failed reports.
* Fusion, cuts, two retrieval rounds and rounded token counts have to agree
  about one Evidence Set whose corpora may be replaced meanwhile.
* Publish, experiment and accept are separate commands joined by files, a dataset
  and a tag; each may stop half-way or run beside another.
* The deadline can pass inside any model call.

### What makes each part correct

* Turn graph: every checkpoint is acceptable, and resumable unless a new input
  replaced it; an accepted Turn ends in exactly one record; budgets bound the
  model calls and are never refunded.
* Memory: the thread is an append-only log, whatever is summarised.
* Authorization: nothing is committed that rests on unreadable documents.
* Research and Answer: bounded, and only Evidence that was judged sufficient,
  and answers that were validated, verified and still authorized, come out.
* Corpus Sync: readers see whole snapshots, each with its revision and report;
  a quiet sync publishes the directory; a document that returns is ungranted.
* Evidence: each item is of the corpus its request reports, knows every request
  that found it, is never dropped silently, and after expansion is current.
* Release: `release-v1` only comes to name a whole version that was measured, and
  never regresses past the thresholds.

## Modules

| Module | What it is |
| --- | --- |
| `ThreadLog` | Abstract: a log that grows at its end, one active Turn at most. |
| `Turn` | The Turn graph with its checkpoints, callers, process stops and scope changes. |
| `MCTurn` | TLC instance of `Turn` (document symmetry). |
| `TurnProofs` | The inductive invariant of `Turn` and the theorems about checkpoints and budgets. |
| `TurnMemoryProofs` | What `Turn` does to Thread Memory: it implements `ThreadLog`, rolls back, summarises no more than it must, commits authorized material, keeps its charges. |
| `Research` | The Research subgraph with the deadline, scope changes and publications at every call. |
| `MCResearch` | TLC instance of `Research` with the symmetry of sources and documents, for safety on larger instances. |
| `ResearchProofs` | The inductive invariant of `Research` and the theorems. |
| `Answer` | The Answer subgraph, in the same surroundings. |
| `AnswerProofs` | The inductive invariant of `Answer` and the theorems. |
| `Publication` | Abstract: a corpus replaced as a whole, by a run whose one report tells the truth. |
| `CorpusSync` | Syncs of one Knowledge Source: directory, comparison, embedding, publication, failed report. |
| `MCCorpusSync` | TLC instance of `CorpusSync`: two runs under different configurations. |
| `CorpusSyncProofs` | The inductive invariant of `CorpusSync`, its theorems, the refinement of `Publication`. |
| `Evidence` | Retrieval Requests as computed: search, fusion, rerank, selection, assembly, expansion. |
| `MCEvidence` | TLC instance of `Evidence`: three documents in two sources. |
| `EvidenceProofs` | Recursion and sums, every operator of `Evidence`, its inductive invariant and the theorems. |
| `Release` | Publish, experiment and accept, with the dataset, its tag and the report files. |
| `MCRelease` | TLC instance of `Release` (symmetry of commands and checkouts). |
| `ReleaseProofs` | The inductive invariant of `Release` and the theorems. |

`Turn` knows the two subgraphs by their contract only: what they may charge and
what they can return. `Research!ContractKept` and `Answer!ContractKept` state
that contract, and the proofs show that the subgraphs keep it. The two are
joined on paper, by the same formula read on both sides, not by an `INSTANCE`.
`Evidence` stands to `Research` in the same way: `Research` lets a search return
any readable items and a rerank keep any of them, `Evidence` computes which. The
step by which `Publish` changes a corpus in `Research`, `Answer` and `Evidence` is
the `Publish` of `Publication`, which `CorpusSync` implements.

### `Turn` and the code

`thread`, `work` and `next` are the checkpoint (`GraphState` and the node the
library would run); `running`, `caller` and `error` are the latest run; `scope`
is what `source_document_is_authorized` would admit now. `base` and `calls` are
history variables no action reads: the thread when the active Turn began, and
the model calls made for it.

One node is one action (or one action per way it can end), because the library
persists a node's whole update or none of it. A node's action contains every
call it makes: `Checkpoint` is `checkpoint_turn_work` with the fingerprint it
writes, `Commit` is `_committed_state`. Routes are the node names passed to
them. Every node first re-validates what it reads (`WorkAccepted`,
`ThreadAccepted`); when that fails, `NodeRaises` ends the run and leaves the
checkpoint. `Submit` is an invocation with an input, which replaces
`current_turn`; `Resume` an invocation without. A resume uses the caller of the
interrupted run; resuming with a different Principal is outside the model.

Abstractions: a message is `own` (the user's) or `derived` (a model's); a
fingerprint is the value it digests; a scope revision is the set of readable
documents; tokens are one weight per record; terminal reasons no property names
are `other`; a deadline check may go either way. Both subgraphs appear by
contract: what they may charge, what Evidence and citations they can return.

### `Research` and the code

A node that waits for a model or the database is several actions: one that
reserves and starts the call, one or more for how it ends. What the code does
without waiting in between is one action. So `StartPlan` is `plan_research` up to
the planner's first call, `PlanFails` the reservation of its one repair, and
`retrieve_research_evidence` runs through `StartRetrieval`, the embedding, one
`SearchReturns` or `SearchFails` per Knowledge Source, the rerank, and
`ExpansionReturns`, which is the rest of the node up to its routing. Each search
is its own transaction in the code, hence its own action here, and the scope and
the corpus may move between any two.

`counters` are the reservations the code counts, refund of an unused rerank
included (`Refunded`); `calls` counts the model calls really made and no action
reads it. `seenDocuments` and `seenRevisions` are history: what could be read,
and what was published, at some moment since the current round began.
Ranks, scores, thresholds and text are left open: a search returns any readable
items, a rerank keeps any of them, a verdict is a Boolean.

### `Answer` and the code

The same split at the calls. `Available` is `hydrate_citation_mappings`, one
repeatable-read transaction, called by `HydrationSucceeds` and again by
`Release`. A draft is who made it, what it cites, and whether its keys are known
and every claim has one; `judged` is history, the drafts a verdict in time found
supported. `Init` starts from any Evidence Set and any scope and corpus, since
both may have moved after research ended. The run's database pool and chat model
may be missing (`HydrationRaises`, `GenerationRaises`); that is a configuration
the Turn graph accepts too.

### `CorpusSync` and the code

One source, since every statement of `sync_knowledge_source` names its own. `files`
is the directory, `documents`, `chunks`, `corpus_revision`, `grants` and `reports`
are tables, `lock` is the transaction's advisory lock, and `sync[r]` is what call
`r` has in memory. `Start` lists the paths; `ReadFile` reads one later, so an edit
can fall between; `LoadExisting` reads the published rows and counts the changes;
`ProcessDocument` parses and embeds one changed document, with three attempts.
The publication is `AcquireLock`, `CheckExisting` or `CorpusChanged`, and `Commit`:
nothing it writes is seen before it commits, so its statements are one step, but
the comparison under the lock is a step of its own, and a grant may fall between.
`CommitUnknown` is a commit whose acknowledgement is lost: the call then goes on to
write a failed report, and finds its own run id taken. A file is its digest (with
the access scope revision that goes into it), the chunks of a document revision
are one value. `quiet` is history.

### `Evidence` and the code

A Retrieval Request is `OpenSnapshot`, `DenseReturns`, `LexicalReturns` per source
in one repeatable-read transaction (`snapshot`), then fusion, which is computed:
reciprocal ranks over a common multiple (`Scale`), cut to `FusionLimit` per source, then one
rerank of the best `RerankLimit` over all sources, its threshold, and the selection
up to `ResultLimit` and the token limit. Branch scores and
rerank scores are open: any order may come back, and the reranker may answer with
something that is no permutation. Assembly merges all requests so far, items in
result order, under an item and a token budget; a token is four characters,
rounded up, and `Lengths` makes the rounding of joined neighbors matter. Expansion
looks the items up, with their neighbors, in one more transaction. A loop of the
code is a function that is recursive in the number of turns taken, over a step that
has a name: `Select`, `Consider` within `Round`, `AddNeighbor` within `Hydrate`.

### `Release` and the code

`history` is every version of the dataset (each call that writes makes one),
`files` the two report files, `command[c]` what a running command has in memory.
A publish is one call per example and one per split. An experiment resolves the
version, lists both splits and writes its report; with a baseline it reads the
examples by the *name* of the tag. `Scorecard`, `CompareScorecards` and `Gate` keep
counts, errors, one score and one cost. An acceptance moves the tag and then
writes the accepted report. Any command may stop between two calls or while it
writes a file (`Damaged`). `late` and `alone` are history: whether the tag moved
between an experiment's look at it and its reading of the examples, and whether
another publish ran beside.

## Runs

| Run | Checks | Shows |
| --- | --- | --- |
| `turn_faults` | `TypeOK`, `CheckpointAccepted`, `ModelCallsBounded`, `OnlyNewInputStrandsTurn`, `ChargesKept` | overlapping inputs of two Principals, three scope changes, one stop, subgraphs that raise |
| `turn_memory` | `LogSpec`, `SmallestPrefixCommitted`, `CommittedMaterialAuthorized`, `UnauthorizedCompactionRolledBack` | `Turn` implements `ThreadLog` over three Turns and two documents that may be revoked at any boundary, compacting proper prefixes that are no longer than they must be |
| `turn_liveness` | `AcceptedTurnCommits` | every accepted Turn ends with its record in the log |
| `research_bounded` | `TypeOK`, `CallsCharged`, `ContractKept`, `EvidenceFresh`, `LateResultsDiscarded`, `FailureFailsClosed`, `Terminates` | two sources, two rounds, a deadline and a change of scope or corpus anywhere |
| `answer_release` | `TypeOK`, `ContractKept`, `AnswerWasJudged`, `LateDraftWithheld`, `LostEvidenceWithheld`, `Terminates` | every Evidence Set over two documents and two revisions, every budget left, two changes while the models work |
| `corpus_sync` | `TypeOK`, `CorpusWhole`, `PublicationSpec`, `ReadmittedUngranted`, `QuietSyncPublishesDirectory`, `EverySyncEnds` | two syncs that race under different configurations, from every directory and corpus, an edit, a grant, stops and every failure |
| `evidence` | `TypeOK`, `ItemsOfReportedCorpus`, `NothingSilentlyDropped`, `ProvenanceComplete`, `TokensAccounted`, `ExpandedEvidenceCurrent` | two requests over two sources, every ranking, a change between any two statements |
| `release` | `TypeOK`, `PublishedWhole`, `ReportOfItsVersion`, `TagEarned`, `AcceptedNeverRegresses` | two commands at a time, of two publishes, experiments and acceptances each, stopping anywhere |

Four more runs each show a statement of the docs that the code does not keep
(`expect: violation`, listed with quotes under `findings`):

* `turn_scope_aba`: a document revoked and granted back between the capture and
  the gate leaves the revisions equal. The same property holds in `turn_memory`,
  where documents only leave the scope, and is proved there
  (`CommitsAreAuthorized`): the difference is exactly the missing monotonicity.
* `turn_reexecution`: a completed Turn whose record was summarised is run again.
* `turn_lost_charges`: a subgraph that raises returns no counters. `ChargesKept`
  says the rest: nothing else loses a charge but a process stop.
* `turn_overlap`: `docs/course/08-multi-turn-memory-without-authority-drift.md` line 55
  has a different Turn rejected as busy while one is active; a new input replaces the
  checkpointed work before `prepare_turn` can look (`nodes.py` 86), so it is told
  `turn_resume_incompatible`, and the interrupted Turn has lost its work for good.
  `turn_faults` contains that step: `OnlyNewInputStrandsTurn` says that nothing else
  does it, and that nothing is executed on such a thread afterwards.

Other divergences the models contain, without a run of their own:

* A Turn that failed closed keeps the Standalone Question a model wrote
  (`graph/_turn_nodes.py` 390, `FailureRecord`), where
  `docs/course/09-authorization-changes-mid-conversation.md` line 113 has the record
  hold the original message and terminal metadata and no model draft.
* Retrieval looks at the clock before its first call and after its last, so a
  rerank may start after the deadline (`retrieval/search.py` 174); lines 89-91 of
  `docs/course/07-bounded-agentic-research.md` have the deadline checked before and
  after every model call. What it returns is discarded (`LateResultsDiscarded`).
* With a context window of 0 the expansion asks the database nothing
  (`retrieval/evidence.py` 123), so Evidence that was revoked since is returned, where
  lines 93-95 of `docs/course/05-reranking-and-the-evidence-set.md` have the set become
  incomplete and expose nothing. `ExpandedEvidenceCurrent` and the theorem
  `EvidenceAlwaysFresh` assume a window.
* An experiment with a baseline checks the tag's version and then reads the
  examples by the tag's name (`evals/run.py` 227); an acceptance in between has the
  report name one version and measure another, or one split of each, where the command
  (line 417) promises "one exact version". TLC finds it with a third experiment, in 34
  steps. `ReportOfItsVersion` and `TagEarned` leave exactly that case out (`late`).

### Bounds

Two Turns are the fewest that exercise busy, resume and history; with a record
heavier than the context, the second Turn already compacts. `turn_memory` uses three Turns
and lighter records so that a compaction keeps some records. Model-call limits
are 5 to 7: enough for a rewrite, a plan, a rerank, an assessment, a generation
and a verification (6), and, at 5, for a budget that runs out between any two of
them. Two or three scope changes cover the restart, the second failure and one
change after it. One stop is enough for the bound to count stops. Runs end when
submissions are spent, so deadlock is not checked.

Two Knowledge Sources with one document and two revisions each are the fewest
for a partial failure and for Evidence of which one part is stale; 6 model calls
run out somewhere on the way of two rounds (which take up to 8), and the
iterations allow the second round. In `answer_release` one source with two
documents lets a cited and an uncited item part ways, and the 5 calls allow a
generation, a verification, a repair and a second verification with one to spare,
or any shortage, since `Init` picks what was already spent. Changes of the scope
and the corpus count together (`MaxChanges`): one per run of `Research`, where
one is enough to be missed, two for `Answer`, so that a change can be undone.
Both subgraphs end, so deadlock is not checked there either.

`corpus_sync` has two paths, one of them grantable, and two revisions of which one
is malformed: enough for an addition, an update, a deletion and an unchanged row in
one snapshot, and for a document that fails to parse. Two runs under different
configurations are the fewest that can race; they begin from every directory and
every published corpus, so one edit is enough for a snapshot no directory ever had.
`evidence` has two requests, since merging needs a second one, over three
documents: one of three sections, one short neighbor in its source that is there to
change the corpus, one in another source that does not fit the token budget beside
the longest section. A branch finds up to three chunks and keeps two, fusion keeps one
per source of them, and two requests can bring in more items and tokens than the set
takes. One change can fall between any two statements. `release` lets two commands run
at a time out of two publishes, two experiments and two acceptances: a baseline, a
candidate and the moves between them. There is one example per split, and two
measures of which one is both better and cheaper, so that the regression threshold of
0 and the cost threshold of 15 % each decide. A third acceptance, which a crash
between the tag and the accepted report would need in order to show, does not fit;
the hazard is listed without a property. All three stop when their bounds are
spent, so deadlock is not checked.

### Fairness

`AcceptedTurnCommits` assumes that a live run keeps executing nodes (the Pregel
loop does, given that every model call returns or raises), and that a caller who
sees a run stop short of its end resumes it, which the docs ask of callers. No
fairness is assumed of scope changes, stops or submissions. Overlapping
submissions are excluded there: one that replaces active work can only be
rejected, on every later resume as well.

`Terminates` of `Research` and `Answer`, and `LostEvidenceWithheld`, assume weak
fairness of the subgraph's own steps: `invoke` runs nodes to the end, and every call returns or raises (an
assumption about the model clients: the code itself limits no call). The deadline, administrators and syncs are not fair: a run ends without them.

`EverySyncEnds` assumes weak fairness of `Advance(r)`, the steps of a call whose
process is not stopped. It waits for the embedder, whose calls return or raise, and
for the advisory lock; a transaction gives the lock up when it commits, rolls back
or its process stops, and the holder is fair as well. Failures, stops and the
editor are not fair, and a stopped call counts as ended.

## Proofs

`TurnProofs` proves, for all sets of identities and documents, all budgets the
code accepts and all bounds:

* `Invariance`: `Spec => []IInv`.
* `TypeCorrect`, `CheckpointsAccepted`, `ModelCallsAlwaysBounded`: the three
  invariants of `turn_faults`.
* `OnlyNewInputsStrandTurns`: the action property `OnlyNewInputStrandsTurn`.

None of the invariants is inductive alone. A checkpoint stays acceptable only
because each node finds the stages its predecessors leave (`StageAtNode`), no
node strands a Turn only because a rollback restores a thread whose active Turn is
still this one (`ActiveBound`, on `pre_compaction_thread` too), and the call
bound needs the calls of the current attempt kept apart from those that restarts
and stops wrote off (`CallsBound`). `IInv` is the conjunction of these with
`TypeOK`. There is one lemma per action; lemmas about the operators (validators,
`Committed`, `CompactionPrefix`, `AuthorizingFailure`...) carry them.

`ResearchProofs` proves, for all sets of sources, paths and revisions, all
budgets, any number of changes: `TypeCorrect`, `CallsAlwaysCharged`,
`ContractAlwaysKept`, `LateResultsAlwaysDiscarded`, `FailuresAlwaysFailClosed`,
and `EvidenceAlwaysFresh`, which assumes `ContextWindow # 0` and is false without
it: with a window of 0 the expansion asks nothing. The invariant adds: what was spent when each step is
reached, so that the refund can never take back another call (`Spending`);
that Evidence comes from the items of the rounds, that a verdict needs
Evidence, and that a late return or a failed round leads nowhere but to the end
(`Placed`); and that what the readers of the round saw covers the Evidence
(`Readers`).

`AnswerProofs` proves, under the same generality: `TypeCorrect`,
`ContractAlwaysKept`, `AnswersWereJudged` and `LateDraftsWithheld`. Its invariant adds the calls spent at each step
and that a repair is only reached with none spent (`Spending`), that the draft
being verified is the one found valid and the one being released is in `judged`
(`Buffered`), and where a late return can lead (`Placed`).

`CorpusSyncProofs` proves, for all finite sets of paths, all revisions and
configurations and any number of runs, edits and grants: `TypeCorrect`,
`CorpusAlwaysWhole`, `ReadmittedAlwaysUngranted`, `QuietSyncAlwaysPublishesDirectory`
and `ImplementsPublication`. Its invariant adds what a run remembers: that a writer
holds the lock and compared its `existing` with the rows under it, that what it
processed and what it left unchanged together are its snapshot under its own
configuration, that its counts compare the two, and that a report that succeeded
was written by its own run. Each commit is then a `Publish` of the snapshot, however
stale the work outside the lock might have become.

`TurnMemoryProofs` proves about Thread Memory, on top of the invariant of `TurnProofs`:

* `LogImplemented`: `Turn` implements `ThreadLog`.
* `RefusedTurnsRestoreMemory`: `UnauthorizedCompactionRolledBack`.
* `SmallestPrefixesCommitted`: `SmallestPrefixCommitted`.
* `ChargesAlwaysKept`: `ChargesKept`.
* `CommitsAreAuthorized`: `CommittedMaterialAuthorized`, if `GrantsAllowed = FALSE`.

The first two need `MInv`: while a Turn is worked on, the thread has the history
it began with and what a rollback would restore has its very memory
(`MemoryKept`), and no compaction lies behind a node that may end a Turn without a
rollback, nor behind a refusal the gate would commit as a result (`Uncompacted`).
The third adds that compaction is entered with too much memory only, and that a thread
whose summary is not the one it began with has lost no more records to it than had to
make room (`PrefixInv`): a compaction that fails keeps the first, a rollback undoes the
second. `ChargesAlwaysKept` goes through the steps with the types `MInv` gives them and
assumes nothing of stops or subgraphs. The last adds that everything made since the capture is within the captured
revision, which contains the present scope (`MaterialInScope`), so that equal
revisions at the gate mean readable material. Without its assumption it is false: that
is what `turn_scope_aba` shows.

`ReleaseProofs` proves, for every dataset, every set of commands and checkouts, all
thresholds and any number of publishes, experiments, acceptances and stops:
`TypeCorrect`, `PublishedAlwaysWhole`, `ReportsOfTheirVersion`, and the action
properties `TagsEarned` and `AcceptedReportsNeverRegress`. A publish is whole at its
end only because of how far it is known to be at every call, as long as nobody
publishes beside it (`Progress`), because nobody ever puts an example into the other
split (`SplitsKept`), and because versions are only appended. An experiment's lists are
of the version it resolved while the tag has not moved since, which the count of moves
tells (`Listed`, `MovesCounted`). What was measured then stays true of a report in the
file, in the hands of a stopped or running acceptance, and after any later publish
(`Truthful`, of which `FilesKeep` and `CommandsKeep` are made); that its gate passed
makes its version whole. `GateKeepsThresholds` is the arithmetic: what a gate lets
through keeps to the thresholds, in whole numbers, with the rounding down of the
increase. It needs `MaxIncrease` below 100; the code has 15 % and 20 %.

`EvidenceProofs` proves, for all documents, lengths and corpora, every limit, every
ranking, and any number of requests and changes: `TypeCorrect`, `ResultsAddUp`,
`ItemsFromOneCorpus`, `DropsAreReported`, `ProvenanceMerged`, `TokensAddUp` and the
action property `ExpansionsAreCurrent`. Most of it is about loops, in three layers:

* `Recursion` shows that a function defined by recursion on 0..N exists and
  satisfies its equations, and `Steps` carries a property from each of its values to
  the next. Both rest on the library's theorem that `<` is well founded on `Nat`, used
  for a set instead of an operator. `Total` and counting (`CountsAddUp`,
  `CountInto`) are the first functions they are applied to.
* Each loop of the model gets its steps as a lemma (`SelectedRuns`, `RoundRuns`,
  `ContextRuns`, `ExpandedRuns`...) and then its invariant. `Sound(s, D, rs)` is that
  of assembly: the set holds each chunk of `D` once, merged, with the tokens it
  costs, and has raised a flag exactly when one is missing, each of which still does
  not fit. Every `Consider` adds one chunk to `D`; `RoundCountCovers` shows that the
  rounds reach every chunk of every result. `ContextKeeps` is that of a context: the
  tokens added so far are those of the joined text.
* The state invariant says of the request under way that its searches are of the
  sources in order, with candidates of the corpus they report (`AllKeep`), that what a
  snapshot saw is a corpus of the source being searched (`RequestKeeps`), and of the
  Evidence Set that it is `Sound` until it is expanded and accounted for at all times
  (`EvidenceKeeps`). The counts of a result add up because each candidate has the
  source of exactly one search (`OutcomesAddUp`), and an answer of the reranker with
  the length and the elements of the candidates repeats none of them
  (`PermutationReranked`).

Two theorems say of the ranking what no run states, because no run tells their
breach from another valid ranking: `FusionKeepsPreferences` (a chunk that both branches
place before another is fused to a strictly higher score, so that `Scale`, a multiple of
every divisor, loses nothing) and `BestEnterRerank` (what the cut before the rerank
leaves out is behind everything that goes in). The latter rests on `SortedLists`: the
candidates of different sources are of different chunks, and `Ahead` orders them
totally. `ResultsAddUp` (`ResultsConsistent`: totals and statuses of a result against its
sources) is a function of one result and is left to its proof as well.

All seven rest on the named `ASSUME`s of the constants and, where a theorem says
so, on an assumption of its own. The inductive invariants of `Evidence` and `Release`
were checked with TLC on the instances of their runs before they were proved.

## Only model-checked

Liveness (`AcceptedTurnCommits`, `Terminates` twice, `LostEvidenceWithheld`,
`EverySyncEnds`) needs fairness
and ENABLED, which TLAPS does not handle.

## Hazards

`PROJECT.json` lists them with lines and properties. Three have no property, with the
reason: an acceptance that stops between tag and report, a report replaced between a
person's review and `accept`, and two processes that migrate at once.

## Not modelled

* Database access and migrations: every missing migration is applied with its row in
  one transaction or not at all, which is PostgreSQL's own promise. The tables and
  their cascades are in `CorpusSync` and `Evidence`.
* The resolution of a scope from principals, groups and grants: one stateless query;
  its result is `scope`, `readable` or `grants`.
* Observability, the reference fixture, evaluators, aggregation of scores, the live
  target, the local gates and report layout: no state other components depend on.
* Prompts and model outputs beyond the choices the code branches on.
* Resuming a thread for another Principal than the interrupted run's.

## What is left

* Joining `Turn` with `Research` and `Answer` by an `INSTANCE` instead of by their
  contracts. The product is beyond TLC's reach. A refinement needs more than a
  mapping of states: `Turn` lets Evidence be found and the scope move in two steps,
  where in `Research` the scope may move after the expansion and before the end.
* The crash of an acceptance between the tag and the accepted report (the invariant
  of `Release` has no bound on acceptances, so a property about the refusal that
  follows could be proved, but not shown by a run with two of them).
* `AcceptedTurnCommits` with overlapping submissions, once the code rejects a new
  input before it replaces active work.
