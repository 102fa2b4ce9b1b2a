------------------------------- MODULE Release -------------------------------
(***************************************************************************)
(* The release workflow of the golden dataset (evals/run.py and what it    *)
(* calls): publishing a candidate example by example, measuring one exact  *)
(* version of it, and accepting the candidate report, which moves          *)
(* release-v1 and then writes the report later candidates are compared     *)
(* with.  The commands are processes of their own: any may run at the same *)
(* time as another and stop anywhere, and all they share is the dataset    *)
(* with its tag and the two report files.                                  *)
(***************************************************************************)
EXTENDS Integers, Sequences, FiniteSets, SequencesExt, FiniteSetsExt

CONSTANTS Commands,        \* bound: commands that may run at the same time
          Checkouts,       \* revisions of the repository commands are run from;
                           \* any two differ in the inputs of every example
          ReleaseExamples, DiagnosticExamples, \* a sequence of examples each
          Measures,        \* what an experiment can measure: score and cost
          Floor, Ceiling,  \* absolute thresholds of the gate
          MaxRegression, MaxIncrease, \* regression thresholds; the second in %,
                           \* 15 or 20 in the code
          MaxPublishes, MaxExperiments, MaxAcceptances, \* bounds
          None, Damaged    \* no file yet; a file cut short while it was written

ASSUME ReleaseAssumption ==
  /\ ReleaseExamples \in Seq(ToSet(ReleaseExamples))
  /\ DiagnosticExamples \in Seq(ToSet(DiagnosticExamples))
  /\ IsInjective(ReleaseExamples \o DiagnosticExamples)
  /\ Measures \subseteq [score : Nat, cost : Nat]
  /\ {Floor, Ceiling, MaxRegression} \subseteq Nat /\ MaxIncrease \in 0..99
  /\ {MaxPublishes, MaxExperiments, MaxAcceptances} \subseteq Nat

VARIABLES history,  \* every version the dataset had; empty when there is none
          tag,      \* the version release-v1 names, 0 when there is no tag
          files,    \* candidate-report.json and accepted-release-report.json
          command,  \* what each running command is at
          moves,    \* history: how often release-v1 came to name another version
          spent     \* spent bounds

vars == <<history, tag, files, command, moves, spent>>

-----------------------------------------------------------------------------
(* The dataset                                                             *)

GoldenExamples == ReleaseExamples \o DiagnosticExamples
Examples == ToSet(GoldenExamples)
Splits == {"release", "diagnostic"}
SplitOf(e) == IF e \in ToSet(ReleaseExamples) THEN "release" ELSE "diagnostic"

\* An example holds the golden data of the checkout that last wrote it.
Absent == [golden |-> None, split |-> None]
Contents == [Examples -> [golden : Checkouts \cup {None}, split : Splits \cup {None}]]
Nothing == [e \in Examples |-> Absent]

Present(content) == {e \in Examples : content[e].golden # None}

\* list_examples of one split, with the golden data of each example.
InSplit(content, split) ==
  {<<e, content[e].golden>> : e \in {x \in Present(content) : content[x].split = split}}

\* All examples as this checkout has them, each in its split.
Whole(content, checkout) ==
  \A e \in Examples : content[e] = [golden |-> checkout, split |-> SplitOf(e)]

-----------------------------------------------------------------------------
(* Scorecards and the gate                                                 *)

\* _relative_increase, in percent and rounded up, for whole thresholds.
RelativeIncrease(candidate, baseline) ==
  IF candidate <= baseline THEN 0
  ELSE IF baseline = 0 THEN 100
  ELSE ((candidate - baseline) * 100 + baseline - 1) \div baseline

\* Variant: a better score is a negative regression.
RegressionSigned(candidate, baseline) == baseline - candidate

Regression(candidate, baseline) == Max({0, baseline - candidate})

\* Variant: the roles are exchanged.
CompareExchanged(candidate, baseline) ==
  [regression |-> Regression(baseline.score, candidate.score),
   increase |-> RelativeIncrease(baseline.cost, candidate.cost)]

CompareScorecards(candidate, baseline) ==
  [regression |-> Regression(candidate.score, baseline.score),
   increase |-> RelativeIncrease(candidate.cost, baseline.cost)]

BaselineValid(card) ==
  IF card.initial
    THEN card.comparison = None
    ELSE /\ card.comparison # None
         /\ card.comparison.regression <= MaxRegression
         /\ card.comparison.increase <= MaxIncrease

\* Variant: examples that could not be run are not counted.
GateIgnoringErrors(card, human) ==
  /\ human
  /\ card.count = Len(ReleaseExamples)
  /\ card.score >= Floor /\ card.cost <= Ceiling
  /\ BaselineValid(card)

\* gate_release
Gate(card, human) ==
  /\ human
  /\ card.count = Len(ReleaseExamples) /\ card.errors = 0
  /\ card.score >= Floor /\ card.cost <= Ceiling
  /\ BaselineValid(card)

\* validate_target_command: an example that differs from the golden data of the
\* checkout that measures it is an error of its run.
Errors(examples, checkout) == {x \in examples : x[2] # checkout}

-----------------------------------------------------------------------------
(* Reports and commands                                                    *)

\* baseline: the scorecard it was compared with; late: the tag moved between its
\* experiment's look at it and the listing of the last examples.
Report(c, card, diagnostic) ==
  [status |-> "pending", version |-> c.version, card |-> card,
   diagnostic |-> diagnostic, gate |-> Gate(card, FALSE), checkout |-> c.checkout,
   measured |-> c.release \cup c.diagnostic, baseline |-> c.baseline,
   late |-> c.late]

IsReport(file) == file \notin {None, Damaged}

Idle == [phase |-> "idle"]

Counts == 0..Len(GoldenExamples)
Comparisons == [regression : Nat, increase : Nat]
Cards ==
  [initial : BOOLEAN, count : Counts, errors : Counts, score : Nat, cost : Nat,
   comparison : Comparisons \cup {None}]
\* What a version holds in one split, as InSplit has it.
Listings ==
  {listing \in SUBSET (Examples \X Checkouts) : \A x, y \in listing : x[1] = y[1] => x = y}
Reports ==
  [status : {"pending", "approved"}, version : DOMAIN history, card : Cards,
   diagnostic : BOOLEAN, gate : BOOLEAN, checkout : Checkouts, measured : SUBSET (Examples \X Checkouts),
   baseline : Cards \cup {None}, late : BOOLEAN]

\* What a running publish, experiment or accept holds in memory.
PublishStates ==
  [phase : {"existing", "update", "release", "diagnostic", "latest", "published"},
   checkout : Checkouts, alone : BOOLEAN, existing : SUBSET Examples, done : Counts,
   version : 0..Len(history)]
ExperimentStates ==
  [phase : {"resolve", "list", "list_diagnostic", "evaluate"}, checkout : Checkouts,
   version : DOMAIN history, baseline : Cards \cup {None},
   release : Listings, diagnostic : Listings, seen : Nat, late : BOOLEAN]
AcceptStates == [phase : {"tag", "record"}, report : Reports]

ASSUME NoneAssumption == None \notin Checkouts \cup Splits \cup Comparisons \cup Cards

TypeOK ==
  /\ history \in Seq(Contents)
  /\ tag \in 0..Len(history)
  /\ files \in [{"candidate", "accepted"} -> Reports \cup {None, Damaged}]
  /\ command \in [Commands -> {Idle} \cup PublishStates \cup ExperimentStates \cup AcceptStates]
  /\ moves \in 0..MaxAcceptances
  /\ spent \in [publish : 0..MaxPublishes, experiment : 0..MaxExperiments,
                accept : 0..MaxAcceptances]

Init ==
  /\ history = <<>> /\ tag = 0
  /\ files = [name \in {"candidate", "accepted"} |-> None]
  /\ command = [c \in Commands |-> Idle]
  /\ moves = 0
  /\ spent = [publish |-> 0, experiment |-> 0, accept |-> 0]

Begin(c, kind, bound, state) ==
  /\ command[c] = Idle
  /\ spent[kind] < bound
  /\ spent' = [spent EXCEPT ![kind] = @ + 1]
  /\ command' = [command EXCEPT ![c] = state]

Becomes(c, state) ==
  /\ command' = [command EXCEPT ![c] = state]
  /\ UNCHANGED spent

-----------------------------------------------------------------------------
(* publish: publish_golden_candidate                                       *)

Publishing(c) ==
  command[c].phase \in {"existing", "update", "release", "diagnostic", "latest"}

\* alone: no other publish has run since this one started.
StartPublish(c, checkout) ==
  /\ LET alone == \A d \in Commands : ~Publishing(d)
     IN /\ command[c] = Idle
        /\ spent.publish < MaxPublishes
        /\ spent' = [spent EXCEPT !.publish = @ + 1]
        /\ command' = [d \in Commands |->
             IF d = c THEN [phase |-> "existing", checkout |-> checkout, alone |-> alone,
                            existing |-> {}, done |-> 0, version |-> 0]
             ELSE IF Publishing(d) THEN [command[d] EXCEPT !.alone = FALSE]
             ELSE command[d]]
  /\ UNCHANGED <<history, tag, files, moves>>

Append1(content) == history' = Append(history, content)

\* The dataset is created, or the examples it already holds are listed.
ListExisting(c) ==
  /\ command[c].phase = "existing"
  /\ IF history = <<>>
       THEN /\ Append1(Nothing)
            /\ Becomes(c, [command[c] EXCEPT !.phase = "update"])
       ELSE /\ Becomes(c, [command[c] EXCEPT !.phase = "update",
                                             !.existing = Present(Last(history))])
            /\ UNCHANGED history
  /\ UNCHANGED <<tag, files, moves>>

\* Variant: an example that is there is left as it is.
UpdatedNever(content, e, checkout) == content

Updated(content, e, checkout) == [content EXCEPT ![e].golden = checkout]

\* The examples that exist are updated one by one, each a version of its own.
UpdateExample(c) ==
  /\ command[c].phase = "update" /\ command[c].done < Len(GoldenExamples)
  /\ LET e == GoldenExamples[command[c].done + 1]
     IN IF e \in command[c].existing
          THEN Append1(Updated(Last(history), e, command[c].checkout))
          ELSE UNCHANGED history
  /\ Becomes(c, [command[c] EXCEPT !.done = @ + 1])
  /\ UNCHANGED <<tag, files, moves>>

\* Those that do not are created together, which is refused when one of them
\* exists by now.
CreateExamples(c) ==
  /\ command[c].phase = "update" /\ command[c].done = Len(GoldenExamples)
  /\ LET new == Examples \ command[c].existing
     IN /\ new \cap Present(Last(history)) = {}
        /\ IF new = {} THEN UNCHANGED history
           ELSE Append1([e \in Examples |->
                  IF e \in new THEN [golden |-> command[c].checkout, split |-> None]
                               ELSE Last(history)[e]])
  /\ Becomes(c, [command[c] EXCEPT !.phase = "release"])
  /\ UNCHANGED <<tag, files, moves>>

AssignSplit(c, split, next) ==
  /\ command[c].phase = split
  /\ Append1([e \in Examples |->
       IF SplitOf(e) = split /\ e \in Present(Last(history))
         THEN [Last(history)[e] EXCEPT !.split = split] ELSE Last(history)[e]])
  /\ Becomes(c, [command[c] EXCEPT !.phase = next])
  /\ UNCHANGED <<tag, files, moves>>

AssignReleaseSplit(c) == AssignSplit(c, "release", "diagnostic")
AssignDiagnosticSplit(c) == AssignSplit(c, "diagnostic", "latest")

\* The answer is the latest version there is.
ReturnLatest(c) ==
  /\ command[c].phase = "latest"
  /\ Becomes(c, [command[c] EXCEPT !.phase = "published", !.version = Len(history)])
  /\ UNCHANGED <<history, tag, files, moves>>

-----------------------------------------------------------------------------
(* experiment: _run_experiment                                             *)

\* _read_baseline
BaselineAccepted(file, version) ==
  /\ IsReport(file)
  /\ file.status = "approved" /\ file.version = version /\ file.gate

\* One exact version, as an initial release or against a baseline report.  Bound:
\* it is the latest when the command is given, or the tagged one.
StartExperiment(c, checkout, version, initial, name) ==
  /\ version \in {Len(history), tag}
  /\ initial \/ BaselineAccepted(files[name], version)
  /\ Begin(c, "experiment", MaxExperiments,
       [phase |-> "resolve", checkout |-> checkout, version |-> version,
        baseline |-> IF initial THEN None ELSE files[name].card,
        release |-> {}, diagnostic |-> {}, seen |-> 0, late |-> FALSE])
  /\ UNCHANGED <<history, tag, files, moves>>

Initial(c) == command[c].baseline = None

\* _require_current_release_tag, when there is a baseline.
ResolveVersion(c) ==
  /\ command[c].phase = "resolve"
  /\ Initial(c) \/ tag = command[c].version
  /\ Becomes(c, [command[c] EXCEPT !.phase = "list", !.seen = moves])
  /\ UNCHANGED <<history, tag, files, moves>>

\* Variant: whatever the dataset holds now.
ExamplesLatest(c) == Last(history)

\* examples_as_of: the exact version, or with a baseline the tag, by name.
ExamplesAsOf(c) == IF Initial(c) THEN history[command[c].version] ELSE history[tag]

ListReleaseExamples(c) ==
  /\ command[c].phase = "list"
  /\ Becomes(c, [command[c] EXCEPT !.phase = "list_diagnostic",
                                   !.release = InSplit(ExamplesAsOf(c), "release")])
  /\ UNCHANGED <<history, tag, files, moves>>

ListDiagnosticExamples(c) ==
  /\ command[c].phase = "list_diagnostic"
  /\ Becomes(c, [command[c] EXCEPT !.phase = "evaluate",
                                   !.diagnostic = InSplit(ExamplesAsOf(c), "diagnostic"),
                                   !.late = moves # command[c].seen])
  /\ UNCHANGED <<history, tag, files, moves>>

\* build_release_scorecard, with the comparison.
Scorecard(c, measure) ==
  LET card == [initial |-> Initial(c), count |-> Cardinality(command[c].release),
               errors |-> Cardinality(Errors(command[c].release, command[c].checkout)),
               score |-> measure.score, cost |-> measure.cost, comparison |-> None]
  IN IF Initial(c) THEN card
     ELSE [card EXCEPT !.comparison = CompareScorecards(card, command[c].baseline)]

\* build_diagnostic_report: can pass only when all its runs could be run.
DiagnosticPassed(c, passed) ==
  /\ passed
  /\ Cardinality(command[c].diagnostic) = Len(DiagnosticExamples)
  /\ Errors(command[c].diagnostic, command[c].checkout) = {}

Write(name, report) == files' = [files EXCEPT ![name] = report]

Evaluate(c, measure, passed) ==
  /\ command[c].phase = "evaluate"
  /\ Write("candidate", Report(command[c], Scorecard(c, measure),
                               DiagnosticPassed(c, passed)))
  /\ Becomes(c, Idle)
  /\ UNCHANGED <<history, tag, moves>>

-----------------------------------------------------------------------------
(* accept: _accept_candidate                                               *)

\* Human approval is given by running the command at all.
StartAccept(c, name) ==
  /\ IsReport(files[name])
  /\ files[name].status = "pending" /\ files[name].diagnostic
  /\ Gate(files[name].card, TRUE)
  /\ Begin(c, "accept", MaxAcceptances, [phase |-> "tag", report |-> files[name]])
  /\ UNCHANGED <<history, tag, files, moves>>

MoveTag(c) ==
  /\ command[c].phase = "tag"
  /\ tag' = command[c].report.version
  /\ moves' = IF tag' = tag THEN moves ELSE moves + 1
  /\ Becomes(c, [command[c] EXCEPT !.phase = "record"])
  /\ UNCHANGED <<history, files>>

WriteAccepted(c) ==
  /\ command[c].phase = "record"
  /\ Write("accepted", [command[c].report EXCEPT !.status = "approved",
                          !.gate = Gate(command[c].report.card, TRUE)])
  /\ Becomes(c, Idle)
  /\ UNCHANGED <<history, tag, moves>>

-----------------------------------------------------------------------------
\* Any command stops between two calls, raises, or has ended.
Stop(c) ==
  /\ command[c] # Idle
  /\ Becomes(c, Idle)
  /\ UNCHANGED <<history, tag, files, moves>>

\* write_text replaces the file in place.
StopWhileWriting(c) ==
  /\ \/ command[c].phase = "evaluate" /\ Write("candidate", Damaged)
     \/ command[c].phase = "record" /\ Write("accepted", Damaged)
  /\ Becomes(c, Idle)
  /\ UNCHANGED <<history, tag, moves>>

Publish(c) ==
  \/ \E checkout \in Checkouts : StartPublish(c, checkout)
  \/ ListExisting(c) \/ UpdateExample(c) \/ CreateExamples(c)
  \/ AssignReleaseSplit(c) \/ AssignDiagnosticSplit(c) \/ ReturnLatest(c)

Experiment(c) ==
  \/ \E checkout \in Checkouts, version \in DOMAIN history, initial \in BOOLEAN,
        name \in DOMAIN files : StartExperiment(c, checkout, version, initial, name)
  \/ ResolveVersion(c) \/ ListReleaseExamples(c) \/ ListDiagnosticExamples(c)
  \/ \E measure \in Measures, passed \in BOOLEAN : Evaluate(c, measure, passed)

Accept(c) ==
  \/ \E name \in DOMAIN files : StartAccept(c, name)
  \/ MoveTag(c) \/ WriteAccepted(c)

Next ==
  \E c \in Commands :
    Publish(c) \/ Experiment(c) \/ Accept(c) \/ Stop(c) \/ StopWhileWriting(c)

Spec == Init /\ [][Next]_vars

-----------------------------------------------------------------------------
(* Properties                                                              *)

\* A publish that nobody else published beside returns a version that holds all
\* its golden data in its splits, wherever earlier ones stopped half-way.
PublishedWhole ==
  \A c \in Commands :
    command[c].phase = "published" /\ command[c].alone
      => Whole(history[command[c].version], command[c].checkout)

\* A report was measured on the examples of the version it names, both splits,
\* whatever was published meanwhile: only a release-v1 that is moved between an
\* experiment's look at it and its reading of the examples can part them.
ReportOfItsVersion ==
  \A name \in DOMAIN files :
    IsReport(files[name]) /\ ~files[name].late =>
      files[name].measured
        = UNION {InSplit(history[files[name].version], split) : split \in Splits}

\* This command moves release-v1 to another version.
Tags(c) ==
  command[c].phase = "tag" /\ command'[c].phase = "record" /\ tag' # tag

\* release-v1 comes to name only versions that hold, whole and in their splits,
\* the golden data of the checkout that measured them: never what a stopped
\* publish left, or a mixture of two.  Reports that are late (the tag moved
\* between the experiment's look at it and its reading of the examples) may
\* have measured another version than they name, and are left out.
TagEarned ==
  [][\A c \in Commands :
       (Tags(c) /\ ~command[c].report.late) =>
         Whole(history[tag'], command[c].report.checkout)]_vars

\* What replaces the accepted report it was compared with is no worse than the
\* thresholds allow, through files, gate and acceptance.
AcceptedNeverRegresses ==
  [][LET old == files.accepted
         new == files'.accepted
     IN (old # new /\ IsReport(old) /\ IsReport(new) /\ new.baseline = old.card) =>
          /\ new.card.score + MaxRegression >= old.card.score
          /\ new.card.cost * 100 <= old.card.cost * (100 + MaxIncrease)]_vars
=============================================================================
