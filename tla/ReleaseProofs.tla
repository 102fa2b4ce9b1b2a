---------------------------- MODULE ReleaseProofs ----------------------------
(***************************************************************************)
(* Theorems about Release, for every dataset, every set of commands and    *)
(* checkouts, all thresholds and any number of publishes, experiments and  *)
(* acceptances: what a publish returns is whole, what a report says was    *)
(* measured on its version, release-v1 is earned, and no accepted report   *)
(* is worse than its baseline allows.                                      *)
(***************************************************************************)
EXTENDS Release, FiniteSetTheorems, SequenceTheorems, TLAPS

-----------------------------------------------------------------------------
(* The inductive invariant                                                 *)

Begun(c) == Publishing(c) /\ command[c].phase # "existing"

\* How far a publish is that nobody publishes beside.
Progress(c) ==
  LET s == command[c]
      now == Last(history)
  IN /\ \A d \in Commands \ {c} : ~Publishing(d)
     /\ s.phase = "update" =>
          /\ Present(now) = s.existing
          /\ \A i \in 1..s.done :
               GoldenExamples[i] \in s.existing => now[GoldenExamples[i]].golden = s.checkout
     /\ s.phase \in {"release", "diagnostic", "latest"} =>
          \A e \in Examples : now[e].golden = s.checkout
     /\ s.phase \in {"diagnostic", "latest"} =>
          \A e \in ToSet(ReleaseExamples) : now[e].split = "release"
     /\ s.phase = "latest" =>
          \A e \in ToSet(DiagnosticExamples) : now[e].split = "diagnostic"

PublishKeeps(c) ==
  /\ Begun(c) => history # <<>>
  /\ command[c].phase = "existing" => command[c].done = 0 /\ command[c].existing = {}
  /\ Publishing(c) /\ command[c].alone => Progress(c)
  /\ command[c].phase = "published" =>
       /\ command[c].version \in DOMAIN history
       /\ command[c].alone => Whole(history[command[c].version], command[c].checkout)

\* Nobody puts an example into the other split.
SplitsKept ==
  \A v \in DOMAIN history : \A e \in Examples : history[v][e].split \in {None, SplitOf(e)}

\* What an experiment has listed is of its version, unless the tag moved.
Listed(c) ==
  LET s == command[c]
      version == history[s.version]
  IN /\ s.seen <= moves
     /\ ~Initial(c) => tag \in DOMAIN history
     /\ ~Initial(c) /\ s.phase # "evaluate" /\ s.seen = moves => tag = s.version
     /\ s.phase = "list_diagnostic" /\ (Initial(c) \/ s.seen = moves) =>
          s.release = InSplit(version, "release")
     /\ s.phase = "evaluate" /\ ~s.late =>
          /\ s.release = InSplit(version, "release")
          /\ s.diagnostic = InSplit(version, "diagnostic")

ExperimentKeeps(c) ==
  command[c].phase \in {"list", "list_diagnostic", "evaluate"} => Listed(c)

\* A report speaks of its version, and passes the gate only if that is whole.
Truthful(r) ==
  /\ r.card.initial = (r.baseline = None)
  /\ r.baseline # None => r.card.comparison = CompareScorecards(r.card, r.baseline)
  /\ ~r.late =>
       r.measured = UNION {InSplit(history[r.version], split) : split \in Splits}
  /\ ~r.late /\ r.diagnostic /\ Gate(r.card, TRUE) =>
       Whole(history[r.version], r.checkout)

AcceptKeeps(c) ==
  command[c].phase \in {"tag", "record"} =>
    LET r == command[c].report
    IN Truthful(r) /\ r.diagnostic /\ Gate(r.card, TRUE)

CommandsKeep ==
  \A c \in Commands : PublishKeeps(c) /\ ExperimentKeeps(c) /\ AcceptKeeps(c)

FilesKeep == \A name \in DOMAIN files : IsReport(files[name]) => Truthful(files[name])

\* Every move of the tag is one of an acceptance that was begun.
Tagging == {c \in Commands : command[c].phase = "tag"}
MovesCounted == IsFiniteSet(Tagging) /\ moves + Cardinality(Tagging) <= spent.accept

IInv == TypeOK /\ SplitsKept /\ CommandsKeep /\ FilesKeep /\ MovesCounted

-----------------------------------------------------------------------------
(* The dataset                                                             *)

\* A sequence without repetitions has as many elements as places.
LEMMA ElementsCounted ==
  ASSUME NEW S, NEW s \in Seq(S), IsInjective(s)
  PROVE  /\ IsFiniteSet(ToSet(s))
         /\ Cardinality(ToSet(s)) = Len(s)
<1>1. s \in Bijection(1..Len(s), ToSet(s))
  BY DEF Bijection, Injection, Surjection, IsInjective, ToSet
<1>2. IsFiniteSet(1..Len(s)) /\ Cardinality(1..Len(s)) = Len(s)
  <2>1. Len(s) \in Nat
    BY LenProperties
  <2> QED
    BY <2>1, FS_Interval
<1> QED
  BY <1>1, <1>2, FS_Bijection DEF ExistsBijection

\* The examples are those of the two splits, which share none.
LEMMA ExamplesFacts ==
  /\ GoldenExamples \in Seq(Examples)
  /\ Len(GoldenExamples) = Len(ReleaseExamples) + Len(DiagnosticExamples)
  /\ Examples = ToSet(ReleaseExamples) \cup ToSet(DiagnosticExamples)
  /\ ToSet(ReleaseExamples) \cap ToSet(DiagnosticExamples) = {}
  /\ IsFiniteSet(Examples) /\ Cardinality(Examples) = Len(GoldenExamples)
  /\ IsFiniteSet(ToSet(ReleaseExamples))
  /\ Cardinality(ToSet(ReleaseExamples)) = Len(ReleaseExamples)
  /\ IsFiniteSet(ToSet(DiagnosticExamples))
  /\ Cardinality(ToSet(DiagnosticExamples)) = Len(DiagnosticExamples)
<1> DEFINE R == ReleaseExamples
           D == DiagnosticExamples
           S == ToSet(R) \cup ToSet(D)
<1>1. R \in Seq(S) /\ D \in Seq(S)
  BY ReleaseAssumption, SeqMonotonic
<1> HIDE DEF S
<1>0. Len(R) \in Nat /\ Len(D) \in Nat
  BY <1>1, LenProperties
<1>2. /\ GoldenExamples \in Seq(S)
      /\ Len(GoldenExamples) = Len(R) + Len(D)
      /\ \A i \in 1..(Len(R) + Len(D)) :
           GoldenExamples[i] = IF i <= Len(R) THEN R[i] ELSE D[i - Len(R)]
  BY <1>1, ConcatProperties DEF GoldenExamples
<1>3. \A i, j \in 1..(Len(R) + Len(D)) : GoldenExamples[i] = GoldenExamples[j] => i = j
  <2>1. IsInjective(GoldenExamples)
    BY ReleaseAssumption DEF GoldenExamples
  <2> QED
    BY <1>2, <2>1, LenProperties DEF IsInjective
<1>4. \A i \in 1..Len(R) : GoldenExamples[i] = R[i]
  BY <1>1, <1>2
<1>5. \A i \in 1..Len(D) : Len(R) + i \in 1..Len(GoldenExamples) /\ GoldenExamples[Len(R) + i] = D[i]
  <2> SUFFICES ASSUME NEW i \in 1..Len(D)
               PROVE  Len(R) + i \in 1..Len(GoldenExamples) /\ GoldenExamples[Len(R) + i] = D[i]
    OBVIOUS
  <2>1. Len(R) + i \in 1..(Len(R) + Len(D)) /\ ~(Len(R) + i <= Len(R)) /\ (Len(R) + i) - Len(R) = i
    BY <1>0
  <2> QED
    BY <1>2, <2>1
<1>6. Examples = S
  <2>1. ASSUME NEW e \in Examples PROVE e \in S
    BY <1>2, <2>1 DEF Examples, ToSet
  <2>2. ASSUME NEW e \in ToSet(R) PROVE e \in Examples
    <3>1. PICK i \in 1..Len(R) : e = R[i]
      BY <1>1 DEF ToSet
    <3>2. i \in DOMAIN GoldenExamples
      BY <1>0, <1>2, LenProperties
    <3> QED
      BY <1>4, <3>1, <3>2 DEF Examples, ToSet
  <2>3. ASSUME NEW e \in ToSet(D) PROVE e \in Examples
    <3>1. PICK i \in 1..Len(D) : e = D[i]
      BY <1>1 DEF ToSet
    <3>2. Len(R) + i \in DOMAIN GoldenExamples
      BY <1>2, <1>5, LenProperties
    <3> QED
      BY <1>5, <3>1, <3>2 DEF Examples, ToSet
  <2> QED
    BY <2>1, <2>2, <2>3 DEF S
<1>7. ToSet(R) \cap ToSet(D) = {}
  <2> SUFFICES ASSUME NEW e \in ToSet(R), e \in ToSet(D) PROVE FALSE
    OBVIOUS
  <2>1. PICK i \in 1..Len(R) : e = R[i]
    BY <1>1 DEF ToSet
  <2>2. PICK j \in 1..Len(D) : e = D[j]
    BY <1>1 DEF ToSet
  <2>3. GoldenExamples[i] = GoldenExamples[Len(R) + j]
    BY <1>4, <1>5, <2>1, <2>2
  <2>4. i = Len(R) + j
    BY <1>0, <1>3, <2>3
  <2> QED
    BY <1>0, <2>4
<1>8. IsInjective(R)
  <2> SUFFICES ASSUME NEW i \in 1..Len(R), NEW j \in 1..Len(R), R[i] = R[j] PROVE i = j
    BY <1>1 DEF IsInjective
  <2> QED
    BY <1>0, <1>3, <1>4
<1>9. IsInjective(D)
  <2> SUFFICES ASSUME NEW i \in 1..Len(D), NEW j \in 1..Len(D), D[i] = D[j] PROVE i = j
    BY <1>1 DEF IsInjective
  <2>1. GoldenExamples[Len(R) + i] = GoldenExamples[Len(R) + j]
    BY <1>5
  <2>2. Len(R) + i = Len(R) + j
    BY <1>0, <1>3, <2>1
  <2> QED
    BY <1>0, <2>2
<1>10. IsInjective(GoldenExamples)
  BY ReleaseAssumption DEF GoldenExamples
<1>11. GoldenExamples \in Seq(Examples)
  BY <1>2, <1>6
<1>12. IsFiniteSet(Examples) /\ Cardinality(Examples) = Len(GoldenExamples)
  BY <1>10, <1>11, ElementsCounted DEF Examples
<1>13. /\ IsFiniteSet(ToSet(R)) /\ Cardinality(ToSet(R)) = Len(R)
       /\ IsFiniteSet(ToSet(D)) /\ Cardinality(ToSet(D)) = Len(D)
  BY <1>1, <1>8, <1>9, ElementsCounted
<1> QED
  BY <1>2, <1>6, <1>7, <1>11, <1>12, <1>13 DEF S

\* A listing has one entry for every example the version holds in that split.
LEMMA ListingCounted ==
  ASSUME NEW content \in Contents, NEW split \in Splits
  PROVE  LET held == {e \in Present(content) : content[e].split = split}
         IN /\ IsFiniteSet(held) /\ IsFiniteSet(InSplit(content, split))
            /\ Cardinality(InSplit(content, split)) = Cardinality(held)
            /\ InSplit(content, split) \in Listings
<1> DEFINE held == {e \in Present(content) : content[e].split = split}
           f == [e \in held |-> <<e, content[e].golden>>]
<1>1. held \subseteq Examples
  BY DEF Present
<1>2. IsFiniteSet(held)
  BY <1>1, ExamplesFacts, FS_Subset
<1>3. f \in Bijection(held, InSplit(content, split))
  BY DEF Bijection, Injection, Surjection, IsInjective, InSplit
<1>4. InSplit(content, split) \in Listings
  BY NoneAssumption DEF InSplit, Listings, Contents, Present
<1> QED
  BY <1>2, <1>3, <1>4, FS_Bijection DEF ExistsBijection

\* A listing has at most as many entries as there are examples.
LEMMA ListingFinite ==
  ASSUME NEW listing \in Listings, NEW checkout
  PROVE  /\ Cardinality(listing) \in Counts
         /\ IsFiniteSet(Errors(listing, checkout))
         /\ Cardinality(Errors(listing, checkout)) \in Counts
<1> DEFINE f == [x \in listing |-> x[1]]
<1>1. f \in Injection(listing, Examples)
  BY DEF Listings, Injection, IsInjective
<1>2. IsFiniteSet(listing) /\ Cardinality(listing) <= Cardinality(Examples)
  BY <1>1, ExamplesFacts, FS_Injection
<1>3. Errors(listing, checkout) \in SUBSET listing
  BY DEF Errors
<1>4. IsFiniteSet(Errors(listing, checkout))
        /\ Cardinality(Errors(listing, checkout)) <= Cardinality(listing)
  BY <1>2, <1>3, FS_Subset
<1>5. /\ Cardinality(listing) \in Nat /\ Cardinality(Errors(listing, checkout)) \in Nat
      /\ Cardinality(Examples) \in Nat /\ Cardinality(Examples) = Len(GoldenExamples)
  BY <1>2, <1>4, ExamplesFacts, FS_CardinalityType
<1> QED
  BY <1>2, <1>4, <1>5 DEF Counts

\* A version of which as many examples of each split as there are were run
\* without error is whole, provided that no example is in the other split.
LEMMA CountedIsWhole ==
  ASSUME NEW content \in Contents, NEW checkout \in Checkouts,
         \A e \in Examples : content[e].split \in {None, SplitOf(e)},
         Cardinality(InSplit(content, "release")) = Len(ReleaseExamples),
         Cardinality(InSplit(content, "diagnostic")) = Len(DiagnosticExamples),
         Errors(InSplit(content, "release"), checkout) = {},
         Errors(InSplit(content, "diagnostic"), checkout) = {}
  PROVE  Whole(content, checkout)
<1> DEFINE held(split) == {e \in Present(content) : content[e].split = split}
<1>1. "release" \in Splits /\ "diagnostic" \in Splits /\ None \notin Splits
  BY NoneAssumption DEF Splits
<1>2. ASSUME NEW split \in Splits, NEW e \in held(split)
      PROVE  content[e].golden = checkout /\ SplitOf(e) = split
  <2>1. e \in Examples
    BY <1>2 DEF Present
  <2>2. SplitOf(e) = split
    BY <1>1, <1>2, <2>1
  <2>3. <<e, content[e].golden>> \in InSplit(content, split)
    BY <1>2 DEF InSplit
  <2>4. Errors(InSplit(content, split), checkout) = {}
    BY DEF Splits
  <2> QED
    BY <2>2, <2>3, <2>4 DEF Errors
<1>3. held("release") \subseteq ToSet(ReleaseExamples)
  BY <1>1, <1>2 DEF SplitOf
<1>4. held("diagnostic") \subseteq ToSet(DiagnosticExamples)
  <2> SUFFICES ASSUME NEW e \in held("diagnostic") PROVE e \in ToSet(DiagnosticExamples)
    OBVIOUS
  <2>1. e \in Examples /\ SplitOf(e) = "diagnostic"
    BY <1>1, <1>2 DEF Present
  <2> QED
    BY <2>1, ExamplesFacts DEF SplitOf
<1>5. held("release") = ToSet(ReleaseExamples)
  <2>1. Cardinality(held("release")) = Len(ReleaseExamples)
    BY <1>1, ListingCounted
  <2>2. held("release") \in SUBSET ToSet(ReleaseExamples)
    BY <1>3
  <2> HIDE DEF held
  <2> QED
    BY <2>1, <2>2, ExamplesFacts, FS_Subset
<1>6. held("diagnostic") = ToSet(DiagnosticExamples)
  <2>1. Cardinality(held("diagnostic")) = Len(DiagnosticExamples)
    BY <1>1, ListingCounted
  <2>2. held("diagnostic") \in SUBSET ToSet(DiagnosticExamples)
    BY <1>4
  <2> HIDE DEF held
  <2> QED
    BY <2>1, <2>2, ExamplesFacts, FS_Subset
<1> SUFFICES ASSUME NEW e \in Examples
             PROVE  content[e] = [golden |-> checkout, split |-> SplitOf(e)]
  BY DEF Whole
<1>7. PICK split \in Splits : e \in held(split)
  BY <1>1, <1>5, <1>6, ExamplesFacts
<1>8. content[e].golden = checkout /\ content[e].split = SplitOf(e)
  BY <1>2, <1>7
<1> QED
  BY <1>8 DEF Contents

-----------------------------------------------------------------------------
(* Scorecards and the gate                                                 *)

\* A regression is how much worse a score is, and 0 when it is no worse.
LEMMA RegressionValue ==
  ASSUME NEW candidate \in Nat, NEW baseline \in Nat
  PROVE  /\ Regression(candidate, baseline) \in Nat
         /\ candidate + Regression(candidate, baseline) >= baseline
<1> DEFINE d == baseline - candidate
           m == IF d > 0 THEN d ELSE 0
<1>1. m \in {0, d} /\ \A y \in {0, d} : m >= y
  OBVIOUS
<1>2. \A x \in {0, d} : (\A y \in {0, d} : x >= y) => x = m
  BY <1>1
<1>3. Max({0, d}) = m
  BY <1>1, <1>2 DEF Max
<1> QED
  BY <1>3 DEF Regression

\* A percentage that is rounded up is at least the increase.
LEMMA IncreaseRoundsUp ==
  ASSUME NEW a \in Nat, NEW b \in Nat \ {0}
  PROVE  /\ (a + b - 1) \div b \in Nat
         /\ a <= b * ((a + b - 1) \div b)
<1> DEFINE q == (a + b - 1) \div b
           r == (a + b - 1) % b
<1>1. a + b - 1 \in Nat
  OBVIOUS
<1>2. q \in Nat /\ r \in 0..(b - 1) /\ a + b - 1 = b * q + r
  BY <1>1
<1>3. b * q \in Nat
  BY <1>2
<1> HIDE DEF q, r
<1> QED
  BY <1>2, <1>3 DEF q

\* What costs no more than the threshold allows costs so much at most.
LEMMA IncreaseBounds ==
  ASSUME NEW candidate \in Nat, NEW baseline \in Nat
  PROVE  /\ RelativeIncrease(candidate, baseline) \in Nat
         /\ RelativeIncrease(candidate, baseline) <= MaxIncrease =>
              candidate * 100 <= baseline * (100 + MaxIncrease)
<1>0. MaxIncrease \in Nat /\ MaxIncrease < 100
  BY ReleaseAssumption
<1>1. CASE candidate <= baseline
  <2>1. baseline * MaxIncrease \in Nat
    BY <1>0
  <2>2. baseline * (100 + MaxIncrease) = baseline * 100 + baseline * MaxIncrease
    BY <1>0
  <2> QED
    BY <1>1, <2>1, <2>2 DEF RelativeIncrease
<1>2. CASE ~(candidate <= baseline) /\ baseline = 0
  BY <1>0, <1>2 DEF RelativeIncrease
<1>3. CASE ~(candidate <= baseline) /\ baseline # 0
  <2> DEFINE a == (candidate - baseline) * 100
             q == (a + baseline - 1) \div baseline
  <2>1. a \in Nat /\ candidate * 100 = baseline * 100 + a
    BY <1>3
  <2> HIDE DEF a
  <2>2. q \in Nat /\ a <= baseline * q
    BY <1>3, <2>1, IncreaseRoundsUp
  <2>3. RelativeIncrease(candidate, baseline) = q
    BY <1>3 DEF RelativeIncrease, a
  <2> HIDE DEF q
  <2>4. ASSUME q <= MaxIncrease PROVE baseline * q <= baseline * MaxIncrease
    BY <1>0, <2>2, <2>4
  <2>5. baseline * (100 + MaxIncrease) = baseline * 100 + baseline * MaxIncrease
    BY <1>0
  <2>6. baseline * q \in Nat /\ baseline * MaxIncrease \in Nat /\ baseline * 100 \in Nat
    BY <1>0, <2>2
  <2> QED
    BY <2>1, <2>2, <2>3, <2>4, <2>5, <2>6
<1> QED
  BY <1>1, <1>2, <1>3

\* The comparison of two scorecards is of its type.
LEMMA ComparisonTyped ==
  ASSUME NEW candidate, NEW baseline,
         candidate.score \in Nat, candidate.cost \in Nat,
         baseline.score \in Nat, baseline.cost \in Nat
  PROVE  CompareScorecards(candidate, baseline) \in Comparisons
BY RegressionValue, IncreaseBounds DEF CompareScorecards, Comparisons

\* A scorecard that passes the gate against a baseline keeps to the thresholds.
LEMMA GateKeepsThresholds ==
  ASSUME NEW card \in Cards, NEW baseline \in Cards,
         ~card.initial, card.comparison = CompareScorecards(card, baseline),
         Gate(card, TRUE)
  PROVE  /\ card.score + MaxRegression >= baseline.score
         /\ card.cost * 100 <= baseline.cost * (100 + MaxIncrease)
<1>1. /\ Regression(card.score, baseline.score) <= MaxRegression
      /\ RelativeIncrease(card.cost, baseline.cost) <= MaxIncrease
  BY DEF Gate, BaselineValid, CompareScorecards
<1>2. {card.score, card.cost, baseline.score, baseline.cost} \subseteq Nat
  BY DEF Cards
<1>3. MaxRegression \in Nat
  BY ReleaseAssumption
<1>4. /\ Regression(card.score, baseline.score) \in Nat
      /\ card.score + Regression(card.score, baseline.score) >= baseline.score
  BY <1>2, RegressionValue
<1>5. card.score + MaxRegression >= baseline.score
  BY <1>1, <1>2, <1>3, <1>4
<1> QED
  BY <1>1, <1>2, <1>5, IncreaseBounds

-----------------------------------------------------------------------------
(* Types                                                                   *)

\* The phase of a command tells what it holds in memory.
LEMMA PhaseTyped ==
  ASSUME TypeOK, NEW c \in Commands
  PROVE  /\ Publishing(c) \/ command[c].phase = "published" => command[c] \in PublishStates
         /\ command[c].phase \in {"resolve", "list", "list_diagnostic", "evaluate"} =>
              command[c] \in ExperimentStates
         /\ command[c].phase \in {"tag", "record"} => command[c] \in AcceptStates
<1>1. command[c] \in {Idle} \cup PublishStates \cup ExperimentStates \cup AcceptStates
  BY DEF TypeOK
<1>2. CASE command[c] = Idle
  BY <1>2 DEF Idle, Publishing
<1>3. CASE command[c] \in PublishStates
  BY <1>3 DEF PublishStates
<1>4. CASE command[c] \in ExperimentStates
  BY <1>4 DEF ExperimentStates, Publishing
<1>5. CASE command[c] \in AcceptStates
  BY <1>5 DEF AcceptStates, Publishing
<1> QED
  BY <1>1, <1>2, <1>3, <1>4, <1>5

\* Versions are only added.
Grown ==
  /\ history \in Seq(Contents) /\ history' \in Seq(Contents)
  /\ Len(history) <= Len(history')
  /\ \A v \in DOMAIN history : v \in DOMAIN history' /\ history'[v] = history[v]

\* What is of its type stays so when versions are added.
LEMMA TypesGrow ==
  ASSUME Grown
  PROVE  /\ Reports \subseteq Reports'
         /\ PublishStates \subseteq PublishStates'
         /\ ExperimentStates \subseteq ExperimentStates'
         /\ AcceptStates \subseteq AcceptStates'
<1>1. DOMAIN history \subseteq DOMAIN history' /\ 0..Len(history) \subseteq 0..Len(history')
  BY DEF Grown
<1>2. Reports \subseteq Reports'
  BY <1>1 DEF Reports
<1>3. PublishStates \subseteq PublishStates'
  BY <1>1 DEF PublishStates
<1>4. ExperimentStates \subseteq ExperimentStates'
  BY <1>1 DEF ExperimentStates
<1> QED
  BY <1>2, <1>3, <1>4 DEF AcceptStates

States == {Idle} \cup PublishStates \cup ExperimentStates \cup AcceptStates

\* A step of one command whose new memory is of its type keeps the types.
LEMMA TypeStep ==
  ASSUME TypeOK, Grown, NEW c \in Commands, NEW s, s \in States',
         command' = [command EXCEPT ![c] = s],
         tag' \in 0..Len(history'),
         files' \in [{"candidate", "accepted"} -> Reports' \cup {None, Damaged}],
         moves' \in 0..MaxAcceptances,
         spent' \in [publish : 0..MaxPublishes, experiment : 0..MaxExperiments,
                     accept : 0..MaxAcceptances]
  PROVE  TypeOK'
<1>1. command' \in [Commands -> States']
  <2>1. States \subseteq States'
    BY TypesGrow DEF States
  <2> QED
    BY <2>1 DEF TypeOK, States
<1> QED
  BY <1>1 DEF TypeOK, Grown, States

\* Files that are left alone keep their types.
LEMMA FilesTyped ==
  ASSUME TypeOK, Grown, files' = files
  PROVE  files' \in [{"candidate", "accepted"} -> Reports' \cup {None, Damaged}]
BY TypesGrow DEF TypeOK

\* The history as it is, or with one more version.
LEMMA GrownBy ==
  ASSUME TypeOK
  PROVE  /\ history' = history => Grown
         /\ \A content \in Contents :
              history' = Append(history, content) =>
                /\ Grown
                /\ Len(history') = Len(history) + 1
                /\ history' # <<>>
                /\ Last(history') = content
                /\ \A v \in DOMAIN history' : v \in DOMAIN history \/ history'[v] = content
<1>1. history \in Seq(Contents) /\ Len(history) \in Nat /\ DOMAIN history = 1..Len(history)
  BY LenProperties DEF TypeOK
<1>2. history' = history => Grown
  BY <1>1 DEF Grown
<1>3. ASSUME NEW content \in Contents, history' = Append(history, content)
      PROVE  /\ Grown
             /\ Len(history') = Len(history) + 1
             /\ history' # <<>>
             /\ Last(history') = content
             /\ \A v \in DOMAIN history' : v \in DOMAIN history \/ history'[v] = content
  <2>1. /\ history' \in Seq(Contents) /\ history' # <<>>
        /\ Len(history') = Len(history) + 1
        /\ \A i \in 1..Len(history) : history'[i] = history[i]
        /\ history'[Len(history) + 1] = content
    BY <1>1, <1>3, AppendProperties
  <2>2. DOMAIN history' = 1..(Len(history) + 1)
    BY <2>1, LenProperties
  <2>3. Grown
    BY <1>1, <2>1, <2>2 DEF Grown
  <2>4. \A v \in DOMAIN history' : v \in DOMAIN history \/ history'[v] = content
    BY <1>1, <2>1, <2>2
  <2> QED
    BY <2>1, <2>3, <2>4 DEF Last
<1> QED
  BY <1>2, <1>3

-----------------------------------------------------------------------------
(* What a step of one command leaves alone                                 *)

\* A report that speaks of its version goes on doing so.
LEMMA TruthfulStays ==
  ASSUME Grown, NEW r \in Reports, Truthful(r) PROVE Truthful(r)'
<1>1. r.version \in DOMAIN history
  BY DEF Reports
<1>2. history'[r.version] = history[r.version]
  BY <1>1 DEF Grown
<1> QED
  BY <1>2 DEF Truthful

\* The tag names a version, and the move is counted if it was another one.
TagMoves == tag' \in DOMAIN history /\ moves' = (IF tag' = tag THEN moves ELSE moves + 1)

\* A step of one command leaves the others what they rely on, if only publishes
\* change the dataset, no publish begins, and moves of the tag are counted.
LEMMA OthersKeep ==
  ASSUME TypeOK, CommandsKeep, Grown, NEW c \in Commands, NEW d \in Commands \ {c},
         command'[d] = command[d],
         \A e \in Commands \ {d} : ~Publishing(e) => ~Publishing(e)',
         history' = history \/ Publishing(c),
         (tag' = tag /\ moves' = moves) \/ TagMoves
  PROVE  (PublishKeeps(d) /\ ExperimentKeeps(d) /\ AcceptKeeps(d))'
<1>1. PublishKeeps(d) /\ ExperimentKeeps(d) /\ AcceptKeeps(d)
  BY DEF CommandsKeep
<1>2. PublishKeeps(d)'
  <2>1. (Begun(d) => history # <<>>)'
    BY <1>1, EmptySeq DEF PublishKeeps, Begun, Publishing, Grown
  <2>2. (Publishing(d) /\ command[d].alone => Progress(d))'
    <3> SUFFICES ASSUME Publishing(d), command[d].alone PROVE Progress(d)'
      BY DEF Publishing
    <3>1. Progress(d)
      BY <1>1 DEF PublishKeeps
    <3>2. ~Publishing(c)
      BY <3>1 DEF Progress
    <3>3. history' = history
      BY <3>2
    <3> QED
      BY <3>1, <3>3 DEF Progress
  <2>3. (command[d].phase = "published" =>
          /\ command[d].version \in DOMAIN history
          /\ command[d].alone => Whole(history[command[d].version], command[d].checkout))'
    BY <1>1 DEF PublishKeeps, Grown, Whole
  <2> QED
    BY <1>1, <2>1, <2>2, <2>3 DEF PublishKeeps
<1>3. ExperimentKeeps(d)'
  <2> SUFFICES ASSUME command[d].phase \in {"list", "list_diagnostic", "evaluate"}
               PROVE  Listed(d)'
    BY DEF ExperimentKeeps
  <2>1. Listed(d)
    BY <1>1 DEF ExperimentKeeps
  <2>2. command[d].version \in DOMAIN history
    BY PhaseTyped DEF ExperimentStates
  <2>3. history'[command[d].version] = history[command[d].version]
    BY <2>2 DEF Grown
  <2>4. tag \in DOMAIN history => tag \in DOMAIN history'
    BY DEF Grown
  <2>5. CASE tag' = tag /\ moves' = moves
    BY <2>1, <2>3, <2>4, <2>5 DEF Listed, Initial
  <2>6. CASE TagMoves
    <3>1. moves \in Nat /\ command[d].seen \in Nat
      BY ReleaseAssumption, PhaseTyped DEF TypeOK, ExperimentStates
    <3>2. command[d].seen <= moves' /\ (command[d].seen = moves' => tag' = tag /\ moves' = moves)
      BY <2>1, <2>6, <3>1 DEF Listed, TagMoves
    <3>3. tag' \in DOMAIN history'
      BY <2>6 DEF TagMoves, Grown
    <3> QED
      BY <2>1, <2>3, <3>2, <3>3 DEF Listed, Initial
  <2> QED
    BY <2>5, <2>6
<1>4. AcceptKeeps(d)'
  <2> SUFFICES ASSUME command[d].phase \in {"tag", "record"}
               PROVE  LET r == command[d].report
                      IN Truthful(r)' /\ r.diagnostic /\ Gate(r.card, TRUE)
    BY DEF AcceptKeeps
  <2>1. command[d].report \in Reports
    BY PhaseTyped DEF AcceptStates
  <2> QED
    BY <1>1, <2>1, TruthfulStays DEF AcceptKeeps
<1> QED
  BY <1>2, <1>3, <1>4

\* A new version that mixes no splits keeps every version so.
LEMMA SplitsStep ==
  ASSUME TypeOK, SplitsKept, NEW content \in Contents,
         \A e \in Examples : content[e].split \in {None, SplitOf(e)},
         history' = Append(history, content)
  PROVE  SplitsKept'
<1>1. \A v \in DOMAIN history' : v \in DOMAIN history \/ history'[v] = content
  BY GrownBy
<1>2. \A v \in DOMAIN history : history'[v] = history[v]
  BY GrownBy DEF Grown
<1> QED
  BY <1>1, <1>2 DEF SplitsKept

\* How many commands are about to move the tag, after a step of one.
LEMMA TaggingStep ==
  ASSUME TypeOK, MovesCounted, NEW c \in Commands, NEW s,
         command' = [command EXCEPT ![c] = s]
  PROVE  /\ IsFiniteSet(Tagging')
         /\ Cardinality(Tagging) \in Nat /\ Cardinality(Tagging') \in Nat
         /\ s.phase = "tag" => Cardinality(Tagging') <= Cardinality(Tagging) + 1
         /\ s.phase # "tag" => Cardinality(Tagging') <= Cardinality(Tagging)
         /\ s.phase # "tag" /\ command[c].phase = "tag" =>
              Cardinality(Tagging') = Cardinality(Tagging) - 1
<1>1. IsFiniteSet(Tagging) /\ Cardinality(Tagging) \in Nat
  BY FS_CardinalityType DEF MovesCounted
<1>2. s.phase = "tag" => Tagging' = Tagging \cup {c}
  BY DEF Tagging, TypeOK
<1>3. s.phase # "tag" => Tagging' = Tagging \ {c}
  BY DEF Tagging, TypeOK
<1>4. command[c].phase = "tag" => c \in Tagging
  BY DEF Tagging
<1>5. IsFiniteSet(Tagging')
  BY <1>1, <1>2, <1>3, FS_AddElement, FS_RemoveElement
<1>6. Cardinality(Tagging') \in Nat
  BY <1>5, FS_CardinalityType
<1>7. /\ Cardinality(Tagging \cup {c}) <= Cardinality(Tagging) + 1
      /\ Cardinality(Tagging \ {c}) <= Cardinality(Tagging)
      /\ c \in Tagging => Cardinality(Tagging \ {c}) = Cardinality(Tagging) - 1
  <2>1. Cardinality(Tagging \cup {c})
          = IF c \in Tagging THEN Cardinality(Tagging) ELSE Cardinality(Tagging) + 1
    BY <1>1, FS_AddElement
  <2>2. Cardinality(Tagging \ {c})
          = IF c \in Tagging THEN Cardinality(Tagging) - 1 ELSE Cardinality(Tagging)
    BY <1>1, FS_RemoveElement
  <2> QED
    BY <1>1, <2>1, <2>2
<1> QED
  BY <1>1, <1>2, <1>3, <1>4, <1>5, <1>6, <1>7

\* A step of one command that leaves files and tag alone keeps the invariant,
\* when the command itself keeps what it relies on.
LEMMA CommandStep ==
  ASSUME IInv, Grown, SplitsKept', NEW c \in Commands, NEW s, s \in States',
         command' = [command EXCEPT ![c] = s],
         UNCHANGED <<tag, files, moves>>,
         history' = history \/ Publishing(c),
         ~Publishing(c) => ~Publishing(c)',
         spent' \in [publish : 0..MaxPublishes, experiment : 0..MaxExperiments,
                     accept : 0..MaxAcceptances],
         spent.accept <= spent'.accept,
         s.phase = "tag" => spent.accept < spent'.accept,
         (PublishKeeps(c) /\ ExperimentKeeps(c) /\ AcceptKeeps(c))'
  PROVE  IInv'
<1>1. TypeOK'
  <2>1. tag' \in 0..Len(history')
    BY DEF IInv, TypeOK, Grown
  <2>2. files' \in [{"candidate", "accepted"} -> Reports' \cup {None, Damaged}]
    BY FilesTyped DEF IInv
  <2>3. moves' \in 0..MaxAcceptances
    BY DEF IInv, TypeOK
  <2> QED
    BY <2>1, <2>2, <2>3, TypeStep DEF IInv
<1>2. CommandsKeep'
  <2> SUFFICES ASSUME NEW d \in Commands
               PROVE  (PublishKeeps(d) /\ ExperimentKeeps(d) /\ AcceptKeeps(d))'
    BY DEF CommandsKeep
  <2>1. CASE d # c
    <3>1. command'[d] = command[d]
      BY <2>1 DEF IInv, TypeOK
    <3>2. \A e \in Commands \ {d} : ~Publishing(e) => ~Publishing(e)'
      BY DEF IInv, TypeOK, Publishing
    <3> QED
      BY <2>1, <3>1, <3>2, OthersKeep DEF IInv
  <2> QED
    BY <2>1
<1>3. FilesKeep'
  <2>1. \A name \in DOMAIN files : IsReport(files[name]) => files[name] \in Reports
    BY DEF IInv, TypeOK, IsReport
  <2> QED
    BY <2>1, TruthfulStays DEF IInv, FilesKeep
<1>4. MovesCounted'
  <2>1. /\ IsFiniteSet(Tagging')
        /\ Cardinality(Tagging) \in Nat /\ Cardinality(Tagging') \in Nat
        /\ s.phase = "tag" => Cardinality(Tagging') <= Cardinality(Tagging) + 1
        /\ s.phase # "tag" => Cardinality(Tagging') <= Cardinality(Tagging)
    BY TaggingStep DEF IInv
  <2>2. moves \in Nat /\ spent.accept \in Nat /\ spent'.accept \in Nat
    BY ReleaseAssumption DEF IInv, TypeOK
  <2>3. moves + Cardinality(Tagging) <= spent.accept
    BY DEF IInv, MovesCounted
  <2> QED
    BY <2>1, <2>2, <2>3 DEF MovesCounted
<1> QED
  BY <1>1, <1>2, <1>3, <1>4 DEF IInv

\* A step that only goes on with what the command holds.
LEMMA BecomesStep ==
  ASSUME IInv, Grown, SplitsKept', NEW c \in Commands, NEW s, s \in States', Becomes(c, s),
         UNCHANGED <<tag, files, moves>>,
         history' = history \/ Publishing(c),
         ~Publishing(c) => ~Publishing(c)',
         s.phase # "tag",
         (PublishKeeps(c) /\ ExperimentKeeps(c) /\ AcceptKeeps(c))'
  PROVE  IInv'
<1>1. /\ spent' \in [publish : 0..MaxPublishes, experiment : 0..MaxExperiments,
                     accept : 0..MaxAcceptances]
      /\ spent.accept <= spent'.accept
  BY ReleaseAssumption DEF Becomes, IInv, TypeOK
<1> QED
  BY <1>1, CommandStep DEF Becomes

\* A publish that goes on keeps what the other kinds of commands rely on.
LEMMA PublishStep ==
  ASSUME IInv, Grown, SplitsKept', NEW c \in Commands, Publishing(c),
         NEW s, s \in PublishStates', Becomes(c, s),
         UNCHANGED <<tag, files, moves>>,
         PublishKeeps(c)'
  PROVE  IInv'
<1>1. command'[c] = s
  BY DEF Becomes, IInv, TypeOK
<1>2. (ExperimentKeeps(c) /\ AcceptKeeps(c))' /\ s.phase # "tag"
  BY <1>1 DEF ExperimentKeeps, AcceptKeeps, PublishStates
<1> QED
  BY <1>2, BecomesStep DEF States

-----------------------------------------------------------------------------
(* publish                                                                 *)

\* A publish that starts ends the solitude of every other one.
LEMMA StartPublishKeeps ==
  ASSUME IInv, NEW c \in Commands, NEW checkout \in Checkouts, StartPublish(c, checkout)
  PROVE  IInv'
<1> DEFINE alone == \A d \in Commands : ~Publishing(d)
           s == [phase |-> "existing", checkout |-> checkout, alone |-> alone,
                 existing |-> {}, done |-> 0, version |-> 0]
<1>1. /\ command[c] = Idle
      /\ command' = [d \in Commands |->
           IF d = c THEN s ELSE IF Publishing(d) THEN [command[d] EXCEPT !.alone = FALSE]
           ELSE command[d]]
      /\ UNCHANGED <<history, tag, files, moves>>
      /\ spent.publish < MaxPublishes
      /\ spent' = [spent EXCEPT !.publish = @ + 1]
  BY DEF StartPublish
<1>2. Grown /\ Len(history) \in Nat
  BY <1>1, GrownBy, LenProperties DEF IInv, TypeOK
<1>3. s \in PublishStates' /\ s.phase = "existing"
  <2>1. alone \in BOOLEAN
    OBVIOUS
  <2> HIDE DEF alone
  <2>2. 0 \in Counts
    BY ExamplesFacts, LenProperties DEF Counts
  <2> QED
    BY <1>1, <1>2, <2>1, <2>2 DEF PublishStates
<1>4. command'[c] = s
  BY <1>1
<1> HIDE DEF s
<1>5. ASSUME NEW d \in Commands \ {c}, Publishing(d)
      PROVE  /\ command'[d] = [command[d] EXCEPT !.alone = FALSE]
             /\ command'[d] \in PublishStates'
             /\ command'[d].phase = command[d].phase
             /\ ~command'[d].alone
  <2>1. command'[d] = [command[d] EXCEPT !.alone = FALSE] /\ command[d] \in PublishStates
    BY <1>1, <1>5, PhaseTyped DEF IInv
  <2> QED
    BY <1>2, <2>1, TypesGrow DEF PublishStates
<1>6. ASSUME NEW d \in Commands \ {c}, ~Publishing(d)
      PROVE  command'[d] = command[d]
  BY <1>1, <1>6
<1>7. TypeOK'
  <2>1. \A d \in Commands : command'[d] \in States'
    BY <1>2, <1>3, <1>4, <1>5, <1>6, TypesGrow DEF IInv, TypeOK, States
  <2>2. command' \in [Commands -> States']
    BY <1>1, <2>1
  <2>3. spent' \in [publish : 0..MaxPublishes, experiment : 0..MaxExperiments,
                    accept : 0..MaxAcceptances]
    <3>1. MaxPublishes \in Nat
      BY ReleaseAssumption
    <3>2. spent \in [publish : 0..MaxPublishes, experiment : 0..MaxExperiments,
                     accept : 0..MaxAcceptances]
      BY DEF IInv, TypeOK
    <3>3. spent.publish + 1 \in 0..MaxPublishes
      BY <1>1, <3>1, <3>2
    <3> QED
      BY <1>1, <3>2, <3>3
  <2>4. files' \in [{"candidate", "accepted"} -> Reports' \cup {None, Damaged}]
    BY <1>1, <1>2, FilesTyped DEF IInv
  <2> QED
    BY <1>1, <1>2, <2>2, <2>3, <2>4 DEF IInv, TypeOK, Grown, States
<1>8. SplitsKept'
  BY <1>1 DEF IInv, SplitsKept
<1>9. CommandsKeep'
  <2> SUFFICES ASSUME NEW d \in Commands
               PROVE  (PublishKeeps(d) /\ ExperimentKeeps(d) /\ AcceptKeeps(d))'
    BY DEF CommandsKeep
  <2>1. CASE d = c
    <3>1. PublishKeeps(c)'
      <4>1. (Publishing(c) /\ command[c].alone => Progress(c))'
        <5> SUFFICES ASSUME s.alone PROVE Progress(c)'
          BY <1>4
        <5>1. \A e \in Commands : ~Publishing(e)
          BY DEF s
        <5>2. \A e \in Commands \ {c} : ~Publishing(e)'
          BY <1>6, <5>1 DEF Publishing
        <5> QED
          BY <1>3, <1>4, <5>2 DEF Progress
      <4> QED
        BY <1>3, <1>4, <4>1 DEF PublishKeeps, Begun, s
    <3> QED
      BY <1>3, <1>4, <2>1, <3>1 DEF ExperimentKeeps, AcceptKeeps
  <2>2. CASE d # c /\ Publishing(d)
    <3>1. command'[d].phase = command[d].phase /\ ~command'[d].alone
            /\ command'[d].done = command[d].done /\ command'[d].existing = command[d].existing
      <4>1. command[d] \in PublishStates
        BY <2>2, PhaseTyped DEF IInv
      <4>2. command'[d] = [command[d] EXCEPT !.alone = FALSE]
        BY <1>5, <2>2
      <4> QED
        BY <4>1, <4>2 DEF PublishStates
    <3>2. PublishKeeps(d)
      BY DEF IInv, CommandsKeep
    <3> QED
      BY <1>1, <2>2, <3>1, <3>2 DEF PublishKeeps, Begun, Publishing, ExperimentKeeps, AcceptKeeps
  <2>3. CASE d # c /\ ~Publishing(d)
    <3>1. command'[d] = command[d]
      BY <1>6, <2>3
    <3>2. PublishKeeps(d) /\ ExperimentKeeps(d) /\ AcceptKeeps(d)
      BY DEF IInv, CommandsKeep
    <3>3. PublishKeeps(d)'
      BY <1>1, <2>3, <3>1, <3>2 DEF PublishKeeps, Begun, Publishing
    <3>4. ExperimentKeeps(d)'
      BY <1>1, <3>1, <3>2 DEF ExperimentKeeps, Listed, Initial
    <3>5. AcceptKeeps(d)'
      <4>1. command[d].phase \in {"tag", "record"} => command[d].report \in Reports
        BY PhaseTyped DEF IInv, AcceptStates
      <4> QED
        BY <1>2, <3>1, <3>2, <4>1, TruthfulStays DEF AcceptKeeps
    <3> QED
      BY <3>3, <3>4, <3>5
  <2> QED
    BY <2>1, <2>2, <2>3
<1>10. FilesKeep'
  <2>1. \A name \in DOMAIN files : IsReport(files[name]) => files[name] \in Reports
    BY DEF IInv, TypeOK, IsReport
  <2> QED
    BY <1>1, <1>2, <2>1, TruthfulStays DEF IInv, FilesKeep
<1>11. MovesCounted'
  <2>1. Tagging' = Tagging
    <3>1. \A d \in Commands : command'[d].phase = "tag" <=> command[d].phase = "tag"
      BY <1>1, <1>3, <1>4, <1>5, <1>6 DEF Idle
    <3> QED
      BY <3>1 DEF Tagging
  <2>2. spent'.accept = spent.accept
    BY <1>1 DEF IInv, TypeOK
  <2> QED
    BY <1>1, <2>1, <2>2 DEF IInv, MovesCounted
<1> QED
  BY <1>7, <1>8, <1>9, <1>10, <1>11 DEF IInv

\* The first call of a publish makes a dataset, or learns what is there.
LEMMA ListExistingKeeps ==
  ASSUME IInv, NEW c \in Commands, ListExisting(c) PROVE IInv'
<1>1. /\ Publishing(c) /\ command[c].phase = "existing" /\ command[c] \in PublishStates
      /\ command[c].done = 0 /\ command[c].existing = {}
  BY PhaseTyped DEF ListExisting, Publishing, IInv, CommandsKeep, PublishKeeps
<1>2. CASE history = <<>>
  <2> DEFINE s == [command[c] EXCEPT !.phase = "update"]
  <2>1. history' = Append(history, Nothing) /\ Becomes(c, s) /\ UNCHANGED <<tag, files, moves>>
    BY <1>2 DEF ListExisting, Append1
  <2>2. Nothing \in Contents /\ \A e \in Examples : Nothing[e].split = None /\ Nothing[e].golden = None
    BY DEF Nothing, Contents, Absent
  <2>3. Grown /\ history' # <<>> /\ Last(history') = Nothing
    BY <2>1, <2>2, GrownBy DEF IInv
  <2>4. SplitsKept'
    BY <2>1, <2>2, SplitsStep DEF IInv
  <2>5. s \in PublishStates' /\ s.phase = "update" /\ s.done = 0 /\ s.existing = {}
          /\ s.alone = command[c].alone
    BY <1>1, <2>3, TypesGrow DEF PublishStates
  <2>6. command'[c] = s /\ \A d \in Commands \ {c} : command'[d] = command[d]
    BY <2>1 DEF Becomes, IInv, TypeOK
  <2> HIDE DEF s
  <2>7. PublishKeeps(c)'
    <3>1. ASSUME s.alone PROVE Progress(c)'
      <4>1. \A d \in Commands \ {c} : ~Publishing(d)'
        BY <1>1, <2>5, <2>6, <3>1 DEF IInv, CommandsKeep, PublishKeeps, Progress, Publishing
      <4>2. Present(Last(history')) = {}
        BY <2>2, <2>3 DEF Present
      <4> QED
        BY <2>5, <2>6, <4>1, <4>2 DEF Progress
    <3> QED
      BY <2>3, <2>5, <2>6, <3>1 DEF PublishKeeps, Begun
  <2> QED
    BY <1>1, <2>1, <2>3, <2>4, <2>5, <2>7, PublishStep
<1>3. CASE history # <<>>
  <2> DEFINE s == [command[c] EXCEPT !.phase = "update", !.existing = Present(Last(history))]
  <2>1. history' = history /\ Becomes(c, s) /\ UNCHANGED <<tag, files, moves>>
    BY <1>3 DEF ListExisting
  <2>2. Grown /\ SplitsKept'
    BY <2>1, GrownBy DEF IInv, SplitsKept
  <2>3. s \in PublishStates' /\ s.phase = "update" /\ s.done = 0
          /\ s.existing = Present(Last(history)) /\ s.alone = command[c].alone
    <3>1. Present(Last(history)) \subseteq Examples
      BY DEF Present
    <3> QED
      BY <1>1, <2>1, <2>2, <3>1, TypesGrow DEF PublishStates
  <2>4. command'[c] = s /\ \A d \in Commands \ {c} : command'[d] = command[d]
    BY <2>1 DEF Becomes, IInv, TypeOK
  <2> HIDE DEF s
  <2>5. PublishKeeps(c)'
    <3>1. ASSUME s.alone PROVE Progress(c)'
      <4>1. \A d \in Commands \ {c} : ~Publishing(d)'
        BY <1>1, <2>3, <2>4, <3>1 DEF IInv, CommandsKeep, PublishKeeps, Progress, Publishing
      <4> QED
        BY <2>1, <2>3, <2>4, <4>1 DEF Progress
    <3> QED
      BY <1>3, <2>1, <2>3, <2>4, <3>1 DEF PublishKeeps, Begun
  <2> QED
    BY <1>1, <2>1, <2>2, <2>3, <2>5, PublishStep
<1> QED
  BY <1>2, <1>3

\* The latest version is one of them.
LEMMA LatestVersion ==
  ASSUME TypeOK, SplitsKept, history # <<>>
  PROVE  /\ Last(history) \in Contents
         /\ Len(history) \in DOMAIN history /\ Last(history) = history[Len(history)]
         /\ \A e \in Examples : Last(history)[e].split \in {None, SplitOf(e)}
<1>1. history \in Seq(Contents) /\ Len(history) \in Nat \ {0} /\ DOMAIN history = 1..Len(history)
  BY LenProperties, EmptySeq DEF TypeOK
<1>2. Len(history) \in 1..Len(history)
  BY <1>1
<1>3. history[Len(history)] \in Contents
  BY <1>1, <1>2, ElementOfSeq
<1> QED
  BY <1>1, <1>2, <1>3 DEF Last, SplitsKept

\* What a publish relies on when it has begun, and what its next step leaves.
LEMMA PublishGoesOn ==
  ASSUME IInv, NEW c \in Commands, Begun(c), NEW s, Becomes(c, s)
  PROVE  /\ command[c] \in PublishStates /\ history # <<>>
         /\ command[c].alone => Progress(c)
         /\ command'[c] = s
         /\ command[c].alone => \A d \in Commands \ {c} : ~Publishing(d)'
<1>1. Publishing(c) /\ PublishKeeps(c)
  BY DEF Begun, IInv, CommandsKeep
<1>2. command'[c] = s /\ \A d \in Commands \ {c} : command'[d] = command[d]
  BY DEF Becomes, IInv, TypeOK
<1>3. command[c] \in PublishStates
  BY <1>1, PhaseTyped DEF IInv
<1>4. /\ history # <<>>
      /\ command[c].alone => Progress(c)
  BY <1>1 DEF PublishKeeps
<1> QED
  BY <1>2, <1>3, <1>4 DEF Progress, Publishing

\* Updating an example makes it of this checkout and touches nothing else.
LEMMA UpdateExampleKeeps ==
  ASSUME IInv, NEW c \in Commands, UpdateExample(c) PROVE IInv'
<1> DEFINE s == [command[c] EXCEPT !.done = @ + 1]
           e == GoldenExamples[command[c].done + 1]
           now == Last(history)
<1>1. /\ command[c].phase = "update" /\ command[c].done < Len(GoldenExamples)
      /\ IF e \in command[c].existing THEN history' = Append(history, Updated(now, e, command[c].checkout))
         ELSE history' = history
      /\ Becomes(c, s)
      /\ UNCHANGED <<tag, files, moves>>
  BY DEF UpdateExample, Append1
<1>2. Publishing(c) /\ Begun(c)
  BY <1>1 DEF Publishing, Begun
<1>3. /\ command[c] \in PublishStates /\ history # <<>>
      /\ command[c].alone => Progress(c)
      /\ command'[c] = s
      /\ command[c].alone => \A d \in Commands \ {c} : ~Publishing(d)'
  BY <1>1, <1>2, PublishGoesOn
<1>4. /\ now \in Contents
      /\ \A x \in Examples : now[x].split \in {None, SplitOf(x)}
  BY <1>3, LatestVersion DEF IInv
<1>5. Len(GoldenExamples) \in Nat /\ command[c].done \in Nat /\ command[c].done + 1 \in Counts
        /\ command[c].done + 1 \in 1..Len(GoldenExamples)
  <2>1. Len(GoldenExamples) \in Nat
    BY ExamplesFacts, LenProperties
  <2>2. command[c].done \in 0..Len(GoldenExamples)
    BY <1>3 DEF PublishStates, Counts
  <2> QED
    BY <1>1, <2>1, <2>2 DEF Counts
<1>6. s.phase = "update" /\ s.done = command[c].done + 1 /\ s.existing = command[c].existing
        /\ s.alone = command[c].alone /\ s.checkout = command[c].checkout
        /\ s \in PublishStates
  BY <1>1, <1>3, <1>5 DEF PublishStates
<1> HIDE DEF s
<1>7. /\ Grown /\ SplitsKept' /\ history' # <<>>
      /\ command[c].alone => Progress(c)'
  <2>1. CASE e \in command[c].existing
    <3> DEFINE content == Updated(now, e, command[c].checkout)
    <3>1. e \in Examples /\ command[c].checkout \in Checkouts
      BY <1>3, <2>1 DEF PublishStates
    <3>2. /\ content \in Contents
          /\ content[e].golden = command[c].checkout
          /\ \A x \in Examples : content[x].split = now[x].split
          /\ \A x \in Examples \ {e} : content[x] = now[x]
      BY <1>4, <3>1 DEF Updated, Contents
    <3>3. history' = Append(history, content)
      BY <1>1, <2>1
    <3> HIDE DEF content
    <3>4. Grown /\ history' # <<>> /\ Last(history') = content
      BY <3>2, <3>3, GrownBy DEF IInv
    <3>5. SplitsKept'
      BY <1>4, <3>2, <3>3, SplitsStep DEF IInv
    <3>6. ASSUME command[c].alone PROVE Progress(c)'
      <4>1. Progress(c)
        BY <1>3, <3>6
      <4>2. Present(now) = command[c].existing
        BY <1>1, <4>1 DEF Progress
      <4>3. command[c].checkout # None
        BY <3>1, NoneAssumption
      <4>4. Present(content) = command[c].existing
        BY <2>1, <3>1, <3>2, <4>2, <4>3 DEF Present
      <4>5. ASSUME NEW i \in 1..s.done, GoldenExamples[i] \in s.existing
            PROVE  content[GoldenExamples[i]].golden = s.checkout
        <5>1. CASE GoldenExamples[i] = e
          BY <1>6, <3>2, <5>1
        <5>2. CASE GoldenExamples[i] # e
          <6>1. i \in 1..command[c].done
            BY <1>5, <1>6, <5>2
          <6>2. now[GoldenExamples[i]].golden = command[c].checkout
            BY <1>1, <1>6, <4>1, <4>5, <6>1 DEF Progress
          <6>3. GoldenExamples[i] \in Examples
            BY <1>3, <1>6, <4>5 DEF PublishStates
          <6> QED
            BY <1>6, <3>2, <5>2, <6>2, <6>3
        <5> QED
          BY <5>1, <5>2
      <4> QED
        BY <1>3, <1>6, <3>4, <3>6, <4>4, <4>5 DEF Progress
    <3> QED
      BY <3>4, <3>5, <3>6
  <2>2. CASE e \notin command[c].existing
    <3>1. history' = history
      BY <1>1, <2>2
    <3>2. Grown /\ SplitsKept' /\ history' # <<>>
      BY <1>3, <3>1, GrownBy DEF IInv, SplitsKept
    <3>3. ASSUME command[c].alone PROVE Progress(c)'
      <4>1. Progress(c)
        BY <1>3, <3>3
      <4>2. ASSUME NEW i \in 1..s.done, GoldenExamples[i] \in s.existing
            PROVE  now[GoldenExamples[i]].golden = s.checkout
        <5>1. i \in 1..command[c].done
          BY <1>5, <1>6, <2>2, <4>2
        <5> QED
          BY <1>1, <1>6, <4>1, <4>2, <5>1 DEF Progress
      <4> QED
        BY <1>1, <1>3, <1>6, <3>1, <3>3, <4>1, <4>2 DEF Progress
    <3> QED
      BY <3>2, <3>3
  <2> QED
    BY <2>1, <2>2
<1>8. PublishKeeps(c)'
  BY <1>3, <1>6, <1>7 DEF PublishKeeps
<1>9. s \in PublishStates'
  BY <1>6, <1>7, TypesGrow
<1> QED
  BY <1>1, <1>2, <1>7, <1>8, <1>9, PublishStep

\* The examples that did not exist are created, so that all are of this checkout.
LEMMA CreateExamplesKeeps ==
  ASSUME IInv, NEW c \in Commands, CreateExamples(c) PROVE IInv'
<1> DEFINE s == [command[c] EXCEPT !.phase = "release"]
           now == Last(history)
           new == Examples \ command[c].existing
           content == [e \in Examples |->
             IF e \in new THEN [golden |-> command[c].checkout, split |-> None] ELSE now[e]]
<1>1. /\ command[c].phase = "update" /\ command[c].done = Len(GoldenExamples)
      /\ IF new = {} THEN history' = history ELSE history' = Append(history, content)
      /\ Becomes(c, s)
      /\ UNCHANGED <<tag, files, moves>>
  BY DEF CreateExamples, Append1
<1>2. Publishing(c) /\ Begun(c)
  BY <1>1 DEF Publishing, Begun
<1>3. /\ command[c] \in PublishStates /\ history # <<>>
      /\ command[c].alone => Progress(c)
      /\ command'[c] = s
      /\ command[c].alone => \A d \in Commands \ {c} : ~Publishing(d)'
  BY <1>1, <1>2, PublishGoesOn
<1>4. /\ now \in Contents
      /\ \A x \in Examples : now[x].split \in {None, SplitOf(x)}
  BY <1>3, LatestVersion DEF IInv
<1>5. s.phase = "release" /\ s.alone = command[c].alone /\ s.checkout = command[c].checkout
        /\ s \in PublishStates /\ s.checkout \in Checkouts
  BY <1>3 DEF PublishStates
<1>6. /\ content \in Contents
      /\ \A e \in Examples : content[e].split \in {None, SplitOf(e)}
      /\ \A e \in new : content[e].golden = s.checkout
      /\ \A e \in Examples \ new : content[e] = now[e]
  BY <1>4, <1>5 DEF Contents
<1> HIDE DEF s, content
<1>7. Grown /\ SplitsKept' /\ history' # <<>>
        /\ (Last(history') = content \/ (new = {} /\ Last(history') = now))
  <2>1. CASE new = {}
    BY <1>1, <1>3, <2>1, GrownBy DEF IInv, SplitsKept
  <2>2. CASE new # {}
    BY <1>1, <1>6, <2>2, GrownBy, SplitsStep DEF IInv
  <2> QED
    BY <2>1, <2>2
<1>8. ASSUME command[c].alone PROVE \A e \in Examples : Last(history')[e].golden = s.checkout
  <2>1. \A i \in 1..Len(GoldenExamples) :
          GoldenExamples[i] \in command[c].existing =>
            now[GoldenExamples[i]].golden = command[c].checkout
    BY <1>1, <1>3, <1>8 DEF Progress
  <2>2. ASSUME NEW e \in Examples, e \notin new PROVE now[e].golden = s.checkout
    <3>1. PICK i \in DOMAIN GoldenExamples : e = GoldenExamples[i]
      BY DEF Examples, ToSet
    <3>2. i \in 1..Len(GoldenExamples)
      BY ExamplesFacts, LenProperties
    <3> QED
      BY <1>5, <2>1, <2>2, <3>1, <3>2
  <2> QED
    BY <1>6, <1>7, <2>2
<1>9. PublishKeeps(c)'
  <2>1. command[c].alone => Progress(c)'
    BY <1>3, <1>5, <1>8 DEF Progress
  <2> QED
    BY <1>3, <1>5, <1>7, <2>1 DEF PublishKeeps
<1>10. s \in PublishStates'
  BY <1>5, <1>7, TypesGrow
<1> QED
  BY <1>1, <1>2, <1>7, <1>9, <1>10, PublishStep

\* Assigning a split puts its present examples into it and no other ones.
LEMMA AssignedSplit ==
  ASSUME IInv, NEW c \in Commands, NEW split \in Splits,
         NEW next \in {"diagnostic", "latest"}, AssignSplit(c, split, next), Begun(c)
  PROVE  /\ Becomes(c, [command[c] EXCEPT !.phase = next])
         /\ UNCHANGED <<tag, files, moves>>
         /\ Grown /\ SplitsKept' /\ history' # <<>>
         /\ \A e \in Examples : Last(history')[e].golden = Last(history)[e].golden
         /\ \A e \in Present(Last(history)) :
              SplitOf(e) = split => Last(history')[e].split = split
         /\ \A e \in Examples : SplitOf(e) # split => Last(history')[e] = Last(history)[e]
<1> DEFINE now == Last(history)
           content == [e \in Examples |->
             IF SplitOf(e) = split /\ e \in Present(now)
               THEN [now[e] EXCEPT !.split = split] ELSE now[e]]
<1>1. /\ history' = Append(history, content)
      /\ Becomes(c, [command[c] EXCEPT !.phase = next])
      /\ UNCHANGED <<tag, files, moves>>
  BY DEF AssignSplit, Append1
<1>2. history # <<>>
  BY <1>1, PublishGoesOn
<1>3. now \in Contents /\ \A x \in Examples : now[x].split \in {None, SplitOf(x)}
  BY <1>2, LatestVersion DEF IInv
<1>4. /\ content \in Contents
      /\ \A e \in Examples : content[e].split \in {None, SplitOf(e)}
      /\ \A e \in Examples : content[e].golden = now[e].golden
      /\ \A e \in Present(now) : SplitOf(e) = split => content[e].split = split
      /\ \A e \in Examples : SplitOf(e) # split => content[e] = now[e]
  BY <1>3 DEF Contents, Present
<1> HIDE DEF content
<1>5. Grown /\ history' # <<>> /\ Last(history') = content
  BY <1>1, <1>4, GrownBy DEF IInv
<1>6. SplitsKept'
  BY <1>1, <1>4, SplitsStep DEF IInv
<1> QED
  BY <1>1, <1>4, <1>5, <1>6

\* With both splits assigned a publish has all its examples in their splits.
LEMMA AssignSplitKeeps ==
  ASSUME IInv, NEW c \in Commands, AssignReleaseSplit(c) \/ AssignDiagnosticSplit(c)
  PROVE  IInv'
<1> DEFINE split == command[c].phase
           next == IF split = "release" THEN "diagnostic" ELSE "latest"
           s == [command[c] EXCEPT !.phase = next]
<1>1. split \in {"release", "diagnostic"} /\ AssignSplit(c, split, next)
  BY DEF AssignReleaseSplit, AssignDiagnosticSplit, AssignSplit
<1>2. Publishing(c) /\ Begun(c)
  BY <1>1 DEF Publishing, Begun
<1>3. /\ Becomes(c, s) /\ UNCHANGED <<tag, files, moves>>
      /\ Grown /\ SplitsKept' /\ history' # <<>>
      /\ \A e \in Examples : Last(history')[e].golden = Last(history)[e].golden
      /\ \A e \in Present(Last(history)) :
           SplitOf(e) = split => Last(history')[e].split = split
      /\ \A e \in Examples : SplitOf(e) # split => Last(history')[e] = Last(history)[e]
  <2>1. split \in Splits /\ next \in {"diagnostic", "latest"}
    BY <1>1 DEF Splits
  <2> QED
    BY <1>1, <1>2, <2>1, AssignedSplit
<1>4. /\ command[c] \in PublishStates
      /\ command[c].alone => Progress(c)
      /\ command'[c] = s
      /\ command[c].alone => \A d \in Commands \ {c} : ~Publishing(d)'
  BY <1>2, <1>3, PublishGoesOn
<1>5. s.phase = next /\ s.alone = command[c].alone /\ s.checkout = command[c].checkout
        /\ s \in PublishStates /\ s.checkout \in Checkouts
  BY <1>1, <1>4 DEF PublishStates
<1> HIDE DEF s
<1>6. ASSUME command[c].alone PROVE Progress(c)'
  <2>1. \A e \in Examples : Last(history)[e].golden = s.checkout
    BY <1>1, <1>4, <1>5, <1>6 DEF Progress
  <2>2. Present(Last(history)) = Examples
    BY <1>5, <2>1, NoneAssumption DEF Present
  <2>3. \A e \in Examples : Last(history')[e].golden = s.checkout
    BY <1>3, <2>1
  <2>4. /\ \A e \in ToSet(ReleaseExamples) : e \in Examples /\ SplitOf(e) = "release"
        /\ \A e \in ToSet(DiagnosticExamples) : e \in Examples /\ SplitOf(e) = "diagnostic"
    BY ExamplesFacts DEF SplitOf
  <2>5. CASE split = "release"
    <3>1. \A e \in ToSet(ReleaseExamples) : Last(history')[e].split = "release"
      BY <1>3, <2>2, <2>4, <2>5
    <3> QED
      BY <1>4, <1>5, <1>6, <2>3, <2>5, <3>1 DEF Progress
  <2>6. CASE split = "diagnostic"
    <3>1. \A e \in ToSet(DiagnosticExamples) : Last(history')[e].split = "diagnostic"
      BY <1>3, <2>2, <2>4, <2>6
    <3>2. \A e \in ToSet(ReleaseExamples) : Last(history')[e].split = "release"
      BY <1>3, <1>4, <1>6, <2>4, <2>6 DEF Progress
    <3> QED
      BY <1>4, <1>5, <1>6, <2>3, <2>6, <3>1, <3>2 DEF Progress
  <2> QED
    BY <1>1, <2>5, <2>6
<1>7. PublishKeeps(c)'
  BY <1>1, <1>3, <1>4, <1>5, <1>6 DEF PublishKeeps
<1>8. s \in PublishStates'
  BY <1>3, <1>5, TypesGrow
<1> QED
  BY <1>2, <1>3, <1>7, <1>8, PublishStep

\* What a publish returns is the latest version there is.
LEMMA ReturnLatestKeeps ==
  ASSUME IInv, NEW c \in Commands, ReturnLatest(c) PROVE IInv'
<1> DEFINE s == [command[c] EXCEPT !.phase = "published", !.version = Len(history)]
<1>1. /\ command[c].phase = "latest" /\ Becomes(c, s)
      /\ UNCHANGED <<history, tag, files, moves>>
  BY DEF ReturnLatest
<1>2. Publishing(c) /\ Begun(c)
  BY <1>1 DEF Publishing, Begun
<1>3. /\ command[c] \in PublishStates /\ history # <<>>
      /\ command[c].alone => Progress(c)
      /\ command'[c] = s
  BY <1>1, <1>2, PublishGoesOn
<1>4. /\ Last(history) \in Contents
      /\ Len(history) \in DOMAIN history /\ Last(history) = history[Len(history)]
  BY <1>3, LatestVersion DEF IInv
<1>5. Grown /\ SplitsKept'
  BY <1>1, GrownBy DEF IInv, SplitsKept
<1>6. s.phase = "published" /\ s.version = Len(history) /\ s.alone = command[c].alone
        /\ s.checkout = command[c].checkout /\ s \in PublishStates
  <2>1. Len(history) \in 0..Len(history)
    BY LenProperties DEF IInv, TypeOK
  <2> QED
    BY <1>3, <2>1 DEF PublishStates
<1> HIDE DEF s
<1>7. ASSUME command[c].alone PROVE Whole(Last(history), command[c].checkout)
  <2> SUFFICES ASSUME NEW e \in Examples
               PROVE  Last(history)[e] = [golden |-> command[c].checkout, split |-> SplitOf(e)]
    BY DEF Whole
  <2>1. Last(history)[e].golden = command[c].checkout
    BY <1>1, <1>3, <1>7 DEF Progress
  <2>2. Last(history)[e].split = SplitOf(e)
    BY <1>1, <1>3, <1>7, ExamplesFacts DEF Progress, SplitOf
  <2> QED
    BY <1>4, <2>1, <2>2 DEF Contents
<1>8. PublishKeeps(c)'
  BY <1>1, <1>3, <1>4, <1>6, <1>7 DEF PublishKeeps, Begun, Publishing, Whole
<1>9. s \in PublishStates'
  BY <1>5, <1>6, TypesGrow
<1> QED
  BY <1>1, <1>2, <1>5, <1>8, <1>9, PublishStep

-----------------------------------------------------------------------------
(* experiment                                                              *)

\* A step that changes nothing but what its command holds.
LEMMA ExperimentStep ==
  ASSUME IInv, NEW c \in Commands, ~Publishing(c),
         NEW s, s \in ExperimentStates, Becomes(c, s),
         UNCHANGED <<history, tag, files, moves>>,
         ExperimentKeeps(c)'
  PROVE  IInv'
<1>1. Grown /\ SplitsKept'
  BY GrownBy DEF IInv, SplitsKept
<1>2. s \in ExperimentStates' /\ s \in States'
  BY <1>1, TypesGrow DEF States
<1>3. command'[c] = s
  BY DEF Becomes, IInv, TypeOK
<1>4. (PublishKeeps(c) /\ AcceptKeeps(c))' /\ s.phase # "tag" /\ ~Publishing(c)'
  BY <1>3 DEF PublishKeeps, Begun, Publishing, AcceptKeeps, ExperimentStates
<1> QED
  BY <1>1, <1>2, <1>4, BecomesStep

\* An experiment begins with the scorecard of a report, or none.
LEMMA StartExperimentKeeps ==
  ASSUME IInv, NEW c \in Commands, NEW checkout \in Checkouts, NEW version \in DOMAIN history,
         NEW initial \in BOOLEAN, NEW name \in DOMAIN files,
         StartExperiment(c, checkout, version, initial, name)
  PROVE  IInv'
<1> DEFINE baseline == IF initial THEN None ELSE files[name].card
           s == [phase |-> "resolve", checkout |-> checkout, version |-> version,
                 baseline |-> baseline, release |-> {}, diagnostic |-> {}, seen |-> 0,
                 late |-> FALSE]
<1>1. /\ initial \/ BaselineAccepted(files[name], version)
      /\ command[c] = Idle /\ spent.experiment < MaxExperiments
      /\ spent' = [spent EXCEPT !.experiment = @ + 1]
      /\ command' = [command EXCEPT ![c] = s]
      /\ UNCHANGED <<history, tag, files, moves>>
  BY DEF StartExperiment, Begin
<1>2. baseline \in Cards \cup {None}
  BY <1>1 DEF BaselineAccepted, IsReport, IInv, TypeOK, Reports
<1>3. s \in ExperimentStates /\ s.phase = "resolve"
  <2> HIDE DEF baseline
  <2>1. {} \in Listings /\ 0 \in Nat
    BY DEF Listings
  <2> QED
    BY <1>2, <2>1 DEF ExperimentStates
<1> HIDE DEF s
<1>4. Grown /\ SplitsKept'
  BY <1>1, GrownBy DEF IInv, SplitsKept
<1>5. s \in States'
  BY <1>3, <1>4, TypesGrow DEF States
<1>6. command'[c] = s
  BY <1>1 DEF IInv, TypeOK
<1>7. ~Publishing(c)' /\ (PublishKeeps(c) /\ ExperimentKeeps(c) /\ AcceptKeeps(c))'
  BY <1>3, <1>6 DEF PublishKeeps, Begun, Publishing, AcceptKeeps, ExperimentKeeps
<1>8. /\ spent' \in [publish : 0..MaxPublishes, experiment : 0..MaxExperiments,
                     accept : 0..MaxAcceptances]
      /\ spent.accept <= spent'.accept
  <2>1. MaxExperiments \in Nat /\ MaxAcceptances \in Nat
    BY ReleaseAssumption
  <2>2. spent \in [publish : 0..MaxPublishes, experiment : 0..MaxExperiments,
                   accept : 0..MaxAcceptances]
    BY DEF IInv, TypeOK
  <2>3. spent.experiment + 1 \in 0..MaxExperiments
    BY <1>1, <2>1, <2>2
  <2> QED
    BY <1>1, <2>1, <2>2, <2>3
<1> QED
  BY <1>1, <1>3, <1>4, <1>5, <1>7, <1>8, CommandStep

\* The version is the tagged one when the tag is first looked at.
LEMMA ResolveVersionKeeps ==
  ASSUME IInv, NEW c \in Commands, ResolveVersion(c) PROVE IInv'
<1> DEFINE s == [command[c] EXCEPT !.phase = "list", !.seen = moves]
<1>1. /\ command[c].phase = "resolve" /\ Becomes(c, s)
      /\ Initial(c) \/ tag = command[c].version
      /\ UNCHANGED <<history, tag, files, moves>>
  BY DEF ResolveVersion
<1>2. command[c] \in ExperimentStates /\ moves \in Nat
  BY <1>1, PhaseTyped, ReleaseAssumption DEF IInv, TypeOK
<1>3. s \in ExperimentStates /\ s.phase = "list" /\ s.seen = moves
        /\ s.version = command[c].version /\ s.baseline = command[c].baseline
  BY <1>2 DEF ExperimentStates
<1> HIDE DEF s
<1>4. command'[c] = s
  BY <1>1 DEF Becomes, IInv, TypeOK
<1>5. ~Publishing(c) /\ command[c].version \in DOMAIN history
  BY <1>1, <1>2 DEF Publishing, ExperimentStates
<1>6. Listed(c)'
  BY <1>1, <1>2, <1>3, <1>4, <1>5 DEF Listed, Initial
<1> QED
  BY <1>1, <1>3, <1>5, <1>6, ExperimentStep DEF ExperimentKeeps

\* A listing of the version an experiment resolved, or of what the tag names.
LEMMA ExamplesListed ==
  ASSUME IInv, NEW c \in Commands, command[c].phase \in {"list", "list_diagnostic"},
         NEW split \in Splits
  PROVE  /\ command[c] \in ExperimentStates /\ Listed(c) /\ ~Publishing(c)
         /\ InSplit(ExamplesAsOf(c), split) \in Listings
         /\ Initial(c) \/ command[c].seen = moves =>
              ExamplesAsOf(c) = history[command[c].version]
<1>1. command[c] \in ExperimentStates /\ Listed(c) /\ ~Publishing(c)
  BY PhaseTyped DEF IInv, CommandsKeep, ExperimentKeeps, Publishing
<1>2. command[c].version \in DOMAIN history /\ (~Initial(c) => tag \in DOMAIN history)
  BY <1>1 DEF ExperimentStates, Listed
<1>3. ExamplesAsOf(c) \in Contents
  <2>1. history \in Seq(Contents) /\ DOMAIN history = 1..Len(history)
    BY LenProperties DEF IInv, TypeOK
  <2> QED
    BY <1>2, <2>1, ElementOfSeq DEF ExamplesAsOf
<1>4. InSplit(ExamplesAsOf(c), split) \in Listings
  BY <1>3, ListingCounted
<1>5. ~Initial(c) /\ command[c].seen = moves => tag = command[c].version
  BY <1>1 DEF Listed
<1> QED
  BY <1>1, <1>4, <1>5 DEF ExamplesAsOf

\* The release examples are listed.
LEMMA ListReleaseExamplesKeeps ==
  ASSUME IInv, NEW c \in Commands, ListReleaseExamples(c) PROVE IInv'
<1> DEFINE listing == InSplit(ExamplesAsOf(c), "release")
           s == [command[c] EXCEPT !.phase = "list_diagnostic", !.release = listing]
<1>1. /\ command[c].phase = "list" /\ Becomes(c, s)
      /\ UNCHANGED <<history, tag, files, moves>>
  BY DEF ListReleaseExamples
<1>2. /\ command[c] \in ExperimentStates /\ Listed(c) /\ ~Publishing(c)
      /\ listing \in Listings
      /\ Initial(c) \/ command[c].seen = moves =>
           listing = InSplit(history[command[c].version], "release")
  <2>1. "release" \in Splits
    BY DEF Splits
  <2> QED
    BY <1>1, <2>1, ExamplesListed
<1> HIDE DEF listing
<1>3. s \in ExperimentStates /\ s.phase = "list_diagnostic" /\ s.seen = command[c].seen
        /\ s.version = command[c].version /\ s.baseline = command[c].baseline
        /\ s.release = listing
  BY <1>2 DEF ExperimentStates
<1> HIDE DEF s
<1>4. command'[c] = s
  BY <1>1 DEF Becomes, IInv, TypeOK
<1>5. Listed(c)'
  BY <1>1, <1>2, <1>3, <1>4 DEF Listed, Initial
<1> QED
  BY <1>1, <1>2, <1>3, <1>5, ExperimentStep DEF ExperimentKeeps

\* The diagnostic examples are listed, of the same version unless the tag moved.
LEMMA ListDiagnosticExamplesKeeps ==
  ASSUME IInv, NEW c \in Commands, ListDiagnosticExamples(c) PROVE IInv'
<1> DEFINE listing == InSplit(ExamplesAsOf(c), "diagnostic")
           s == [command[c] EXCEPT !.phase = "evaluate", !.diagnostic = listing,
                                   !.late = moves # command[c].seen]
<1>1. /\ command[c].phase = "list_diagnostic" /\ Becomes(c, s)
      /\ UNCHANGED <<history, tag, files, moves>>
  BY DEF ListDiagnosticExamples
<1>2. /\ command[c] \in ExperimentStates /\ Listed(c) /\ ~Publishing(c)
      /\ listing \in Listings
      /\ Initial(c) \/ command[c].seen = moves =>
           listing = InSplit(history[command[c].version], "diagnostic")
  <2>1. "diagnostic" \in Splits
    BY DEF Splits
  <2> QED
    BY <1>1, <2>1, ExamplesListed
<1> HIDE DEF listing
<1>3. s \in ExperimentStates /\ s.phase = "evaluate" /\ s.seen = command[c].seen
        /\ s.version = command[c].version /\ s.baseline = command[c].baseline
        /\ s.release = command[c].release /\ s.diagnostic = listing
        /\ (~s.late => command[c].seen = moves)
  BY <1>2 DEF ExperimentStates
<1> HIDE DEF s
<1>4. command'[c] = s
  BY <1>1 DEF Becomes, IInv, TypeOK
<1>5. Listed(c)'
  BY <1>1, <1>2, <1>3, <1>4 DEF Listed, Initial
<1> QED
  BY <1>1, <1>2, <1>3, <1>5, ExperimentStep DEF ExperimentKeeps

-----------------------------------------------------------------------------
(* Reports                                                                 *)

\* A command that ends with a report, or part of one, keeps the invariant if
\* the report is true.
LEMMA FileStep ==
  ASSUME IInv, NEW c \in Commands, ~Publishing(c), Becomes(c, Idle),
         NEW name \in {"candidate", "accepted"}, NEW file,
         files' = [files EXCEPT ![name] = file],
         file \in Reports \cup {None, Damaged},
         IsReport(file) => Truthful(file),
         UNCHANGED <<history, tag, moves>>
  PROVE  IInv'
<1>1. Grown /\ SplitsKept'
  BY GrownBy DEF IInv, SplitsKept
<1>2. command' = [command EXCEPT ![c] = Idle] /\ spent' = spent /\ command'[c] = Idle
  BY DEF Becomes, IInv, TypeOK
<1>3. TypeOK'
  <2>1. Reports \subseteq Reports'
    BY <1>1, TypesGrow
  <2>2. files' \in [{"candidate", "accepted"} -> Reports' \cup {None, Damaged}]
    BY <2>1 DEF IInv, TypeOK
  <2>3. Idle \in States'
    BY DEF States
  <2> QED
    BY <1>1, <1>2, <2>2, <2>3, TypeStep DEF IInv, TypeOK
<1>4. CommandsKeep'
  <2> SUFFICES ASSUME NEW d \in Commands
               PROVE  (PublishKeeps(d) /\ ExperimentKeeps(d) /\ AcceptKeeps(d))'
    BY DEF CommandsKeep
  <2>1. CASE d = c
    <3>1. command'[d].phase = "idle"
      BY <1>2, <2>1 DEF Idle
    <3> QED
      BY <3>1 DEF PublishKeeps, Begun, Publishing, ExperimentKeeps, AcceptKeeps
  <2>2. CASE d # c
    <3>1. command'[d] = command[d]
      BY <1>2, <2>2 DEF IInv, TypeOK
    <3>2. \A e \in Commands \ {d} : ~Publishing(e) => ~Publishing(e)'
      BY <1>2 DEF IInv, TypeOK, Publishing, Idle
    <3> QED
      BY <1>1, <2>2, <3>1, <3>2, OthersKeep DEF IInv
  <2> QED
    BY <2>1, <2>2
<1>5. FilesKeep'
  <2> SUFFICES ASSUME NEW n \in {"candidate", "accepted"}, IsReport(files'[n])
               PROVE  (Truthful(files[n]))'
    <3>1. DOMAIN files' = {"candidate", "accepted"}
      BY <1>3 DEF TypeOK
    <3> QED
      BY <3>1 DEF FilesKeep, IsReport
  <2>1. PICK r \in Reports : r = files'[n] /\ Truthful(r)
    BY DEF IInv, TypeOK, IsReport, FilesKeep
  <2>2. Truthful(r)'
    BY <1>1, <2>1, TruthfulStays
  <2> QED
    BY <2>1, <2>2
<1>6. MovesCounted'
  <2>1. /\ IsFiniteSet(Tagging')
        /\ Cardinality(Tagging) \in Nat /\ Cardinality(Tagging') \in Nat
        /\ Cardinality(Tagging') <= Cardinality(Tagging)
    <3>1. Idle.phase # "tag"
      BY DEF Idle
    <3> QED
      BY <1>2, <3>1, TaggingStep DEF IInv
  <2>2. moves \in Nat /\ spent.accept \in Nat
    BY ReleaseAssumption DEF IInv, TypeOK
  <2> QED
    BY <1>2, <2>1, <2>2 DEF IInv, MovesCounted
<1> QED
  BY <1>1, <1>3, <1>4, <1>5, <1>6 DEF IInv

\* A scorecard is of its type, counts what was listed, and is compared with the
\* baseline of its experiment if there is one.
LEMMA ScorecardFacts ==
  ASSUME NEW c \in Commands, command[c] \in ExperimentStates, NEW measure \in Measures
  PROVE  LET card == Scorecard(c, measure)
             s == command[c]
         IN /\ card \in Cards
            /\ card.initial = (s.baseline = None)
            /\ s.baseline # None => card.comparison = CompareScorecards(card, s.baseline)
            /\ card.count = Cardinality(s.release)
            /\ card.errors = Cardinality(Errors(s.release, s.checkout))
<1> DEFINE s == command[c]
           count == Cardinality(s.release)
           errors == Cardinality(Errors(s.release, s.checkout))
           card(initial, comparison) ==
             [initial |-> initial, count |-> count, errors |-> errors,
              score |-> measure.score, cost |-> measure.cost, comparison |-> comparison]
<1>1. measure.score \in Nat /\ measure.cost \in Nat
  BY ReleaseAssumption
<1>2. count \in Counts /\ errors \in Counts
  BY ListingFinite DEF ExperimentStates
<1>3. CASE Initial(c)
  <2>1. Initial(c) = TRUE /\ (s.baseline = None) = TRUE
    BY <1>3 DEF Initial
  <2>2. Scorecard(c, measure) = card(TRUE, None)
    BY <1>3, <2>1 DEF Scorecard
  <2> HIDE DEF count, errors
  <2>3. card(TRUE, None) \in Cards
    BY <1>1, <1>2 DEF Cards
  <2>4. /\ card(TRUE, None).initial = TRUE
        /\ card(TRUE, None).count = count /\ card(TRUE, None).errors = errors
    OBVIOUS
  <2> HIDE DEF card
  <2> QED
    BY <2>1, <2>2, <2>3, <2>4 DEF count, errors
<1>4. CASE ~Initial(c)
  <2> DEFINE first == card(FALSE, None)
             comparison == CompareScorecards(first, s.baseline)
  <2>1. Initial(c) = FALSE /\ (s.baseline = None) = FALSE
    BY <1>4 DEF Initial
  <2>2. Scorecard(c, measure) = [first EXCEPT !.comparison = comparison]
    BY <1>4, <2>1 DEF Scorecard
  <2>3. s.baseline \in Cards
    BY <2>1, <1>2 DEF ExperimentStates
  <2>4. comparison \in Comparisons
    BY <1>1, <2>3, ComparisonTyped DEF Cards
  <2>5. comparison = CompareScorecards(card(FALSE, comparison), s.baseline)
    BY DEF CompareScorecards
  <2> HIDE DEF comparison, count, errors
  <2>6. Scorecard(c, measure) = card(FALSE, comparison)
    BY <2>2
  <2>7. card(FALSE, comparison) \in Cards
    BY <1>1, <1>2, <2>4 DEF Cards
  <2>8. /\ card(FALSE, comparison).initial = FALSE
        /\ card(FALSE, comparison).comparison = comparison
        /\ card(FALSE, comparison).count = count /\ card(FALSE, comparison).errors = errors
    OBVIOUS
  <2> HIDE DEF card
  <2> QED
    BY <2>1, <2>5, <2>6, <2>7, <2>8 DEF count, errors
<1> QED
  BY <1>3, <1>4

\* A report that is written is true: what passes the gate with its diagnostic
\* runs was counted whole.
LEMMA EvaluateKeeps ==
  ASSUME IInv, NEW c \in Commands, NEW measure \in Measures, NEW passed \in BOOLEAN,
         Evaluate(c, measure, passed)
  PROVE  IInv'
<1> DEFINE s == command[c]
           card == Scorecard(c, measure)
           diagnostic == DiagnosticPassed(c, passed)
           r == Report(s, card, diagnostic)
<1>1. /\ s.phase = "evaluate" /\ Becomes(c, Idle)
      /\ files' = [files EXCEPT !["candidate"] = r]
      /\ UNCHANGED <<history, tag, moves>>
  BY DEF Evaluate, Write
<1>2. s \in ExperimentStates /\ Listed(c) /\ ~Publishing(c)
  BY <1>1, PhaseTyped DEF IInv, CommandsKeep, ExperimentKeeps, Publishing
<1>3. /\ card \in Cards
      /\ card.initial = (s.baseline = None)
      /\ s.baseline # None => card.comparison = CompareScorecards(card, s.baseline)
      /\ card.count = Cardinality(s.release)
      /\ card.errors = Cardinality(Errors(s.release, s.checkout))
  BY <1>2, ScorecardFacts
<1>4. diagnostic \in BOOLEAN /\ Gate(card, FALSE) = FALSE
  BY DEF DiagnosticPassed, Gate
<1>5. diagnostic => /\ Cardinality(s.diagnostic) = Len(DiagnosticExamples)
                    /\ Errors(s.diagnostic, s.checkout) = {}
  BY DEF DiagnosticPassed
<1> HIDE DEF card, diagnostic
<1>6. r = [status |-> "pending", version |-> s.version, card |-> card,
           diagnostic |-> diagnostic, gate |-> FALSE, checkout |-> s.checkout,
           measured |-> s.release \cup s.diagnostic, baseline |-> s.baseline,
           late |-> s.late]
  BY <1>4 DEF Report
<1>7. r \in Reports
  <2>1. s.release \cup s.diagnostic \in SUBSET (Examples \X Checkouts)
    BY <1>2 DEF ExperimentStates, Listings
  <2>2. /\ s.version \in DOMAIN history /\ s.checkout \in Checkouts
        /\ s.baseline \in Cards \cup {None} /\ s.late \in BOOLEAN
    BY <1>2 DEF ExperimentStates
  <2> HIDE DEF s, r
  <2> QED
    BY <1>3, <1>4, <1>6, <2>1, <2>2 DEF Reports
<1>8. Truthful(r)
  <2> DEFINE content == history[s.version]
  <2>1. ~s.late => /\ s.release = InSplit(content, "release")
                   /\ s.diagnostic = InSplit(content, "diagnostic")
    BY <1>1, <1>2 DEF Listed
  <2>2. /\ r.card = card /\ r.baseline = s.baseline /\ r.late = s.late
        /\ r.measured = s.release \cup s.diagnostic /\ r.version = s.version
        /\ r.diagnostic = diagnostic /\ r.checkout = s.checkout
    BY <1>6
  <2>3. ~s.late => s.release \cup s.diagnostic = UNION {InSplit(content, split) : split \in Splits}
    BY <2>1 DEF Splits
  <2>4. ASSUME ~s.late, diagnostic, Gate(card, TRUE) PROVE Whole(content, s.checkout)
    <3>1. s.version \in DOMAIN history /\ s.checkout \in Checkouts /\ s.release \in Listings
      BY <1>2 DEF ExperimentStates
    <3>2. content \in Contents
      BY <3>1, LenProperties, ElementOfSeq DEF IInv, TypeOK
    <3>3. \A e \in Examples : content[e].split \in {None, SplitOf(e)}
      BY <3>1 DEF IInv, SplitsKept
    <3>4. Cardinality(s.release) = Len(ReleaseExamples)
            /\ Cardinality(Errors(s.release, s.checkout)) = 0
      BY <1>3, <2>4 DEF Gate
    <3>5. Errors(s.release, s.checkout) = {}
      BY <3>1, <3>4, ListingFinite, FS_EmptySet
    <3> HIDE DEF content, s
    <3> QED
      BY <1>5, <2>1, <2>4, <3>1, <3>2, <3>3, <3>4, <3>5, CountedIsWhole
  <2> HIDE DEF s, r
  <2> QED
    BY <1>3, <2>2, <2>3, <2>4 DEF Truthful
<1> HIDE DEF r
<1>9. "candidate" \in {"candidate", "accepted"}
  OBVIOUS
<1> QED
  BY <1>1, <1>2, <1>7, <1>8, <1>9, FileStep

-----------------------------------------------------------------------------
(* accept                                                                  *)

\* An acceptance holds a report that is true and passes the gate.
LEMMA StartAcceptKeeps ==
  ASSUME IInv, NEW c \in Commands, NEW name \in DOMAIN files, StartAccept(c, name)
  PROVE  IInv'
<1> DEFINE r == files[name]
           s == [phase |-> "tag", report |-> r]
<1>1. /\ IsReport(r) /\ r.diagnostic /\ Gate(r.card, TRUE)
      /\ command[c] = Idle /\ spent.accept < MaxAcceptances
      /\ spent' = [spent EXCEPT !.accept = @ + 1]
      /\ command' = [command EXCEPT ![c] = s]
      /\ UNCHANGED <<history, tag, files, moves>>
  BY DEF StartAccept, Begin
<1>2. r \in Reports /\ Truthful(r)
  BY <1>1 DEF IInv, TypeOK, FilesKeep, IsReport
<1> HIDE DEF r
<1>3. s \in AcceptStates /\ s.phase = "tag" /\ s.report = r
  BY <1>2 DEF AcceptStates
<1> HIDE DEF s
<1>4. Grown /\ SplitsKept'
  BY <1>1, GrownBy DEF IInv, SplitsKept
<1>5. s \in States'
  BY <1>3, <1>4, TypesGrow DEF States
<1>6. command'[c] = s
  BY <1>1 DEF IInv, TypeOK
<1>7. ~Publishing(c)' /\ (PublishKeeps(c) /\ ExperimentKeeps(c))'
  BY <1>3, <1>6 DEF PublishKeeps, Begun, Publishing, ExperimentKeeps
<1>8. AcceptKeeps(c)'
  <2>1. PICK q \in Reports : q = r
    BY <1>2
  <2>2. Truthful(q) /\ q.diagnostic /\ Gate(q.card, TRUE)
    BY <1>1, <1>2, <2>1
  <2>3. Truthful(q)'
    BY <1>4, <2>2, TruthfulStays
  <2>4. command'[c].report = q
    BY <1>3, <1>6, <2>1
  <2> QED
    BY <2>2, <2>3, <2>4 DEF AcceptKeeps
<1>9. /\ spent' \in [publish : 0..MaxPublishes, experiment : 0..MaxExperiments,
                     accept : 0..MaxAcceptances]
      /\ spent.accept < spent'.accept
  <2>1. MaxAcceptances \in Nat
    BY ReleaseAssumption
  <2>2. spent \in [publish : 0..MaxPublishes, experiment : 0..MaxExperiments,
                   accept : 0..MaxAcceptances]
    BY DEF IInv, TypeOK
  <2>3. spent.accept + 1 \in 0..MaxAcceptances /\ spent.accept < spent.accept + 1
    BY <1>1, <2>1, <2>2
  <2> QED
    BY <1>1, <2>2, <2>3
<1>10. spent.accept <= spent'.accept
  <2>1. MaxAcceptances \in Nat
    BY ReleaseAssumption
  <2>2. spent.accept \in 0..MaxAcceptances /\ spent'.accept \in 0..MaxAcceptances
    BY <1>9 DEF IInv, TypeOK
  <2> QED
    BY <1>9, <2>1, <2>2
<1> QED
  BY <1>1, <1>4, <1>5, <1>7, <1>8, <1>9, <1>10, CommandStep

\* What an acceptance that has begun holds.
LEMMA Accepting ==
  ASSUME IInv, NEW c \in Commands, command[c].phase \in {"tag", "record"}
  PROVE  /\ command[c] \in AcceptStates /\ ~Publishing(c)
         /\ command[c].report \in Reports /\ Truthful(command[c].report)
         /\ command[c].report.diagnostic /\ Gate(command[c].report.card, TRUE)
BY PhaseTyped DEF IInv, CommandsKeep, AcceptKeeps, AcceptStates, Publishing

\* The tag moves to a version there is, once for every acceptance.
LEMMA MoveTagKeeps ==
  ASSUME IInv, NEW c \in Commands, MoveTag(c) PROVE IInv'
<1> DEFINE s == [command[c] EXCEPT !.phase = "record"]
<1>1. /\ command[c].phase = "tag" /\ Becomes(c, s)
      /\ tag' = command[c].report.version
      /\ moves' = (IF tag' = tag THEN moves ELSE moves + 1)
      /\ history' = history /\ files' = files
  BY DEF MoveTag
<1>2. /\ command[c] \in AcceptStates /\ ~Publishing(c)
      /\ command[c].report \in Reports /\ Truthful(command[c].report)
      /\ command[c].report.diagnostic /\ Gate(command[c].report.card, TRUE)
  BY <1>1, Accepting
<1>3. s \in AcceptStates /\ s.phase = "record" /\ s.report = command[c].report
  BY <1>2 DEF AcceptStates
<1> HIDE DEF s
<1>4. Grown /\ SplitsKept'
  BY <1>1, GrownBy DEF IInv, SplitsKept
<1>5. s \in States'
  BY <1>3, <1>4, TypesGrow DEF States
<1>6. /\ command' = [command EXCEPT ![c] = s] /\ spent' = spent /\ command'[c] = s
      /\ \A d \in Commands \ {c} : command'[d] = command[d]
  BY <1>1 DEF Becomes, IInv, TypeOK
<1>7. TagMoves
  BY <1>1, <1>2 DEF TagMoves, Reports
<1>8. MovesCounted' /\ moves' \in 0..MaxAcceptances
  <2>1. /\ IsFiniteSet(Tagging')
        /\ Cardinality(Tagging) \in Nat /\ Cardinality(Tagging') \in Nat
        /\ Cardinality(Tagging') = Cardinality(Tagging) - 1
    BY <1>1, <1>3, <1>6, TaggingStep DEF IInv
  <2>2. moves \in Nat /\ spent.accept \in 0..MaxAcceptances /\ MaxAcceptances \in Nat
    BY ReleaseAssumption DEF IInv, TypeOK
  <2>3. moves + Cardinality(Tagging) <= spent.accept
    BY DEF IInv, MovesCounted
  <2>4. moves' \in Nat /\ moves' <= moves + 1
    BY <1>1, <2>2
  <2> QED
    BY <1>6, <2>1, <2>2, <2>3, <2>4 DEF MovesCounted
<1>9. TypeOK'
  <2>1. tag' \in 0..Len(history')
    <3>1. DOMAIN history' = 1..Len(history') /\ Len(history') \in Nat
      BY <1>4, LenProperties DEF Grown
    <3> QED
      BY <1>1, <1>7, <3>1 DEF TagMoves
  <2>2. files' \in [{"candidate", "accepted"} -> Reports' \cup {None, Damaged}]
    BY <1>1, <1>4, FilesTyped DEF IInv
  <2> QED
    BY <1>4, <1>5, <1>6, <1>8, <2>1, <2>2, TypeStep DEF IInv, TypeOK
<1>10. CommandsKeep'
  <2> SUFFICES ASSUME NEW d \in Commands
               PROVE  (PublishKeeps(d) /\ ExperimentKeeps(d) /\ AcceptKeeps(d))'
    BY DEF CommandsKeep
  <2>1. CASE d = c
    <3>1. (PublishKeeps(d) /\ ExperimentKeeps(d))'
      BY <1>3, <1>6, <2>1 DEF PublishKeeps, Begun, Publishing, ExperimentKeeps
    <3>2. PICK r \in Reports : r = command'[d].report /\ Truthful(r) /\ r.diagnostic /\ Gate(r.card, TRUE)
      BY <1>2, <1>3, <1>6, <2>1
    <3>3. Truthful(command[d].report)'
      <4>1. Truthful(r)'
        BY <1>4, <3>2, TruthfulStays
      <4>2. command'[d].report = r
        BY <3>2
      <4> QED
        BY <4>1, <4>2 DEF Truthful
    <3>4. AcceptKeeps(d)'
      BY <3>2, <3>3 DEF AcceptKeeps, Gate, BaselineValid
    <3> QED
      BY <3>1, <3>4
  <2>2. CASE d # c
    <3>1. \A e \in Commands \ {d} : ~Publishing(e) => ~Publishing(e)'
      BY <1>3, <1>6 DEF Publishing
    <3> QED
      BY <1>1, <1>4, <1>6, <1>7, <2>2, <3>1, OthersKeep DEF IInv
  <2> QED
    BY <2>1, <2>2
<1>11. FilesKeep'
  <2>1. \A name \in DOMAIN files : IsReport(files[name]) => files[name] \in Reports
    BY DEF IInv, TypeOK, IsReport
  <2> QED
    BY <1>1, <1>4, <2>1, TruthfulStays DEF IInv, FilesKeep
<1> QED
  BY <1>4, <1>8, <1>9, <1>10, <1>11 DEF IInv

\* The accepted report is the one that was held.
LEMMA WriteAcceptedKeeps ==
  ASSUME IInv, NEW c \in Commands, WriteAccepted(c) PROVE IInv'
<1> DEFINE r == command[c].report
           file == [r EXCEPT !.status = "approved", !.gate = Gate(r.card, TRUE)]
<1>1. /\ command[c].phase = "record" /\ Becomes(c, Idle)
      /\ files' = [files EXCEPT !["accepted"] = file]
      /\ UNCHANGED <<history, tag, moves>>
  BY DEF WriteAccepted, Write
<1>2. ~Publishing(c) /\ r \in Reports /\ Truthful(r)
  BY <1>1, Accepting
<1>3. Gate(r.card, TRUE) = TRUE
  BY <1>1, Accepting DEF Gate
<1>4. file \in Reports /\ Truthful(file)
  <2>1. file = [r EXCEPT !.status = "approved", !.gate = TRUE]
    BY <1>3
  <2> HIDE DEF file, r
  <2>2. file \in Reports
    BY <1>2, <2>1 DEF Reports
  <2>3. /\ file.card = r.card /\ file.baseline = r.baseline /\ file.late = r.late
        /\ file.measured = r.measured /\ file.version = r.version
        /\ file.diagnostic = r.diagnostic /\ file.checkout = r.checkout
    BY <1>2, <2>1 DEF Reports
  <2> QED
    BY <1>2, <2>2, <2>3 DEF Truthful
<1> HIDE DEF file
<1>5. "accepted" \in {"candidate", "accepted"}
  OBVIOUS
<1> QED
  BY <1>1, <1>2, <1>4, <1>5, FileStep

\* A file that is cut short is no report.
LEMMA StopWhileWritingKeeps ==
  ASSUME IInv, NEW c \in Commands, StopWhileWriting(c) PROVE IInv'
<1>1. PICK name \in {"candidate", "accepted"} : files' = [files EXCEPT ![name] = Damaged]
  BY DEF StopWhileWriting, Write
<1>2. Becomes(c, Idle) /\ UNCHANGED <<history, tag, moves>> /\ ~Publishing(c)
  BY DEF StopWhileWriting, Publishing
<1>3. ~IsReport(Damaged) /\ Damaged \in Reports \cup {None, Damaged}
  BY DEF IsReport
<1> QED
  BY <1>1, <1>2, <1>3, FileStep

\* A command that stops holds nothing.
LEMMA StopKeeps ==
  ASSUME IInv, NEW c \in Commands, Stop(c) PROVE IInv'
<1>1. Becomes(c, Idle) /\ UNCHANGED <<history, tag, files, moves>>
  BY DEF Stop
<1>2. Grown /\ SplitsKept'
  BY <1>1, GrownBy DEF IInv, SplitsKept
<1>3. Idle \in States' /\ Idle.phase = "idle"
  BY DEF Idle, States
<1>4. command'[c].phase = "idle"
  BY <1>1, <1>3 DEF Becomes, IInv, TypeOK
<1>5. ~Publishing(c)' /\ (PublishKeeps(c) /\ ExperimentKeeps(c) /\ AcceptKeeps(c))'
  BY <1>4 DEF PublishKeeps, Begun, Publishing, ExperimentKeeps, AcceptKeeps
<1> QED
  BY <1>1, <1>2, <1>3, <1>5, BecomesStep

-----------------------------------------------------------------------------
(* The theorems                                                            *)

LEMMA InitKeeps == Init => IInv
<1> SUFFICES ASSUME Init PROVE IInv
  OBVIOUS
<1>1. \A c \in Commands : command[c] = Idle /\ command[c].phase = "idle"
  BY DEF Init, Idle
<1>2. TypeOK
  <2>1. history \in Seq(Contents) /\ Len(history) = 0
    BY EmptySeq DEF Init
  <2> QED
    BY <2>1, ReleaseAssumption DEF Init, TypeOK
<1>3. DOMAIN history = {}
  BY EmptySeq DEF Init
<1>4. SplitsKept
  BY <1>3 DEF SplitsKept
<1>5. CommandsKeep
  BY <1>1 DEF CommandsKeep, PublishKeeps, Begun, Publishing, ExperimentKeeps, AcceptKeeps
<1>6. FilesKeep
  BY DEF Init, FilesKeep, IsReport
<1>7. MovesCounted
  <2>1. Tagging = {}
    BY <1>1 DEF Tagging
  <2> QED
    BY <2>1, FS_EmptySet, ReleaseAssumption DEF Init, MovesCounted
<1> QED
  BY <1>2, <1>4, <1>5, <1>6, <1>7 DEF IInv

LEMMA StutterKeeps == IInv /\ UNCHANGED vars => IInv'
<1> SUFFICES ASSUME IInv, UNCHANGED vars PROVE IInv'
  OBVIOUS
<1>1. TypeOK'
  BY DEF IInv, vars, TypeOK, Reports, PublishStates, ExperimentStates, AcceptStates
<1>2. Grown
  BY GrownBy DEF IInv, vars
<1>3. CommandsKeep'
  <2> SUFFICES ASSUME NEW d \in Commands
               PROVE  (PublishKeeps(d) /\ ExperimentKeeps(d) /\ AcceptKeeps(d))'
    BY DEF CommandsKeep
  <2>1. PublishKeeps(d) /\ ExperimentKeeps(d) /\ AcceptKeeps(d)
    BY DEF IInv, CommandsKeep
  <2>2. PublishKeeps(d)'
    BY <2>1 DEF vars, PublishKeeps, Begun, Publishing, Progress, Whole
  <2>3. ExperimentKeeps(d)'
    BY <2>1 DEF vars, ExperimentKeeps, Listed, Initial
  <2>4. AcceptKeeps(d)'
    <3>1. command[d].phase \in {"tag", "record"} => command[d].report \in Reports
      BY PhaseTyped DEF IInv, AcceptStates
    <3> QED
      BY <1>2, <2>1, <3>1, TruthfulStays DEF vars, AcceptKeeps
  <2> QED
    BY <2>2, <2>3, <2>4
<1>4. FilesKeep'
  <2>1. \A name \in DOMAIN files : IsReport(files[name]) => files[name] \in Reports
    BY DEF IInv, TypeOK, IsReport
  <2> QED
    BY <1>2, <2>1, TruthfulStays DEF vars, IInv, FilesKeep
<1>5. SplitsKept' /\ MovesCounted'
  BY DEF IInv, vars, SplitsKept, MovesCounted, Tagging
<1> QED
  BY <1>1, <1>3, <1>4, <1>5 DEF IInv

LEMMA NextKeeps == IInv /\ Next => IInv'
<1> SUFFICES ASSUME IInv, NEW c \in Commands,
                    Publish(c) \/ Experiment(c) \/ Accept(c) \/ Stop(c) \/ StopWhileWriting(c)
             PROVE  IInv'
  BY DEF Next
<1>1. CASE Publish(c)
  BY <1>1, StartPublishKeeps, ListExistingKeeps, UpdateExampleKeeps, CreateExamplesKeeps,
     AssignSplitKeeps, ReturnLatestKeeps
  DEF Publish
<1>2. CASE Experiment(c)
  BY <1>2, StartExperimentKeeps, ResolveVersionKeeps, ListReleaseExamplesKeeps,
     ListDiagnosticExamplesKeeps, EvaluateKeeps
  DEF Experiment
<1>3. CASE Accept(c)
  BY <1>3, StartAcceptKeeps, MoveTagKeeps, WriteAcceptedKeeps DEF Accept
<1>4. CASE Stop(c)
  BY <1>4, StopKeeps
<1>5. CASE StopWhileWriting(c)
  BY <1>5, StopWhileWritingKeeps
<1> QED
  BY <1>1, <1>2, <1>3, <1>4, <1>5

LEMMA Invariance == Spec => []IInv
<1>1. IInv /\ [Next]_vars => IInv'
  BY NextKeeps, StutterKeeps
<1> QED
  BY InitKeeps, <1>1, PTL DEF Spec

\* Everything keeps its type: in particular a regression is never negative, what
\* is listed has one entry per example, and the tag names a version.
THEOREM TypeCorrect == Spec => []TypeOK
BY Invariance, PTL DEF IInv

\* A publish beside which nobody else published returns a whole version
\* (publish_golden_candidate), however many earlier ones stopped half-way.
THEOREM PublishedAlwaysWhole == Spec => []PublishedWhole
<1>1. IInv => PublishedWhole
  BY DEF IInv, CommandsKeep, PublishKeeps, PublishedWhole
<1> QED
  BY <1>1, Invariance, PTL

\* Every report was measured on the two splits of the version it names
\* (_run_experiment), unless release-v1 moved while they were listed.
THEOREM ReportsOfTheirVersion == Spec => []ReportOfItsVersion
<1>1. IInv => ReportOfItsVersion
  BY DEF IInv, FilesKeep, Truthful, ReportOfItsVersion
<1> QED
  BY <1>1, Invariance, PTL

\* What release-v1 comes to name is whole and of the checkout that measured it
\* (_accept_candidate): no step moves the tag to what a stopped publish left.
THEOREM TagsEarned == Spec => TagEarned
<1> DEFINE Earned ==
      \A c \in Commands :
        (Tags(c) /\ ~command[c].report.late) =>
          Whole(history[tag'], command[c].report.checkout)
<1>1. IInv /\ [Next]_vars => Earned
  <2> SUFFICES ASSUME IInv, [Next]_vars, NEW c \in Commands, Tags(c), ~command[c].report.late
               PROVE  Whole(history[tag'], command[c].report.checkout)
    OBVIOUS
  <2>1. /\ Truthful(command[c].report)
        /\ command[c].report.diagnostic /\ Gate(command[c].report.card, TRUE)
    BY Accepting DEF Tags
  <2>2. tag' = command[c].report.version
    <3>1. tag' # tag
      BY DEF Tags
    <3>2. PICK d \in Commands : MoveTag(d)
      BY <3>1
      DEF Next, vars, Publish, Experiment, Accept, StartPublish, ListExisting, UpdateExample,
          CreateExamples, AssignReleaseSplit, AssignDiagnosticSplit, AssignSplit, ReturnLatest,
          StartExperiment, ResolveVersion, ListReleaseExamples, ListDiagnosticExamples, Evaluate,
          StartAccept, WriteAccepted, Stop, StopWhileWriting
    <3>3. d = c
      BY <3>2 DEF MoveTag, Becomes, Tags, IInv, TypeOK
    <3> QED
      BY <3>2, <3>3 DEF MoveTag
  <2> QED
    BY <2>1, <2>2 DEF Truthful
<1> QED
  BY <1>1, Invariance, PTL DEF Spec, TagEarned

\* An accepted report that replaces its baseline keeps to the thresholds, whatever
\* came between the reading of the baseline and the acceptance (gate_release).
THEOREM AcceptedReportsNeverRegress == Spec => AcceptedNeverRegresses
<1> DEFINE NoRegression ==
      LET old == files.accepted
          new == files'.accepted
      IN (old # new /\ IsReport(old) /\ IsReport(new) /\ new.baseline = old.card) =>
           /\ new.card.score + MaxRegression >= old.card.score
           /\ new.card.cost * 100 <= old.card.cost * (100 + MaxIncrease)
<1>1. IInv /\ [Next]_vars => NoRegression
  <2> DEFINE old == files.accepted
             new == files'.accepted
  <2> SUFFICES ASSUME IInv, [Next]_vars,
                      old # new, IsReport(old), IsReport(new), new.baseline = old.card
               PROVE  /\ new.card.score + MaxRegression >= old.card.score
                      /\ new.card.cost * 100 <= old.card.cost * (100 + MaxIncrease)
    OBVIOUS
  <2>1. PICK c \in Commands : WriteAccepted(c)
    <3>1. ~\E c \in Commands : StopWhileWriting(c)
      BY DEF StopWhileWriting, Write, IsReport, IInv, TypeOK
    <3>2. ~\E c \in Commands, measure \in Measures, passed \in BOOLEAN : Evaluate(c, measure, passed)
      BY DEF Evaluate, Write, IInv, TypeOK
    <3> QED
      BY <3>1, <3>2
      DEF Next, vars, Publish, Experiment, Accept, StartPublish, ListExisting, UpdateExample,
          CreateExamples, AssignReleaseSplit, AssignDiagnosticSplit, AssignSplit, ReturnLatest,
          StartExperiment, ResolveVersion, ListReleaseExamples, ListDiagnosticExamples,
          StartAccept, MoveTag, Stop
  <2> DEFINE r == command[c].report
  <2>2. r \in Reports /\ Truthful(r) /\ Gate(r.card, TRUE)
    BY <2>1, Accepting DEF WriteAccepted
  <2>3. new.card = r.card /\ new.baseline = r.baseline
    BY <2>1, <2>2 DEF WriteAccepted, Write, IInv, TypeOK, Reports
  <2>4. old.card \in Cards /\ r.card \in Cards
    BY <2>2 DEF IInv, TypeOK, IsReport, Reports
  <2>5. r.baseline # None
    BY <2>3, <2>4, NoneAssumption
  <2>6. ~r.card.initial /\ r.card.comparison = CompareScorecards(r.card, old.card)
    BY <2>2, <2>3, <2>5 DEF Truthful
  <2> HIDE DEF old, new, r
  <2> QED
    BY <2>2, <2>3, <2>4, <2>6, GateKeepsThresholds
<1> QED
  BY <1>1, Invariance, PTL DEF Spec, AcceptedNeverRegresses

=============================================================================
