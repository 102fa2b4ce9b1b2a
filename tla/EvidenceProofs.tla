---------------------------- MODULE EvidenceProofs ----------------------------
(***************************************************************************)
(* Theorems about Evidence, for all documents, corpora and sources, every  *)
(* limit, every ranking and any number of requests and changes: results    *)
(* are consistent and of the corpora they report, the Evidence Set drops   *)
(* nothing silently, knows where its items come from and what they cost,   *)
(* and is current when it is expanded.                                     *)
(*                                                                         *)
(* The folds of the model are functions defined by recursion on the length *)
(* of a sequence.  Recursion shows that such a function exists, once for   *)
(* every step that is itself a function, and Steps carries what holds of   *)
(* its values from one to the next; both follow from the library's         *)
(* theorem that < is well founded on Nat.                                  *)
(***************************************************************************)
EXTENDS Evidence, FiniteSetTheorems, SequenceTheorems, WellFoundedInduction, TLAPS

-----------------------------------------------------------------------------
(* Recursion                                                               *)

\* Induction over the natural numbers, for a set.
LEMMA Induct ==
  ASSUME NEW T \in SUBSET Nat, 0 \in T, \A n \in T : n + 1 \in T
  PROVE  T = Nat
<1> SUFFICES ASSUME Nat \ T # {} PROVE FALSE
  OBVIOUS
<1>1. PICK x \in Nat \ T : \A y \in Nat \ T : ~(<<y, x>> \in OpToRel(<, Nat))
  BY NatLessThanWellFounded, WFMin
<1>2. x # 0 /\ x - 1 \in Nat
  OBVIOUS
<1>3. x - 1 \notin T
  BY <1>2
<1>4. <<x - 1, x>> \in OpToRel(<, Nat)
  BY <1>2 DEF OpToRel
<1> QED
  BY <1>1, <1>2, <1>3, <1>4

\* What holds at 0 and is kept by every step up to N holds up to N.
LEMMA Steps ==
  ASSUME NEW N \in Nat, NEW T, 0 \in T, \A n \in 1..N : n - 1 \in T => n \in T
  PROVE  \A n \in 0..N : n \in T
<1> DEFINE U == {n \in Nat : n <= N => n \in T}
<1>1. 0 \in U
  OBVIOUS
<1>2. ASSUME NEW n \in U PROVE n + 1 \in U
  <2> SUFFICES ASSUME n + 1 <= N PROVE n + 1 \in T
    OBVIOUS
  <2>1. n \in T /\ n + 1 \in 1..N /\ (n + 1) - 1 = n
    OBVIOUS
  <2> QED
    BY <2>1
<1>3. U = Nat
  <2>1. U \in SUBSET Nat
    OBVIOUS
  <2> HIDE DEF U
  <2> QED
    BY <1>1, <1>2, <2>1, Induct
<1> QED
  BY <1>3

\* The values of a recursion up to N.
Recurs(f, N, base, step) == f[0] = base /\ \A n \in 1..N : f[n] = step[n][f[n - 1]]

\* A function defined by recursion exists, if its steps stay in a set.
LEMMA Recursion ==
  ASSUME NEW N \in Nat, NEW S, NEW base \in S, NEW step \in [1..N -> [S -> S]]
  PROVE  \E f \in [0..N -> S] : Recurs(f, N, base, step)
<1> DEFINE T == {m \in 0..N : \E f \in [0..m -> S] : Recurs(f, m, base, step)}
<1>1. 0 \in T
  <2> DEFINE g == [n \in 0..0 |-> base]
  <2>1. g \in [0..0 -> S] /\ Recurs(g, 0, base, step)
    BY DEF Recurs
  <2> HIDE DEF g
  <2> QED
    BY <2>1
<1>2. ASSUME NEW m \in 1..N, m - 1 \in T PROVE m \in T
  <2>1. PICK f \in [0..(m - 1) -> S] : Recurs(f, m - 1, base, step)
    BY <1>2
  <2> DEFINE x == step[m][f[m - 1]]
             g == [n \in 0..m |-> IF n = m THEN x ELSE f[n]]
  <2>2. x \in S
    OBVIOUS
  <2>3. x = step[m][f[m - 1]]
    OBVIOUS
  <2> HIDE DEF x
  <2>4. g \in [0..m -> S]
    BY <2>2
  <2>5. g[0] = base
    BY <2>1 DEF Recurs
  <2>6. ASSUME NEW n \in 1..m PROVE g[n] = step[n][g[n - 1]]
    <3>1. g[n - 1] = f[n - 1]
      OBVIOUS
    <3>2. CASE n = m
      BY <2>3, <3>1, <3>2
    <3>3. CASE n # m
      <4>1. n \in 1..(m - 1) /\ g[n] = f[n]
        BY <3>3
      <4> QED
        BY <2>1, <3>1, <4>1 DEF Recurs
    <3> QED
      BY <3>2, <3>3
  <2>7. Recurs(g, m, base, step)
    BY <2>5, <2>6 DEF Recurs
  <2> HIDE DEF g
  <2> QED
    BY <2>4, <2>7
<1> HIDE DEF T
<1>3. N \in T
  <2>1. \A n \in 0..N : n \in T
    BY <1>1, <1>2, Steps
  <2> QED
    BY <2>1
<1> QED
  BY <1>3 DEF T

\* What holds of the first value and is kept by every step holds of all values.
LEMMA StaysIn ==
  ASSUME NEW N \in Nat, NEW S, NEW run, run[0] \in S,
         \A n \in 1..N : run[n - 1] \in S => run[n] \in S
  PROVE  \A n \in 0..N : run[n] \in S
<1> DEFINE T == {n \in 0..N : run[n] \in S}
<1>1. 0 \in T
  OBVIOUS
<1>2. \A n \in 1..N : n - 1 \in T => n \in T
  OBVIOUS
<1> HIDE DEF T
<1>3. \A n \in 0..N : n \in T
  BY <1>1, <1>2, Steps
<1> QED
  BY <1>3 DEF T

-----------------------------------------------------------------------------
(* Sums                                                                    *)

\* The partial sums of a sequence of numbers.
LEMMA TotalRuns ==
  ASSUME NEW s \in Seq(Nat)
  PROVE  \E run \in [0..Len(s) -> Nat] :
           /\ run[0] = 0
           /\ \A n \in 1..Len(s) : run[n] = run[n - 1] + s[n]
           /\ Total(s) = run[Len(s)]
<1> DEFINE N == Len(s)
           zero == 0
           S == Nat
           step == [n \in 1..N |-> [x \in Nat |-> x + s[n]]]
           run == CHOOSE run : run = [n \in 0..N |-> IF n = 0 THEN 0 ELSE run[n - 1] + s[n]]
<1>1. N \in Nat /\ \A n \in 1..N : s[n] \in Nat
  BY LenProperties, ElementOfSeq
<1>2. Total(s) = run[N]
  BY DEF Total
<1>0. N \in Nat
  BY LenProperties
<1>3. step \in [1..N -> [S -> S]]
  BY <1>1
<1>9. \A n \in 1..N, x \in Nat : step[n][x] = x + s[n]
  BY <1>1
<1>4. zero \in S
  OBVIOUS
<1> HIDE DEF step, N, S, zero, run
<1>5. \E f : f = [n \in 0..N |-> IF n = 0 THEN 0 ELSE f[n - 1] + s[n]]
  <2>1. PICK f \in [0..N -> S] : Recurs(f, N, zero, step)
    BY <1>0, <1>3, <1>4, Recursion
  <2>2. \A n \in 0..N : n # 0 => n \in 1..N /\ f[n - 1] \in Nat
    BY <1>1 DEF S
  <2>3. \A n \in 0..N : f[n] = IF n = 0 THEN 0 ELSE f[n - 1] + s[n]
    BY <1>9, <2>1, <2>2 DEF zero, Recurs
  <2>4. f = [n \in 0..N |-> f[n]]
    OBVIOUS
  <2> QED
    BY <2>3, <2>4
<1>6. run = [n \in 0..N |-> IF n = 0 THEN 0 ELSE run[n - 1] + s[n]]
  BY <1>5 DEF run
<1>7. run[0] = zero /\ \A n \in 1..N : run[n] = run[n - 1] + s[n]
  BY <1>1, <1>6 DEF zero
<1>8. \A n \in 0..N : run[n] \in Nat
  <2>1. \A n \in 1..N : run[n - 1] \in Nat => run[n] \in Nat
    <3> TAKE n \in 1..N
    <3>1. n - 1 \in 0..N /\ s[n] \in Nat
      BY <1>1
    <3>2. run[n] = run[n - 1] + s[n]
      BY <1>7
    <3> QED
      BY <3>1, <3>2
  <2>2. run[0] \in Nat
    BY <1>4, <1>7 DEF S
  <2> QED
    BY <1>1, <2>1, <2>2, StaysIn
<1>10. run \in [0..N -> Nat]
  BY <1>6, <1>8
<1> QED
  BY <1>2, <1>7, <1>10 DEF N, zero

\* The sum of numbers is a number, of none is 0, and grows by what is appended.
LEMMA TotalType ==
  ASSUME NEW s \in Seq(Nat)
  PROVE  Total(s) \in Nat
<1>1. Len(s) \in 0..Len(s)
  BY LenProperties
<1> QED
  BY <1>1, TotalRuns

LEMMA TotalEmpty == Total(<<>>) = 0
<1>1. <<>> \in Seq(Nat) /\ Len(<<>>) = 0
  BY EmptySeq
<1> QED
  BY <1>1, TotalRuns

LEMMA TotalAppend ==
  ASSUME NEW s \in Seq(Nat), NEW x \in Nat
  PROVE  Total(Append(s, x)) = Total(s) + x
<1> DEFINE N == Len(s)
           t == Append(s, x)
<1>1. N \in Nat /\ t \in Seq(Nat) /\ Len(t) = N + 1 /\ t[N + 1] = x /\ \A n \in 1..N : t[n] = s[n]
  BY LenProperties, AppendProperties
<1>2. PICK f \in [0..N -> Nat] :
             f[0] = 0 /\ (\A n \in 1..N : f[n] = f[n - 1] + s[n]) /\ Total(s) = f[N]
  BY TotalRuns
<1> HIDE DEF N, t
<1>3. PICK g \in [0..(N + 1) -> Nat] :
             g[0] = 0 /\ (\A n \in 1..(N + 1) : g[n] = g[n - 1] + t[n]) /\ Total(t) = g[N + 1]
  BY <1>1, TotalRuns
<1>4. \A n \in 0..N : n \in {k \in 0..N : f[k] = g[k]}
  <2> DEFINE T == {k \in 0..N : f[k] = g[k]}
  <2>1. 0 \in T
    BY <1>1, <1>2, <1>3
  <2>2. ASSUME NEW n \in 1..N, n - 1 \in T PROVE n \in T
    <3>1. f[n] = f[n - 1] + s[n] /\ n \in 0..N
      BY <1>1, <1>2
    <3>2. g[n] = g[n - 1] + t[n] /\ t[n] = s[n]
      <4>1. n \in 1..(N + 1) /\ t[n] = s[n]
        BY <1>1
      <4> QED
        BY <1>3, <4>1
    <3> QED
      BY <2>2, <3>1, <3>2
  <2> HIDE DEF T
  <2>3. \A n \in 0..N : n \in T
    BY <1>1, <2>1, <2>2, Steps
  <2> QED
    BY <2>3 DEF T
<1>5. f[N] = g[N] /\ (N + 1) - 1 = N /\ N + 1 \in 1..(N + 1)
  BY <1>1, <1>4
<1>6. g[N + 1] = g[N] + t[N + 1]
  BY <1>3, <1>5
<1> QED
  BY <1>1, <1>2, <1>3, <1>5, <1>6 DEF t

-----------------------------------------------------------------------------
(* Sequences and finite sets                                               *)

LEMMA SequenceOf ==
  ASSUME NEW n \in Nat, NEW S, NEW f \in [1..n -> S]
  PROVE  f \in Seq(S) /\ Len(f) = n /\ DOMAIN f = 1..n
<1>1. f \in Seq(S)
  BY SeqDef
<1>2. DOMAIN f = 1..Len(f) /\ Len(f) \in Nat
  BY <1>1, LenProperties
<1> QED
  BY <1>1, <1>2

LEMMA UpToN ==
  ASSUME NEW n \in Nat
  PROVE  IsFiniteSet(1..n) /\ Cardinality(1..n) = n
<1>1. IsFiniteSet(1..n) /\ Cardinality(1..n) = IF 1 > n THEN 0 ELSE n - 1 + 1
  BY FS_Interval
<1> QED
  BY <1>1

\* A function has no more values than arguments, and as many if it is injective.
LEMMA FewerValues ==
  ASSUME NEW f, IsFiniteSet(DOMAIN f), f = [x \in DOMAIN f |-> f[x]]
  PROVE  /\ IsFiniteSet({f[x] : x \in DOMAIN f})
         /\ Cardinality({f[x] : x \in DOMAIN f}) <= Cardinality(DOMAIN f)
         /\ Cardinality({f[x] : x \in DOMAIN f}) = Cardinality(DOMAIN f) <=> IsInjective(f)
<1> DEFINE S == DOMAIN f
           T == {f[x] : x \in DOMAIN f}
<1>1. f \in Surjection(S, T)
  BY DEF Surjection
<1>2. f \in [S -> T]
  OBVIOUS
<1>3. f \in Injection(S, T) <=> IsInjective(f)
  BY <1>2 DEF Injection
<1> HIDE DEF S, T
<1>4. IsFiniteSet(T) /\ Cardinality(T) <= Cardinality(S)
      /\ (Cardinality(T) = Cardinality(S) <=> f \in Injection(S, T))
  BY <1>1, FS_Surjection DEF S
<1> QED
  BY <1>3, <1>4 DEF S, T

\* A sequence has finitely many elements, at most as many as its length.
LEMMA FewerElements ==
  ASSUME NEW S, NEW s \in Seq(S)
  PROVE  /\ IsFiniteSet(ToSet(s)) /\ Cardinality(ToSet(s)) \in Nat
         /\ Cardinality(ToSet(s)) <= Len(s)
         /\ Cardinality(ToSet(s)) = Len(s) <=> IsInjective(s)
<1>1. Len(s) \in Nat /\ DOMAIN s = 1..Len(s) /\ s = [i \in DOMAIN s |-> s[i]]
  BY LenProperties
<1>2. IsFiniteSet(1..Len(s)) /\ Cardinality(1..Len(s)) = Len(s)
  BY <1>1, UpToN
<1>3. IsFiniteSet({s[i] : i \in DOMAIN s})
  BY <1>1, <1>2, FewerValues
<1> QED
  BY <1>1, <1>2, <1>3, FewerValues, FS_CardinalityType DEF ToSet

\* A set with an injection into a finite set is finite, and no larger.
LEMMA InjectedInto ==
  ASSUME NEW S, NEW T, IsFiniteSet(T), NEW f \in [S -> T], \A x, y \in S : f[x] = f[y] => x = y
  PROVE  /\ IsFiniteSet(S) /\ Cardinality(S) \in Nat /\ Cardinality(T) \in Nat
         /\ Cardinality(S) <= Cardinality(T)
         /\ Cardinality(S) = Cardinality(T) => \A y \in T : \E x \in S : f[x] = y
<1>1. f \in Injection(S, T)
  BY DEF Injection, IsInjective
<1>2. IsFiniteSet(S) /\ Cardinality(S) <= Cardinality(T)
      /\ (Cardinality(S) = Cardinality(T) <=> f \in Surjection(S, T))
  BY <1>1, FS_Injection
<1> QED
  BY <1>2, FS_CardinalityType DEF Surjection

-----------------------------------------------------------------------------
(* Chunks and their order                                                  *)

LEMMA ConstantTypes ==
  /\ KnowledgeSources \in Seq(Sources) /\ Len(KnowledgeSources) \in Nat \ {0}
  /\ DOMAIN KnowledgeSources = 1..Len(KnowledgeSources)
  /\ IsInjective(KnowledgeSources)
  /\ MatchLimit \in Nat \ {0} /\ FusionLimit \in Nat \ {0} /\ RerankLimit \in Nat \ {0}
  /\ ResultLimit \in Nat \ {0} /\ RrfK \in Nat \ {0} /\ Scale \in Nat \ {0}
  /\ ItemLimit \in Nat \ {0} /\ TokenLimit \in Nat \ {0} /\ Requests \in Nat \ {0}
  /\ ContextWindow \in Nat /\ MaxChanges \in Nat
<1>1. KnowledgeSources \in Seq(Sources) /\ KnowledgeSources # <<>> /\ IsInjective(KnowledgeSources)
  BY EvidenceAssumption DEF Sources
<1>2. Len(KnowledgeSources) \in Nat \ {0} /\ DOMAIN KnowledgeSources = 1..Len(KnowledgeSources)
  BY <1>1, EmptySeq, LenProperties
<1>3. \A n \in {MatchLimit, FusionLimit, RerankLimit, ResultLimit, RrfK, Scale, ItemLimit,
                TokenLimit, Requests} : n \in Nat \ {0}
  BY EvidenceAssumption
<1>4. /\ MatchLimit \in Nat \ {0} /\ FusionLimit \in Nat \ {0} /\ RerankLimit \in Nat \ {0}
      /\ ResultLimit \in Nat \ {0} /\ RrfK \in Nat \ {0} /\ Scale \in Nat \ {0}
      /\ ItemLimit \in Nat \ {0} /\ TokenLimit \in Nat \ {0} /\ Requests \in Nat \ {0}
  BY <1>3
<1>5. ContextWindow \in Nat /\ MaxChanges \in Nat
  BY EvidenceAssumption
<1> QED
  BY <1>1, <1>2, <1>4, <1>5

LEMMA ChunkTypes ==
  ASSUME NEW ch \in Chunks
  PROVE  /\ ch = [document |-> ch.document, revision |-> ch.revision, ordinal |-> ch.ordinal]
         /\ ch.document \in Documents /\ ch.document \in Nat
         /\ SourceOf[ch.document] \in Sources
         /\ ch.revision \in Revisions[ch.document] /\ ch.revision \in Nat
         /\ Lengths[ch.document] \in Seq(Nat \ {0}) /\ Len(Lengths[ch.document]) \in Nat
         /\ ch.ordinal \in 1..Len(Lengths[ch.document])
         /\ Length(ch) \in Nat \ {0}
<1>1. PICK d \in Documents : ch \in [document : {d}, revision : Revisions[d], ordinal : DOMAIN Lengths[d]]
  BY DEF Chunks
<1>2. Lengths[d] \in Seq(Nat \ {0})
  BY EvidenceAssumption
<1>3. Len(Lengths[d]) \in Nat /\ DOMAIN Lengths[d] = 1..Len(Lengths[d])
  BY <1>2, LenProperties
<1>4. ch.document = d /\ ch.revision \in Revisions[d] /\ ch.ordinal \in 1..Len(Lengths[d])
      /\ ch = [document |-> ch.document, revision |-> ch.revision, ordinal |-> ch.ordinal]
  BY <1>1, <1>3
<1>5. Lengths[d][ch.ordinal] \in Nat \ {0}
  BY <1>2, <1>4, ElementOfSeq
<1>6. d \in Nat /\ Revisions[d] \subseteq Nat /\ SourceOf[d] \in Sources
  BY EvidenceAssumption DEF Sources
<1> QED
  BY <1>2, <1>3, <1>4, <1>5, <1>6 DEF Length

LEMMA ChunkAt ==
  ASSUME NEW d \in Documents, NEW r \in Revisions[d], NEW o \in 1..Len(Lengths[d])
  PROVE  [document |-> d, revision |-> r, ordinal |-> o] \in Chunks
<1>1. Lengths[d] \in Seq(Nat \ {0})
  BY EvidenceAssumption
<1>2. o \in DOMAIN Lengths[d]
  BY <1>1, LenProperties
<1> DEFINE ch == [document |-> d, revision |-> r, ordinal |-> o]
<1>3. ch \in [document : {d}, revision : Revisions[d], ordinal : DOMAIN Lengths[d]]
  BY <1>2
<1> HIDE DEF ch
<1>4. ch \in Chunks
  BY <1>3 DEF Chunks
<1> QED
  BY <1>4 DEF ch

LEMMA PrecedesOrder ==
  /\ \A x \in Chunks : ~Precedes(x, x)
  /\ \A x, y \in Chunks : x # y => Precedes(x, y) \/ Precedes(y, x)
  /\ \A x, y, z \in Chunks : Precedes(x, y) /\ Precedes(y, z) => Precedes(x, z)
<1>1. \A x \in Chunks : x.document \in Nat /\ x.revision \in Nat /\ x.ordinal \in Nat
  BY ChunkTypes
<1>2. ASSUME NEW x \in Chunks, NEW y \in Chunks, x # y
      PROVE  Precedes(x, y) \/ Precedes(y, x)
  <2>1. x.document # y.document \/ x.revision # y.revision \/ x.ordinal # y.ordinal
    BY <1>2, ChunkTypes
  <2> QED
    BY <1>1, <2>1 DEF Precedes
<1>3. ASSUME NEW x \in Chunks, NEW y \in Chunks, NEW z \in Chunks, Precedes(x, y), Precedes(y, z)
      PROVE  Precedes(x, z)
  <2>1. /\ x.document \in Nat /\ y.document \in Nat /\ z.document \in Nat
        /\ x.revision \in Nat /\ y.revision \in Nat /\ z.revision \in Nat
        /\ x.ordinal \in Nat /\ y.ordinal \in Nat /\ z.ordinal \in Nat
    BY <1>1
  <2>2. x.document < y.document \/ y.document < z.document => x.document < z.document
    BY <1>3, <2>1 DEF Precedes
  <2> QED
    BY <1>3, <2>1, <2>2 DEF Precedes
<1> QED
  BY <1>1, <1>2, <1>3 DEF Precedes

LEMMA InBranch ==
  ASSUME NEW branch, NEW ch \in ToSet(branch)
  PROVE  RankIn(branch, ch) \in DOMAIN branch /\ branch[RankIn(branch, ch)] = ch
BY DEF ToSet, RankIn

LEMMA SourceRanks ==
  ASSUME NEW x \in Sources, NEW y \in Sources
  PROVE  SourceRank(x) \in Nat /\ (SourceRank(x) = SourceRank(y) => x = y)
<1>1. \A z \in Sources : RankIn(KnowledgeSources, z) \in DOMAIN KnowledgeSources
                         /\ KnowledgeSources[RankIn(KnowledgeSources, z)] = z
  BY InBranch DEF Sources
<1> QED
  BY <1>1, ConstantTypes DEF SourceRank

\* Ahead is a strict total order on candidates of different chunks.
LEMMA AheadOrder ==
  ASSUME NEW S \in SUBSET Ranked, \A x, y \in S : x.chunk = y.chunk => x = y
  PROVE  /\ \A x \in S : ~Ahead(x, x)
         /\ \A x, y \in S : x # y => Ahead(x, y) \/ Ahead(y, x)
         /\ \A x, y, z \in S : Ahead(x, y) /\ Ahead(y, z) => Ahead(x, z)
<1>1. \A x \in S : x.score \in Nat /\ x.source \in Sources /\ x.chunk \in Chunks
                   /\ SourceRank(x.source) \in Nat
  BY SourceRanks DEF Ranked
<1>2. ASSUME NEW x \in S PROVE ~Ahead(x, x)
  BY <1>1, PrecedesOrder DEF Ahead
<1>3. ASSUME NEW x \in S, NEW y \in S, x # y PROVE Ahead(x, y) \/ Ahead(y, x)
  <2>1. x.chunk # y.chunk
    BY <1>3
  <2>2. Precedes(x.chunk, y.chunk) \/ Precedes(y.chunk, x.chunk)
    BY <1>1, <2>1, PrecedesOrder
  <2>3. x.source = y.source \/ SourceRank(x.source) # SourceRank(y.source)
    BY <1>1, SourceRanks
  <2> QED
    BY <1>1, <2>2, <2>3 DEF Ahead
<1>4. ASSUME NEW x \in S, NEW y \in S, NEW z \in S, Ahead(x, y), Ahead(y, z)
      PROVE  Ahead(x, z)
  <2>1. Precedes(x.chunk, y.chunk) /\ Precedes(y.chunk, z.chunk) => Precedes(x.chunk, z.chunk)
    BY <1>1, PrecedesOrder
  <2> QED
    BY <1>1, <1>4, <2>1 DEF Ahead
<1> QED
  BY <1>2, <1>3, <1>4

\* Sorted lists every candidate once, each ahead of those after it.
LEMMA SortedLists ==
  ASSUME NEW S \in SUBSET Ranked, IsFiniteSet(S), \A x, y \in S : x.chunk = y.chunk => x = y
  PROVE  /\ Sorted(S) \in Seq(S) /\ Len(Sorted(S)) = Cardinality(S)
         /\ IsInjective(Sorted(S)) /\ ToSet(Sorted(S)) = S
         /\ \A i, j \in 1..Len(Sorted(S)) : i < j => Ahead(Sorted(S)[i], Sorted(S)[j])
<1> DEFINE N == Cardinality(S)
           before(x) == {y \in S : Ahead(y, x)}
           place == [x \in S |-> Cardinality(before(x)) + 1]
<1>1. N \in Nat /\ \A x \in S : IsFiniteSet(before(x)) /\ Cardinality(before(x)) \in Nat
  BY FS_Subset, FS_CardinalityType
<1>2. ASSUME NEW x \in S, NEW y \in S, Ahead(y, x)
      PROVE  Cardinality(before(y)) < Cardinality(before(x))
  <2>1. before(y) \subseteq before(x)
    BY <1>2, AheadOrder
  <2>2. y \in before(x) /\ y \notin before(y)
    BY <1>2, AheadOrder
  <2> HIDE DEF before
  <2> QED
    BY <1>1, <2>1, <2>2, FS_Subset
<1>3. ASSUME NEW x \in S PROVE Cardinality(before(x)) < N
  <2>1. x \notin before(x) /\ before(x) \subseteq S
    BY AheadOrder
  <2> HIDE DEF before
  <2> QED
    BY <1>1, <2>1, FS_Subset, FS_CardinalityType
<1>7. Sorted(S) = [i \in 1..N |-> CHOOSE x \in S : Cardinality(before(x)) = i - 1]
  BY DEF Sorted
<1> HIDE DEF before
<1>4. place \in [S -> 1..N]
  BY <1>1, <1>3
<1>5. \A x, y \in S : place[x] = place[y] => x = y
  <2> SUFFICES ASSUME NEW x \in S, NEW y \in S, x # y PROVE place[x] # place[y]
    OBVIOUS
  <2>1. Ahead(x, y) \/ Ahead(y, x)
    BY AheadOrder
  <2>2. Cardinality(before(x)) # Cardinality(before(y))
    BY <1>1, <1>2, <2>1
  <2> QED
    BY <1>1, <2>2
<1>6. \A i \in 1..N : \E x \in S : place[x] = i
  <2>1. IsFiniteSet(1..N) /\ Cardinality(1..N) = N
    BY <1>1, UpToN
  <2> HIDE DEF place, N
  <2>2. Cardinality(S) = Cardinality(1..N)
    BY <2>1 DEF N
  <2> DEFINE T == 1..N
  <2>3. place \in [S -> T] /\ IsFiniteSet(T) /\ Cardinality(S) = Cardinality(T)
    BY <1>4, <2>1, <2>2
  <2> HIDE DEF T
  <2>4. \A i \in T : \E x \in S : place[x] = i
    BY <1>5, <2>3, InjectedInto
  <2> QED
    BY <2>4 DEF T
<1> HIDE DEF N
<1>8. ASSUME NEW i \in 1..N PROVE Sorted(S)[i] \in S /\ place[Sorted(S)[i]] = i
  <2>1. \E x \in S : Cardinality(before(x)) = i - 1
    <3>1. PICK x \in S : place[x] = i
      BY <1>6
    <3>2. Cardinality(before(x)) + 1 = i
      BY <3>1
    <3> QED
      BY <1>1, <3>2
  <2>2. Sorted(S)[i] \in S /\ Cardinality(before(Sorted(S)[i])) = i - 1
    BY <1>7, <2>1
  <2> QED
    BY <1>1, <2>2
<1>9. Sorted(S) \in [1..N -> S]
  BY <1>7, <1>8
<1> HIDE DEF place
<1>10. Sorted(S) \in Seq(S) /\ Len(Sorted(S)) = N /\ DOMAIN Sorted(S) = 1..N
  BY <1>1, <1>9, SequenceOf
<1>11. IsInjective(Sorted(S))
  BY <1>8, <1>10 DEF IsInjective
<1>12. ASSUME NEW x \in S PROVE x \in ToSet(Sorted(S))
  <2>1. place[x] \in 1..N /\ place[Sorted(S)[place[x]]] = place[x] /\ Sorted(S)[place[x]] \in S
    BY <1>4, <1>8
  <2>2. Sorted(S)[place[x]] = x
    BY <1>5, <2>1
  <2> QED
    BY <1>10, <2>1, <2>2 DEF ToSet
<1>13. ToSet(Sorted(S)) \subseteq S
  BY <1>8, <1>10 DEF ToSet
<1>14. ASSUME NEW i \in 1..N, NEW j \in 1..N, i < j PROVE Ahead(Sorted(S)[i], Sorted(S)[j])
  <2> DEFINE x == Sorted(S)[i]
             y == Sorted(S)[j]
  <2>1. x \in S /\ y \in S /\ place[x] = i /\ place[y] = j
    BY <1>8
  <2> SUFFICES Ahead(x, y)
    OBVIOUS
  <2> HIDE DEF x, y
  <2>2. Cardinality(before(x)) + 1 = i /\ Cardinality(before(y)) + 1 = j
    BY <2>1 DEF place
  <2>3. Cardinality(before(x)) < Cardinality(before(y))
    BY <1>1, <1>14, <2>1, <2>2
  <2>4. ~Ahead(y, x)
    BY <1>1, <1>2, <2>1, <2>3
  <2>5. x # y
    BY <1>1, <2>1, <2>3
  <2> QED
    BY <2>1, <2>4, <2>5, AheadOrder
<1> QED
  BY <1>10, <1>11, <1>12, <1>13, <1>14 DEF N

LEMMA TakeOf ==
  ASSUME NEW S, NEW s \in Seq(S), NEW n \in Nat
  PROVE  /\ Take(s, n) \in Seq(S) /\ Len(Take(s, n)) <= n /\ Len(Take(s, n)) <= Len(s)
         /\ Len(Take(s, n)) \in Nat
         /\ \A i \in 1..Len(Take(s, n)) : i \in 1..Len(s) /\ Take(s, n)[i] = s[i]
         /\ ToSet(Take(s, n)) \subseteq ToSet(s)
         /\ Len(Take(s, n)) = IF n < Len(s) THEN n ELSE Len(s)
<1> DEFINE m == IF n < Len(s) THEN n ELSE Len(s)
<1>1. Len(s) \in Nat /\ DOMAIN s = 1..Len(s) /\ m \in Nat /\ m <= n /\ m <= Len(s)
  BY LenProperties
<1>2. \A i \in 1..m : s[i] \in S
  BY <1>1, ElementOfSeq
<1>3. Take(s, n) = SubSeq(s, 1, m)
  BY DEF Take
<1> HIDE DEF m
<1>4. Take(s, n) \in Seq(S) /\ Len(Take(s, n)) = m /\ \A i \in 1..m : Take(s, n)[i] = s[i]
  <2>1. 1 \in Int /\ m \in Int /\ m - 1 + 1 = m /\ \A i \in 1..m : 1 + i - 1 = i
    BY <1>1
  <2>2. Len(SubSeq(s, 1, m)) = IF 1 <= m THEN m - 1 + 1 ELSE 0
    BY <1>2, <2>1, SubSeqProperties
  <2> QED
    BY <1>1, <1>2, <1>3, <2>1, <2>2, SubSeqProperties
<1>5. DOMAIN Take(s, n) = 1..m
  BY <1>4, LenProperties
<1> QED
  BY <1>1, <1>4, <1>5 DEF ToSet, m

LEMMA ChunksOfCorpus ==
  ASSUME NEW source, NEW corpus \in CorporaOf(source)
  PROVE  /\ IsFiniteSet(ChunksOf(corpus))
         /\ \A ch \in ChunksOf(corpus) : ch \in Chunks /\ SourceOf[ch.document] = source
<1> DEFINE C == ChunksOf(corpus)
           P == [d \in Documents |-> {ch \in C : ch.document = d}]
<1>1. \A x, y \in corpus : x[1] = y[1] => x = y
  BY DEF CorporaOf
<1>2. ASSUME NEW x \in corpus PROVE SourceOf[x[1]] = source
  <2>1. PICK d \in {y \in Documents : SourceOf[y] = source} : x \in {d} \X Revisions[d]
    BY DEF CorporaOf
  <2> QED
    BY <2>1
<1>3. ASSUME NEW d \in Documents PROVE IsFiniteSet(P[d])
  <2> DEFINE f == [ch \in P[d] |-> ch.ordinal]
             T == 1..Len(Lengths[d])
  <2>1. \A ch \in P[d] : ch \in Chunks /\ ch.document = d /\ <<d, ch.revision>> \in corpus
    BY DEF ChunksOf
  <2>2. f \in [P[d] -> T]
    BY <2>1, ChunkTypes
  <2>3. ASSUME NEW x \in P[d], NEW y \in P[d], f[x] = f[y] PROVE x = y
    <3>1. <<d, x.revision>>[1] = <<d, y.revision>>[1]
      OBVIOUS
    <3>2. <<d, x.revision>> = <<d, y.revision>>
      BY <1>1, <2>1, <3>1
    <3>3. x.document = y.document /\ x.revision = y.revision /\ x.ordinal = y.ordinal
      BY <2>1, <2>3, <3>2
    <3> QED
      BY <2>1, <3>3, ChunkTypes
  <2>4. IsFiniteSet(T)
    <3>1. Lengths[d] \in Seq(Nat \ {0})
      BY EvidenceAssumption
    <3> QED
      BY <3>1, LenProperties, UpToN
  <2> HIDE DEF f, T, P
  <2> QED
    BY <2>2, <2>3, <2>4, InjectedInto
<1>4. C = UNION {P[d] : d \in Documents}
  <2>1. \A ch \in C : ch.document \in Documents
    BY ChunkTypes DEF ChunksOf
  <2> QED
    BY <2>1
<1>5. IsFiniteSet({P[d] : d \in Documents})
  <2>1. DOMAIN P = Documents /\ P = [d \in DOMAIN P |-> P[d]] /\ IsFiniteSet(Documents)
    BY EvidenceAssumption
  <2> HIDE DEF P
  <2>2. IsFiniteSet({P[d] : d \in DOMAIN P})
    BY <2>1, FewerValues
  <2> QED
    BY <2>1, <2>2
<1>6. IsFiniteSet(C)
  <2> HIDE DEF P, C
  <2>1. \A T \in {P[d] : d \in Documents} : IsFiniteSet(T)
    BY <1>3
  <2> QED
    BY <1>4, <1>5, <2>1, FS_UNION
<1>7. ASSUME NEW ch \in C PROVE ch \in Chunks /\ SourceOf[ch.document] = source
  BY <1>2 DEF ChunksOf
<1> QED
  BY <1>6, <1>7

LEMMA OrdersOf ==
  ASSUME NEW M, M \subseteq Chunks, IsFiniteSet(M), NEW branch \in Orders(M)
  PROVE  branch \in Seq(Chunks) /\ Len(branch) <= MatchLimit /\ ToSet(branch) \subseteq M
<1> DEFINE N == Cardinality(M)
<1>1. N \in Nat
  BY FS_CardinalityType
<1>2. PICK s \in SetToSeqs(M) : branch = Take(s, MatchLimit)
  BY DEF Orders
<1>3. s \in [1..N -> M]
  BY DEF SetToSeqs
<1> HIDE DEF N
<1>4. s \in Seq(M)
  BY <1>1, <1>3, SequenceOf
<1>5. branch \in Seq(M) /\ Len(branch) <= MatchLimit
  BY <1>2, <1>4, TakeOf, ConstantTypes
<1>6. \A i \in DOMAIN branch : branch[i] \in M
  BY <1>5, LenProperties, ElementOfSeq
<1> QED
  BY <1>5, <1>6, SeqMonotonic DEF ToSet

LEMMA Scores ==
  ASSUME NEW ch, NEW d \in Seq(Chunks), NEW l \in Seq(Chunks)
  PROVE  FusedScore(ch, d, l) \in Nat
<1>1. ASSUME NEW branch \in Seq(Chunks), ch \in ToSet(branch)
      PROVE  Scale \div (RrfK + RankIn(branch, ch)) \in Nat
  <2>1. RankIn(branch, ch) \in Nat
    BY <1>1, InBranch, LenProperties
  <2>2. \A r \in Nat \ {0}, k \in Nat : k \div r \in Nat
    OBVIOUS
  <2>3. RrfK + RankIn(branch, ch) \in Nat \ {0} /\ Scale \in Nat
    BY <2>1, ConstantTypes
  <2> QED
    BY <2>2, <2>3
<1> DEFINE weight(branch) == IF ch \in ToSet(branch) THEN Scale \div (RrfK + RankIn(branch, ch)) ELSE 0
<1>2. weight(d) \in Nat /\ weight(l) \in Nat
  BY <1>1
<1>3. FusedScore(ch, d, l) = weight(d) + weight(l)
  BY DEF FusedScore
<1> HIDE DEF weight
<1> QED
  BY <1>2, <1>3

\* Candidates of one source, each chunk once, all of its corpus.
CandidatesOf(s, source, corpus) ==
  /\ s \in Seq(Ranked)
  /\ \A i \in DOMAIN s : /\ s[i].source = source /\ s[i].corpus = corpus
                         /\ s[i].chunk \in ChunksOf(corpus)
  /\ \A i, j \in DOMAIN s : s[i].chunk = s[j].chunk => i = j

LEMMA Fused ==
  ASSUME NEW source \in Sources, NEW corpus \in CorporaOf(source),
         NEW d \in Seq(Chunks), ToSet(d) \subseteq ChunksOf(corpus),
         NEW l \in Seq(Chunks), ToSet(l) \subseteq ChunksOf(corpus)
  PROVE  CandidatesOf(FuseCandidates(source, corpus, d, l), source, corpus)
<1> DEFINE found == ToSet(d) \cup ToSet(l)
           f == [ch \in found |-> [chunk |-> ch, source |-> source, corpus |-> corpus,
                                   score |-> FusedScore(ch, d, l)]]
           S == {f[ch] : ch \in found}
<1>1. IsFiniteSet(found) /\ found \subseteq ChunksOf(corpus)
  BY FewerElements, FS_Union
<1>2. IsFiniteSet(S)
  <2>1. DOMAIN f = found /\ f = [ch \in DOMAIN f |-> f[ch]]
    OBVIOUS
  <2> HIDE DEF f, found
  <2>2. IsFiniteSet({f[ch] : ch \in DOMAIN f})
    BY <1>1, <2>1, FewerValues
  <2> QED
    BY <2>1, <2>2
<1>3. \A ch \in found : f[ch] \in Ranked
  BY <1>1, Scores, ChunksOfCorpus DEF Ranked, Corpora
<1>a. \A ch \in found : f[ch].chunk = ch /\ f[ch].source = source /\ f[ch].corpus = corpus
  OBVIOUS
<1>6. FuseCandidates(source, corpus, d, l) = Sorted(S)
  BY DEF FuseCandidates
<1>7. S \in SUBSET Ranked
  BY <1>3
<1> HIDE DEF f, found
<1>4. \A x \in S : x.source = source /\ x.corpus = corpus /\ x.chunk \in ChunksOf(corpus)
  BY <1>1, <1>a
<1>5. \A x, y \in S : x.chunk = y.chunk => x = y
  BY <1>a
<1> HIDE DEF S
<1>8. Sorted(S) \in Seq(S) /\ IsInjective(Sorted(S))
  BY <1>2, <1>5, <1>7, SortedLists
<1>9. \A i \in DOMAIN Sorted(S) : Sorted(S)[i] \in S
  BY <1>8, LenProperties, ElementOfSeq
<1>10. Sorted(S) \in Seq(Ranked)
  BY <1>7, <1>8, SeqMonotonic
<1> QED
  BY <1>4, <1>5, <1>6, <1>8, <1>9, <1>10 DEF CandidatesOf, IsInjective

-----------------------------------------------------------------------------
(* Counts by source                                                        *)

Count(s, source) == Cardinality({j \in DOMAIN s : s[j].source = source})

OncePerChunk(s) == \A i, j \in DOMAIN s : s[i].chunk = s[j].chunk => i = j

LEMMA CountType ==
  ASSUME NEW S, NEW s \in Seq(S), NEW source
  PROVE  Count(s, source) \in Nat /\ Count(s, source) <= Len(s)
         /\ IsFiniteSet({j \in DOMAIN s : s[j].source = source})
<1>1. Len(s) \in Nat /\ DOMAIN s = 1..Len(s)
  BY LenProperties
<1>2. IsFiniteSet(1..Len(s)) /\ Cardinality(1..Len(s)) = Len(s)
  BY <1>1, UpToN
<1>3. {j \in DOMAIN s : s[j].source = source} \in SUBSET (1..Len(s))
  BY <1>1
<1> QED
  BY <1>2, <1>3, FS_Subset, FS_CardinalityType DEF Count

\* The counts of all sources add up to the length.
LEMMA CountsAddUp ==
  ASSUME NEW S, NEW s \in Seq(S), NEW R, NEW sources \in Seq(R), IsInjective(sources),
         \A j \in DOMAIN s : \E i \in DOMAIN sources : sources[i] = s[j].source
  PROVE  Total([i \in DOMAIN sources |-> Count(s, sources[i])]) = Len(s)
<1> DEFINE N == Len(sources)
           counts == [i \in DOMAIN sources |-> Count(s, sources[i])]
           upto == [n \in 0..N |-> {j \in DOMAIN s : \E i \in 1..n : sources[i] = s[j].source}]
<1>1. N \in Nat /\ DOMAIN sources = 1..N /\ Len(s) \in Nat /\ DOMAIN s = 1..Len(s)
  BY LenProperties
<1>2. counts \in [1..N -> Nat]
  BY <1>1, CountType
<1> HIDE DEF N
<1>3. counts \in Seq(Nat) /\ Len(counts) = N
  BY <1>1, <1>2, SequenceOf
<1>4. PICK run \in [0..N -> Nat] :
             run[0] = 0 /\ (\A n \in 1..N : run[n] = run[n - 1] + counts[n]) /\ Total(counts) = run[N]
  BY <1>3, TotalRuns
<1>5. \A n \in 0..N : IsFiniteSet(upto[n])
  BY <1>1, UpToN, FS_Subset
<1> DEFINE T == {n \in 0..N : run[n] = Cardinality(upto[n])}
<1>6. 0 \in T
  <2>1. 0 \in 0..N /\ upto[0] = {}
    BY <1>1
  <2> HIDE DEF upto
  <2>2. Cardinality(upto[0]) = 0
    BY <2>1, FS_EmptySet
  <2> QED
    BY <1>4, <2>1, <2>2
<1>7. ASSUME NEW n \in 1..N, n - 1 \in T PROVE n \in T
  <2> DEFINE here == {j \in DOMAIN s : s[j].source = sources[n]}
  <2>0. n - 1 \in 0..N /\ n \in 0..N
    BY <1>1
  <2>1. upto[n] = upto[n - 1] \cup here
    <3>1. \A i : i \in 1..n <=> i \in 1..(n - 1) \/ i = n
      BY <1>1
    <3> QED
      BY <2>0, <3>1
  <2>2. upto[n - 1] \cap here = {}
    <3> SUFFICES ASSUME NEW j \in upto[n - 1], j \in here PROVE FALSE
      OBVIOUS
    <3>1. PICK i \in 1..(n - 1) : sources[i] = s[j].source
      BY <2>0
    <3>2. sources[i] = sources[n] /\ i \in DOMAIN sources /\ n \in DOMAIN sources /\ i # n
      BY <1>1, <3>1
    <3> QED
      BY <3>2 DEF IsInjective
  <2>3. IsFiniteSet(here) /\ Cardinality(here) = counts[n] /\ counts[n] \in Nat
    BY <1>1, <1>2, CountType DEF Count
  <2>4. run[n] = run[n - 1] + counts[n] /\ run[n - 1] = Cardinality(upto[n - 1])
        /\ run[n - 1] \in Nat
    BY <1>1, <1>4, <1>7
  <2> HIDE DEF upto, here, counts
  <2> DEFINE before == upto[n - 1]
  <2>5. IsFiniteSet(before) /\ n - 1 \in 0..N /\ n \in 0..N
    BY <1>1, <1>5
  <2> HIDE DEF before
  <2>6. Cardinality(before \cup here)
          = Cardinality(before) + Cardinality(here) - Cardinality(before \cap here)
    BY <2>3, <2>5, FS_Union
  <2>7. Cardinality(before \cap here) = 0 /\ Cardinality(upto[n]) = Cardinality(before \cup here)
        /\ Cardinality(before) = run[n - 1]
    BY <2>1, <2>2, <2>4, FS_EmptySet DEF before
  <2> QED
    BY <2>3, <2>4, <2>5, <2>6, <2>7
<1> HIDE DEF T
<1>8. N \in T
  <2>1. \A n \in 0..N : n \in T
    BY <1>1, <1>6, <1>7, Steps
  <2> QED
    BY <1>1, <2>1
<1>9. upto[N] = 1..Len(s)
  BY <1>1
<1> HIDE DEF upto
<1>10. run[N] = Cardinality(1..Len(s))
  BY <1>8, <1>9 DEF T
<1> QED
  BY <1>1, <1>4, <1>10, UpToN

\* A sequence whose items are found in another has no more of a source than it.
LEMMA CountInto ==
  ASSUME NEW S, NEW s \in Seq(S), OncePerChunk(s), NEW T, NEW t \in Seq(T), NEW source,
         \A j \in DOMAIN s : s[j].source = source =>
           \E k \in DOMAIN t : t[k].chunk = s[j].chunk /\ t[k].source = source
  PROVE  Count(s, source) <= Count(t, source)
<1> DEFINE A == {j \in DOMAIN s : s[j].source = source}
           B == {k \in DOMAIN t : t[k].source = source}
           f == [j \in A |-> CHOOSE k \in B : t[k].chunk = s[j].chunk]
<1>1. \A j \in A : f[j] \in B /\ t[f[j]].chunk = s[j].chunk
  <2> TAKE j \in A
  <2>1. \E k \in B : t[k].chunk = s[j].chunk
    OBVIOUS
  <2> QED
    BY <2>1
<1>2. f \in [A -> B]
  BY <1>1
<1> HIDE DEF f
<1>3. \A x, y \in A : f[x] = f[y] => x = y
  BY <1>1 DEF OncePerChunk
<1>4. IsFiniteSet(B)
  BY CountType
<1> HIDE DEF A, B
<1>5. Cardinality(A) <= Cardinality(B)
  BY <1>2, <1>3, <1>4, InjectedInto
<1> QED
  BY <1>5 DEF A, B, Count

-----------------------------------------------------------------------------
(* One request                                                             *)

\* What a search of a source keeps to.
SearchKeeps(s, source) ==
  /\ s \in Searches /\ s.source = source
  /\ s.corpus \in CorporaOf(source) \cup {None}
  /\ Len(s.candidates) <= s.deduplicated /\ Len(s.candidates) <= FusionLimit
  /\ s.status = "completed" <=> s.deduplicated > 0
  /\ IF s.status = "failed" THEN s.candidates = <<>>
     ELSE s.corpus \in CorporaOf(source) /\ CandidatesOf(s.candidates, source, s.corpus)

\* The sources are searched in their order.
AllKeep(searched) ==
  /\ searched \in Seq(Searches) /\ Len(searched) <= Len(KnowledgeSources)
  /\ \A i \in DOMAIN searched : SearchKeeps(searched[i], KnowledgeSources[i])

LEMMA SourcesSearched ==
  ASSUME NEW searched, AllKeep(searched)
  PROVE  /\ DOMAIN searched = 1..Len(searched) /\ Len(searched) \in Nat
         /\ DOMAIN searched \subseteq DOMAIN KnowledgeSources
         /\ \A i \in DOMAIN searched : searched[i].source = KnowledgeSources[i]
                                       /\ KnowledgeSources[i] \in Sources
         /\ \A i, j \in DOMAIN searched : searched[i].source = searched[j].source => i = j
<1>1. searched \in Seq(Searches)
  BY DEF AllKeep
<1>2. DOMAIN searched = 1..Len(searched) /\ Len(searched) \in Nat
  BY <1>1, LenProperties
<1>3. DOMAIN searched \subseteq DOMAIN KnowledgeSources
  BY <1>2, ConstantTypes DEF AllKeep
<1>4. \A i \in DOMAIN searched : searched[i].source = KnowledgeSources[i]
  BY DEF AllKeep, SearchKeeps
<1>5. \A i \in DOMAIN searched : KnowledgeSources[i] \in Sources
  BY <1>3, ConstantTypes, ElementOfSeq
<1> QED
  BY <1>2, <1>3, <1>4, <1>5, ConstantTypes DEF IsInjective

\* A candidate is of the source, and a chunk of the corpus, of its search.
LEMMA CandidateFound ==
  ASSUME NEW searched, AllKeep(searched), NEW i \in DOMAIN searched,
         NEW x \in ToSet(searched[i].candidates)
  PROVE  /\ x \in Ranked /\ x.source = searched[i].source /\ x.corpus = searched[i].corpus
         /\ x.corpus \in CorporaOf(x.source)
         /\ x.chunk \in ChunksOf(x.corpus) /\ SourceOf[x.chunk.document] = searched[i].source
         /\ \A y \in ToSet(searched[i].candidates) : x.chunk = y.chunk => x = y
<1> DEFINE s == searched[i].candidates
<1>1. PICK j \in DOMAIN s : x = s[j]
  BY DEF ToSet
<1>2. SearchKeeps(searched[i], KnowledgeSources[i]) /\ searched[i].source = KnowledgeSources[i]
  BY SourcesSearched DEF AllKeep
<1>3. s # <<>>
  BY <1>1
<1>4. CandidatesOf(s, searched[i].source, searched[i].corpus)
      /\ searched[i].corpus \in CorporaOf(searched[i].source)
  BY <1>2, <1>3 DEF SearchKeeps
<1> HIDE DEF s
<1>5. x \in Ranked
  BY <1>1, <1>4, LenProperties, ElementOfSeq DEF CandidatesOf
<1>6. x.source = searched[i].source /\ x.corpus = searched[i].corpus /\ x.chunk \in ChunksOf(x.corpus)
  BY <1>1, <1>4 DEF CandidatesOf
<1>7. ASSUME NEW y \in ToSet(s), x.chunk = y.chunk PROVE x = y
  <2>1. PICK k \in DOMAIN s : y = s[k]
    BY DEF ToSet
  <2> QED
    BY <1>1, <1>4, <1>7, <2>1 DEF CandidatesOf
<1>8. SourceOf[x.chunk.document] = searched[i].source
  BY <1>4, <1>6, ChunksOfCorpus
<1> QED
  BY <1>4, <1>5, <1>6, <1>7, <1>8 DEF s

\* The candidates of all searches: each chunk once, found by the search of its source.
FoundBy(searched) == UNION {ToSet(searched[i].candidates) : i \in DOMAIN searched}

LEMMA AllFound ==
  ASSUME NEW searched, AllKeep(searched)
  PROVE  /\ FoundBy(searched) \in SUBSET Ranked /\ IsFiniteSet(FoundBy(searched))
         /\ \A x \in FoundBy(searched) : \E i \in DOMAIN searched : x \in ToSet(searched[i].candidates)
         /\ \A x, y \in FoundBy(searched) : x.chunk = y.chunk => x = y
<1> DEFINE found == [i \in DOMAIN searched |-> ToSet(searched[i].candidates)]
           S == FoundBy(searched)
<1>1. S = UNION {found[i] : i \in DOMAIN searched}
  BY DEF FoundBy
<1> HIDE DEF S
<1>2. IsFiniteSet(S)
  <2>1. \A i \in DOMAIN searched : IsFiniteSet(found[i])
    <3> TAKE i \in DOMAIN searched
    <3>1. searched[i] \in Searches
      BY DEF AllKeep, SearchKeeps
    <3>2. searched[i].candidates \in Seq(Ranked)
      BY <3>1 DEF Searches
    <3> QED
      BY <3>2, FewerElements
  <2>2. DOMAIN found = DOMAIN searched /\ found = [i \in DOMAIN found |-> found[i]]
        /\ IsFiniteSet(DOMAIN searched)
    BY SourcesSearched, UpToN
  <2> HIDE DEF found
  <2>3. IsFiniteSet({found[i] : i \in DOMAIN found})
    BY <2>2, FewerValues
  <2>4. \A T \in {found[i] : i \in DOMAIN searched} : IsFiniteSet(T)
    BY <2>1
  <2> QED
    BY <1>1, <2>2, <2>3, <2>4, FS_UNION
<1>3. \A x \in S : \E i \in DOMAIN searched : x \in ToSet(searched[i].candidates)
  BY <1>1
<1> HIDE DEF found
<1>4. S \in SUBSET Ranked
  BY <1>3, CandidateFound
<1>5. ASSUME NEW x \in S, NEW y \in S, x.chunk = y.chunk PROVE x = y
  <2>1. PICK i \in DOMAIN searched : x \in ToSet(searched[i].candidates)
    BY <1>3
  <2>2. PICK j \in DOMAIN searched : y \in ToSet(searched[j].candidates)
    BY <1>3
  <2>3. searched[i].source = searched[j].source
    BY <1>5, <2>1, <2>2, CandidateFound
  <2>4. i = j
    BY <2>3, SourcesSearched
  <2> QED
    BY <1>5, <2>1, <2>2, <2>4, CandidateFound
<1> QED
  BY <1>2, <1>3, <1>4, <1>5 DEF S

\* The candidates to rerank: each chunk once, found by the search of its source.
RerankedFrom(s, searched) ==
  /\ s \in Seq(Ranked) /\ OncePerChunk(s) /\ Len(s) <= RerankLimit
  /\ \A j \in DOMAIN s : \E i \in DOMAIN searched : s[j] \in ToSet(searched[i].candidates)
LEMMA CandidatesReranked ==
  ASSUME NEW searched, AllKeep(searched)
  PROVE  RerankedFrom(Candidates(searched), searched) /\ IsInjective(Candidates(searched))
<1> DEFINE S == FoundBy(searched)
           all == Sorted(S)
<1>1. IsFiniteSet(S) /\ S \in SUBSET Ranked
  BY AllFound
<1>2. \A x \in S : \E i \in DOMAIN searched : x \in ToSet(searched[i].candidates)
  BY AllFound
<1>3. Candidates(searched) = Take(all, RerankLimit)
  BY DEF Candidates, FoundBy
<1>4. S \in SUBSET Ranked
  BY <1>1
<1>5. \A x, y \in S : x.chunk = y.chunk => x = y
  BY AllFound
<1> HIDE DEF S
<1>6. all \in Seq(S) /\ IsInjective(all)
  BY <1>1, <1>4, <1>5, SortedLists
<1> HIDE DEF all
<1> DEFINE C == Take(all, RerankLimit)
<1>7. C \in Seq(S) /\ Len(C) <= RerankLimit /\ Len(C) \in Nat
      /\ \A i \in 1..Len(C) : i \in 1..Len(all) /\ C[i] = all[i]
  BY <1>6, TakeOf, ConstantTypes
<1>8. DOMAIN C = 1..Len(C) /\ DOMAIN all = 1..Len(all) /\ \A i \in DOMAIN C : C[i] \in S
  BY <1>6, <1>7, LenProperties, ElementOfSeq
<1> HIDE DEF C
<1>9. IsInjective(C)
  BY <1>6, <1>7, <1>8 DEF IsInjective
<1>10. OncePerChunk(C)
  BY <1>5, <1>8, <1>9 DEF OncePerChunk, IsInjective
<1>11. C \in Seq(Ranked)
  BY <1>4, <1>7, SeqMonotonic
<1> QED
  BY <1>2, <1>3, <1>7, <1>8, <1>9, <1>10, <1>11 DEF RerankedFrom, C

\* An answer with the candidates' length and elements has each of them once.
LEMMA PermutationReranked ==
  ASSUME NEW searched, AllKeep(searched), NEW answer \in Answers(Candidates(searched)),
         FullPermutation(answer, Candidates(searched))
  PROVE  RerankedFrom(answer, searched) /\ answer # <<>>
<1> DEFINE C == Candidates(searched)
<1>1. C \in Seq(Ranked) /\ OncePerChunk(C) /\ Len(C) <= RerankLimit /\ IsInjective(C)
      /\ \A j \in DOMAIN C : \E i \in DOMAIN searched : C[j] \in ToSet(searched[i].candidates)
  BY CandidatesReranked DEF RerankedFrom
<1>2. Len(answer) = Len(C) /\ ToSet(answer) = ToSet(C)
  BY DEF FullPermutation
<1>3. answer \in SeqOf(ToSet(C), Len(C)) /\ answer # <<>>
  BY DEF Answers, BoundedSeq
<1> HIDE DEF C
<1>4. ToSet(C) \subseteq Ranked /\ Len(C) \in Nat
  BY <1>1, LenProperties, ElementOfSeq DEF ToSet
<1>5. answer \in Seq(Ranked)
  <2>1. PICK m \in 0..Len(C) : answer \in [1..m -> ToSet(C)]
    BY <1>3 DEF SeqOf
  <2>2. m \in Nat
    BY <1>4
  <2> QED
    BY <1>4, <2>1, <2>2, SequenceOf, SeqMonotonic
<1>6. IsInjective(answer)
  BY <1>1, <1>2, <1>5, FewerElements
<1>7. \A j \in DOMAIN answer : \E k \in DOMAIN C : answer[j] = C[k]
  BY <1>2 DEF ToSet
<1>8. OncePerChunk(answer)
  BY <1>1, <1>6, <1>7 DEF OncePerChunk, IsInjective
<1> QED
  BY <1>1, <1>2, <1>3, <1>5, <1>7, <1>8 DEF RerankedFrom

\* The steps of a selection.
LEMMA SelectedRuns ==
  ASSUME NEW relevant \in Seq(Ranked)
  PROVE  \E run :
           /\ run[0] = [items |-> <<>>, tokens |-> 0]
           /\ \A n \in 1..Len(relevant) : run[n] = Select(run[n - 1], relevant[n])
           /\ \A n \in 0..Len(relevant) : run[n] \in [items : Seq(Items), tokens : Nat]
           /\ Selected(relevant) = run[Len(relevant)].items
<1> DEFINE N == Len(relevant)
           S == [items : Seq(Items), tokens : Nat]
           base == [items |-> <<>>, tokens |-> 0]
           step == [n \in 1..N |-> [x \in S |-> Select(x, relevant[n])]]
           run == CHOOSE run : run = [n \in 0..N |-> IF n = 0 THEN base
                                                     ELSE Select(run[n - 1], relevant[n])]
<1>1. N \in Nat /\ \A n \in 1..N : relevant[n] \in Ranked
  BY LenProperties, ElementOfSeq
<1>2. Selected(relevant) = run[N].items
  BY DEF Selected
<1>3. base \in S
  BY EmptySeq
<1>4. ASSUME NEW n \in 1..N, NEW x \in S PROVE Select(x, relevant[n]) \in S
  <2> DEFINE c == relevant[n]
             item == [chunk |-> c.chunk, source |-> c.source, corpus |-> c.corpus]
             more == x.tokens + Tokens(Length(c.chunk))
  <2>1. c \in Ranked
    BY <1>1
  <2>2. item \in Items /\ c.chunk \in Chunks
    BY <2>1 DEF Items, Ranked
  <2>3. more \in Nat
    <3>1. Length(c.chunk) \in Nat /\ x.tokens \in Nat
      BY <2>2, ChunkTypes
    <3> QED
      BY <3>1 DEF Tokens
  <2> HIDE DEF more, item
  <2>4. Append(x.items, item) \in Seq(Items)
    BY <2>2, AppendProperties
  <2>5. Select(x, c) = x \/ Select(x, c) = [items |-> Append(x.items, item), tokens |-> more]
    BY DEF Select, more, item
  <2>6. [items |-> Append(x.items, item), tokens |-> more] \in S
    BY <2>3, <2>4
  <2> QED
    BY <2>5, <2>6
<1>5. step \in [1..N -> [S -> S]] /\ \A n \in 1..N, x \in S : step[n][x] = Select(x, relevant[n])
  BY <1>4
<1> HIDE DEF step, N, S, base, run
<1>6. \E f : f = [n \in 0..N |-> IF n = 0 THEN base ELSE Select(f[n - 1], relevant[n])]
  <2>1. PICK f \in [0..N -> S] : Recurs(f, N, base, step)
    BY <1>1, <1>3, <1>5, Recursion
  <2>2. \A n \in 0..N : n # 0 => n \in 1..N /\ f[n - 1] \in S
    BY <1>1
  <2>3. \A n \in 0..N : f[n] = IF n = 0 THEN base ELSE Select(f[n - 1], relevant[n])
    BY <1>5, <2>1, <2>2 DEF Recurs
  <2>4. f = [n \in 0..N |-> f[n]]
    OBVIOUS
  <2> QED
    BY <2>3, <2>4
<1>7. run = [n \in 0..N |-> IF n = 0 THEN base ELSE Select(run[n - 1], relevant[n])]
  BY <1>6 DEF run
<1>8. run[0] = base /\ \A n \in 1..N : run[n] = Select(run[n - 1], relevant[n])
  BY <1>1, <1>7
<1>9. \A n \in 0..N : run[n] \in S
  <2>1. \A n \in 1..N : run[n - 1] \in S => run[n] \in S
    BY <1>4, <1>8
  <2>2. run[0] \in S
    BY <1>3, <1>8
  <2> QED
    BY <1>1, <2>1, <2>2, StaysIn
<1> QED
  BY <1>2, <1>8, <1>9 DEF N, S, base

\* The items of a request: each chunk once, with the source and corpus it was found with.
SelectedFrom(items, relevant) ==
  /\ items \in Seq(Items) /\ OncePerChunk(items) /\ Len(items) <= ResultLimit
  /\ \A j \in DOMAIN items : \E k \in DOMAIN relevant :
       /\ items[j].chunk = relevant[k].chunk
       /\ items[j].source = relevant[k].source /\ items[j].corpus = relevant[k].corpus

LEMMA ItemsSelected ==
  ASSUME NEW relevant \in Seq(Ranked), OncePerChunk(relevant)
  PROVE  SelectedFrom(Selected(relevant), relevant)
<1> DEFINE N == Len(relevant)
           Found(items, n) ==
             \A j \in DOMAIN items : \E k \in 1..n :
               /\ items[j].chunk = relevant[k].chunk
               /\ items[j].source = relevant[k].source /\ items[j].corpus = relevant[k].corpus
<1>1. N \in Nat /\ DOMAIN relevant = 1..N
  BY LenProperties
<1>2. PICK run :
        /\ run[0] = [items |-> <<>>, tokens |-> 0]
        /\ \A n \in 1..N : run[n] = Select(run[n - 1], relevant[n])
        /\ \A n \in 0..N : run[n] \in [items : Seq(Items), tokens : Nat]
        /\ Selected(relevant) = run[N].items
  BY SelectedRuns
<1> HIDE DEF N
<1> DEFINE T == {n \in 0..N : /\ OncePerChunk(run[n].items) /\ Len(run[n].items) <= ResultLimit
                              /\ Found(run[n].items, n)}
<1>3. 0 \in T
  <2>1. run[0].items = <<>> /\ 0 \in 0..N
    BY <1>1, <1>2
  <2>2. Len(<<>>) = 0 /\ DOMAIN <<>> = {} /\ 0 <= ResultLimit
    BY EmptySeq, ConstantTypes
  <2> QED
    BY <2>1, <2>2 DEF OncePerChunk
<1>4. ASSUME NEW n \in 1..N, n - 1 \in T PROVE n \in T
  <2> DEFINE c == relevant[n]
             item == [chunk |-> c.chunk, source |-> c.source, corpus |-> c.corpus]
             old == run[n - 1].items
             new == run[n].items
  <2>1. /\ n \in 0..N /\ n - 1 \in 0..N /\ n \in DOMAIN relevant
        /\ \A k \in 1..(n - 1) : k \in 1..n /\ k \in DOMAIN relevant /\ k # n
        /\ n \in 1..n
    BY <1>1
  <2>2. old \in Seq(Items) /\ new \in Seq(Items) /\ run[n] = Select(run[n - 1], relevant[n])
    BY <1>2, <2>1
  <2>3. OncePerChunk(old) /\ Len(old) <= ResultLimit /\ Found(old, n - 1)
    BY <1>4
  <2>4. new = old \/ (Len(old) # ResultLimit /\ new = Append(old, item))
    BY <2>2 DEF Select
  <2>5. CASE new = old
    <3>1. Found(old, n)
      BY <2>1, <2>3
    <3> HIDE DEF Found
    <3> QED
      BY <2>1, <2>3, <2>5, <3>1
  <2>6. CASE Len(old) # ResultLimit /\ new = Append(old, item)
    <3>1. c \in Ranked
      BY <2>1, <1>1, ElementOfSeq DEF N
    <3>2. item \in Items /\ item.chunk = c.chunk /\ item.source = c.source /\ item.corpus = c.corpus
      BY <3>1 DEF Items, Ranked
    <3>3. Len(old) \in Nat /\ DOMAIN old = 1..Len(old) /\ DOMAIN new = 1..Len(new)
      BY <2>2, LenProperties
    <3> HIDE DEF item, new, old
    <3>4. /\ Len(new) = Len(old) + 1 /\ new[Len(old) + 1] = item
          /\ \A j \in 1..Len(old) : new[j] = old[j]
      BY <2>2, <2>6, <3>2, AppendProperties
    <3>5. \A j \in DOMAIN new : j \in DOMAIN old \/ j = Len(old) + 1
      BY <3>3, <3>4
    <3>6. \A j \in DOMAIN old : old[j].chunk # c.chunk
      <4> TAKE j \in DOMAIN old
      <4>1. PICK k \in 1..(n - 1) : old[j].chunk = relevant[k].chunk
        BY <2>3
      <4> QED
        BY <2>1, <4>1 DEF OncePerChunk
    <3>7. OncePerChunk(new)
      BY <2>3, <3>2, <3>3, <3>4, <3>5, <3>6 DEF OncePerChunk
    <3>8. Len(new) <= ResultLimit
      <4>1. ResultLimit \in Nat
        BY ConstantTypes
      <4>2. Len(old) <= ResultLimit /\ Len(old) # ResultLimit
        BY <2>3, <2>6
      <4>3. Len(old) \in Nat /\ Len(new) = Len(old) + 1
        BY <3>3, <3>4
      <4> QED
        BY <4>1, <4>2, <4>3
    <3>9. Found(new, n)
      <4> TAKE j \in DOMAIN new
      <4>1. CASE j \in DOMAIN old
        BY <2>1, <2>3, <3>3, <3>4, <4>1
      <4>2. CASE j = Len(old) + 1
        BY <2>1, <3>2, <3>4, <4>2
      <4> QED
        BY <3>5, <4>1, <4>2
    <3> HIDE DEF Found
    <3> QED
      BY <2>1, <3>7, <3>8, <3>9 DEF new
  <2> QED
    BY <2>4, <2>5, <2>6
<1> HIDE DEF T
<1>5. N \in T /\ N \in 0..N
  <2>1. \A n \in 0..N : n \in T
    BY <1>1, <1>3, <1>4, Steps
  <2> QED
    BY <1>1, <2>1
<1>6. Selected(relevant) \in Seq(Items)
  BY <1>2, <1>5
<1>7. OncePerChunk(Selected(relevant)) /\ Len(Selected(relevant)) <= ResultLimit
      /\ Found(Selected(relevant), N)
  BY ZenonT(30), <1>2, <1>5 DEF T
<1> QED
  BY <1>1, <1>6, <1>7 DEF SelectedFrom

\* ResultsConsistent and ItemsOfReportedCorpus, of one result.
Consistent(r) ==
  /\ (r.status = "completed") = (r.items # <<>>)
  /\ Total([j \in DOMAIN r.outcomes |-> r.outcomes[j].reranked]) = r.reranked
  /\ Total([j \in DOMAIN r.outcomes |-> r.outcomes[j].returned]) = Len(r.items)
  /\ \A j \in DOMAIN r.outcomes :
       LET o == r.outcomes[j]
       IN /\ (o.status = "completed") = (o.deduplicated > 0)
          /\ o.returned <= o.reranked /\ o.reranked <= o.deduplicated
          /\ o.status = "failed" => r.status = "failed"

OfReportedCorpus(r) ==
  /\ IsInjective([j \in DOMAIN r.items |-> r.items[j].chunk])
  /\ \A j \in DOMAIN r.items : \E k \in DOMAIN r.outcomes :
       LET o == r.outcomes[k]
       IN /\ o.source = r.items[j].source /\ o.corpus = r.items[j].corpus
          /\ r.items[j].chunk \in ChunksOf(o.corpus)

ResultKeeps(r) ==
  /\ r \in Results /\ Len(r.items) <= ResultLimit /\ r.reranked <= RerankLimit
  /\ Consistent(r) /\ OfReportedCorpus(r)

\* What the sources contributed, with the counts of what was reranked and returned.
LEMMA OutcomesOf ==
  ASSUME NEW searched, AllKeep(searched), NEW answer, NEW items
  PROVE  LET O == Outcomes(searched, answer, items)
         IN /\ DOMAIN O = DOMAIN searched
            /\ \A i \in DOMAIN searched :
                 /\ O[i].source = searched[i].source /\ O[i].status = searched[i].status
                 /\ O[i].corpus = searched[i].corpus
                 /\ O[i].deduplicated = searched[i].deduplicated
                 /\ O[i].reranked = Count(answer, searched[i].source)
                 /\ O[i].returned = Count(items, searched[i].source)
BY DEF Outcomes, Outcome, Count

LEMMA OutcomesType ==
  ASSUME NEW searched, AllKeep(searched), NEW A, NEW answer \in Seq(A), NEW I, NEW items \in Seq(I)
  PROVE  Outcomes(searched, answer, items) \in Seq(SourceOutcomes)
<1> DEFINE O == Outcomes(searched, answer, items)
<1>1. ASSUME NEW i \in DOMAIN searched PROVE O[i] \in SourceOutcomes
  <2> DEFINE s == searched[i]
             re == Count(answer, s.source)
             ret == Count(items, s.source)
  <2>1. s \in Searches
    BY DEF AllKeep, SearchKeeps
  <2>2. re \in Nat /\ ret \in Nat
    BY CountType
  <2>3. O[i] = [source |-> s.source, status |-> s.status, corpus |-> s.corpus,
                deduplicated |-> s.deduplicated, reranked |-> re, returned |-> ret]
    BY DEF Outcomes, Outcome, Count
  <2> HIDE DEF s, re, ret, O
  <2> QED
    BY <2>1, <2>2, <2>3 DEF Searches, SourceOutcomes
<1>2. DOMAIN O = 1..Len(searched) /\ Len(searched) \in Nat /\ DOMAIN searched = 1..Len(searched)
  BY SourcesSearched DEF Outcomes
<1>3. O = [i \in DOMAIN O |-> O[i]]
  BY DEF Outcomes
<1> HIDE DEF O
<1>4. O \in [1..Len(searched) -> SourceOutcomes]
  BY <1>1, <1>2, <1>3
<1>5. O \in Seq(SourceOutcomes)
  BY <1>2, <1>4, SequenceOf
<1> QED
  BY <1>5 DEF O

\* The counts of the sources add up to what was reranked, or returned.
LEMMA OutcomesAddUp ==
  ASSUME NEW searched, AllKeep(searched), NEW S, NEW s \in Seq(S),
         \A j \in DOMAIN s : \E i \in DOMAIN searched : searched[i].source = s[j].source
  PROVE  Total([i \in DOMAIN searched |-> Count(s, searched[i].source)]) = Len(s)
<1> DEFINE L == Len(searched)
           sources == [i \in DOMAIN searched |-> searched[i].source]
<1>1. L \in Nat /\ DOMAIN searched = 1..L /\ \A i \in DOMAIN searched : searched[i].source \in Sources
  BY SourcesSearched
<1>2. sources \in [1..L -> Sources]
  BY <1>1
<1>3. IsInjective(sources)
  BY SourcesSearched DEF IsInjective
<1>4. \A j \in DOMAIN s : \E i \in DOMAIN sources : sources[i] = s[j].source
  OBVIOUS
<1>5. [i \in DOMAIN searched |-> Count(s, searched[i].source)]
        = [i \in DOMAIN sources |-> Count(s, sources[i])]
  OBVIOUS
<1> HIDE DEF sources, L
<1>6. sources \in Seq(Sources)
  BY <1>1, <1>2, SequenceOf
<1>7. Total([i \in DOMAIN sources |-> Count(s, sources[i])]) = Len(s)
  BY <1>3, <1>4, <1>6, CountsAddUp
<1> QED
  BY <1>5, <1>7

\* No source reranks more than it found, or returns more than was reranked.
LEMMA OutcomesBounded ==
  ASSUME NEW searched, AllKeep(searched), NEW i \in DOMAIN searched,
         NEW answer, RerankedFrom(answer, searched), NEW items, SelectedFrom(items, answer)
  PROVE  /\ Count(items, searched[i].source) <= Count(answer, searched[i].source)
         /\ Count(answer, searched[i].source) <= searched[i].deduplicated
<1> DEFINE a == searched[i].source
           found == searched[i].candidates
<1>1. searched[i] \in Searches /\ Len(found) <= searched[i].deduplicated
  BY DEF AllKeep, SearchKeeps
<1>2. found \in Seq(Ranked) /\ searched[i].deduplicated \in Nat
  BY <1>1 DEF Searches
<1>3. answer \in Seq(Ranked) /\ OncePerChunk(answer) /\ items \in Seq(Items) /\ OncePerChunk(items)
  BY DEF RerankedFrom, SelectedFrom
<1>4. Count(items, a) <= Count(answer, a)
  <2>1. \A j \in DOMAIN items : items[j].source = a =>
          \E k \in DOMAIN answer : answer[k].chunk = items[j].chunk /\ answer[k].source = a
    BY DEF SelectedFrom
  <2> HIDE DEF a
  <2> QED
    BY <1>3, <2>1, CountInto
<1>5. Count(answer, a) <= Count(found, a)
  <2>1. ASSUME NEW j \in DOMAIN answer, answer[j].source = a
        PROVE  \E k \in DOMAIN found : found[k].chunk = answer[j].chunk /\ found[k].source = a
    <3>1. PICK n \in DOMAIN searched : answer[j] \in ToSet(searched[n].candidates)
      BY DEF RerankedFrom
    <3>2. answer[j].source = searched[n].source
      BY <3>1, CandidateFound
    <3>3. n = i
      BY <2>1, <3>2, SourcesSearched
    <3>4. PICK k \in DOMAIN found : answer[j] = found[k]
      BY <3>1, <3>3 DEF ToSet
    <3> QED
      BY <2>1, <3>4
  <2> HIDE DEF a, found
  <2> QED
    BY <1>2, <1>3, <2>1, CountInto
<1>6. Count(found, a) <= Len(found) /\ Count(found, a) \in Nat /\ Count(answer, a) \in Nat
      /\ Len(found) \in Nat
  BY <1>2, <1>3, CountType, LenProperties
<1> HIDE DEF a, found
<1>7. Count(answer, a) <= searched[i].deduplicated
  BY <1>1, <1>2, <1>5, <1>6
<1> QED
  BY <1>4, <1>7 DEF a

LEMMA ResultOf ==
  ASSUME NEW searched, AllKeep(searched), NEW answer, RerankedFrom(answer, searched),
         NEW items, SelectedFrom(items, answer),
         NEW status \in Statuses, (status = "completed") = (items # <<>>),
         \A i \in DOMAIN searched : searched[i].status = "failed" => status = "failed"
  PROVE  ResultKeeps(RetrievalResult(status, items, Outcomes(searched, answer, items), Len(answer)))
<1> DEFINE O == Outcomes(searched, answer, items)
           r == RetrievalResult(status, items, O, Len(answer))
<1>1. r.status = status /\ r.items = items /\ r.outcomes = O /\ r.reranked = Len(answer)
  BY DEF RetrievalResult
<1>2. answer \in Seq(Ranked) /\ items \in Seq(Items) /\ Len(answer) \in Nat
      /\ Len(answer) <= RerankLimit /\ Len(items) <= ResultLimit
  BY LenProperties DEF RerankedFrom, SelectedFrom
<1>3. O \in Seq(SourceOutcomes)
  BY <1>2, OutcomesType
<1>4. /\ DOMAIN O = DOMAIN searched
      /\ \A i \in DOMAIN searched :
           /\ O[i].source = searched[i].source /\ O[i].status = searched[i].status
           /\ O[i].corpus = searched[i].corpus
           /\ O[i].deduplicated = searched[i].deduplicated
           /\ O[i].reranked = Count(answer, searched[i].source)
           /\ O[i].returned = Count(items, searched[i].source)
  BY OutcomesOf
<1> HIDE DEF O
<1>5. r \in Results
  BY <1>2, <1>3 DEF RetrievalResult, Results
<1> HIDE DEF r
<1>6. \A j \in DOMAIN answer : \E i \in DOMAIN searched : searched[i].source = answer[j].source
  BY CandidateFound DEF RerankedFrom
<1>7. \A j \in DOMAIN items : \E i \in DOMAIN searched : searched[i].source = items[j].source
  BY <1>6 DEF SelectedFrom
<1>8. Consistent(r)
  <2>1. Total([j \in DOMAIN O |-> O[j].reranked]) = Len(answer)
    <3>1. [j \in DOMAIN O |-> O[j].reranked]
            = [i \in DOMAIN searched |-> Count(answer, searched[i].source)]
      BY <1>4
    <3> QED
      BY <1>2, <1>6, <3>1, OutcomesAddUp
  <2>2. Total([j \in DOMAIN O |-> O[j].returned]) = Len(items)
    <3>1. [j \in DOMAIN O |-> O[j].returned]
            = [i \in DOMAIN searched |-> Count(items, searched[i].source)]
      BY <1>4
    <3> QED
      BY <1>2, <1>7, <3>1, OutcomesAddUp
  <2>3. ASSUME NEW j \in DOMAIN O
        PROVE  /\ (O[j].status = "completed") = (O[j].deduplicated > 0)
               /\ O[j].returned <= O[j].reranked /\ O[j].reranked <= O[j].deduplicated
               /\ O[j].status = "failed" => status = "failed"
    <3>1. j \in DOMAIN searched
      BY <1>4
    <3>2. searched[j].status = "completed" <=> searched[j].deduplicated > 0
      BY <3>1 DEF AllKeep, SearchKeeps
    <3>3. O[j].returned <= O[j].reranked /\ O[j].reranked <= O[j].deduplicated
      BY <1>4, <3>1, OutcomesBounded
    <3> QED
      BY <1>4, <3>1, <3>2, <3>3
  <2> QED
    BY <1>1, <2>1, <2>2, <2>3 DEF Consistent
<1>9. OfReportedCorpus(r)
  <2>1. IsInjective([j \in DOMAIN items |-> items[j].chunk])
    BY DEF IsInjective, SelectedFrom, OncePerChunk
  <2>2. ASSUME NEW j \in DOMAIN items
        PROVE  \E k \in DOMAIN O : /\ O[k].source = items[j].source /\ O[k].corpus = items[j].corpus
                                   /\ items[j].chunk \in ChunksOf(O[k].corpus)
    <3>1. PICK n \in DOMAIN answer :
            /\ items[j].chunk = answer[n].chunk
            /\ items[j].source = answer[n].source /\ items[j].corpus = answer[n].corpus
      BY DEF SelectedFrom
    <3>2. PICK k \in DOMAIN searched : answer[n] \in ToSet(searched[k].candidates)
      BY DEF RerankedFrom
    <3>3. answer[n].source = searched[k].source /\ answer[n].corpus = searched[k].corpus
          /\ answer[n].chunk \in ChunksOf(answer[n].corpus)
      BY <3>2, CandidateFound
    <3> QED
      BY <1>4, <3>1, <3>3
  <2> QED
    BY <1>1, <2>1, <2>2 DEF OfReportedCorpus
<1>10. ResultKeeps(r)
  BY <1>1, <1>2, <1>5, <1>8, <1>9 DEF ResultKeeps
<1> QED
  BY <1>10 DEF r, O

-----------------------------------------------------------------------------
(* Assembly                                                                *)

\* The results assembled: each kept to what a request promises.
AllResultsKeep(rs) ==
  rs \in Seq(Results) /\ Len(rs) <= Requests /\ \A i \in DOMAIN rs : ResultKeeps(rs[i])

LEMMA ResultTypes ==
  ASSUME NEW rs, AllResultsKeep(rs)
  PROVE  /\ Len(rs) \in Nat /\ DOMAIN rs = 1..Len(rs) /\ DOMAIN rs \subseteq 1..Requests
         /\ \A i \in DOMAIN rs :
              /\ rs[i].items \in Seq(Items) /\ Len(rs[i].items) \in Nat
              /\ DOMAIN rs[i].items = 1..Len(rs[i].items)
              /\ \A k \in DOMAIN rs[i].items : rs[i].items[k] \in Items /\ rs[i].items[k].chunk \in Chunks
              /\ Returned(rs[i]) = rs[i].items
              /\ Len(rs[i].items) <= ResultLimit
<1>1. Len(rs) \in Nat /\ DOMAIN rs = 1..Len(rs) /\ Len(rs) <= Requests
  BY LenProperties DEF AllResultsKeep
<1>2. DOMAIN rs \subseteq 1..Requests
  BY <1>1, ConstantTypes
<1>3. ASSUME NEW i \in DOMAIN rs
      PROVE  /\ rs[i].items \in Seq(Items) /\ Len(rs[i].items) \in Nat
             /\ DOMAIN rs[i].items = 1..Len(rs[i].items)
             /\ \A k \in DOMAIN rs[i].items : rs[i].items[k] \in Items /\ rs[i].items[k].chunk \in Chunks
             /\ Returned(rs[i]) = rs[i].items
             /\ Len(rs[i].items) <= ResultLimit
  <2>1. ResultKeeps(rs[i])
    BY DEF AllResultsKeep
  <2>2. rs[i].items \in Seq(Items)
    BY <2>1 DEF ResultKeeps, Results
  <2>3. Len(rs[i].items) \in Nat /\ DOMAIN rs[i].items = 1..Len(rs[i].items)
    BY <2>2, LenProperties
  <2>4. \A k \in DOMAIN rs[i].items : rs[i].items[k] \in Items /\ rs[i].items[k].chunk \in Chunks
    <3>1. \A k \in DOMAIN rs[i].items : rs[i].items[k] \in Items
      BY <2>2, <2>3, ElementOfSeq
    <3>2. \A x \in Items : x.chunk \in Chunks
      BY DEF Items
    <3> QED
      BY <3>1, <3>2
  <2>5. Returned(rs[i]) = rs[i].items
    BY <2>1 DEF ResultKeeps, Consistent, Returned
  <2>6. Len(rs[i].items) <= ResultLimit
    BY <2>1 DEF ResultKeeps
  <2> QED
    BY <2>2, <2>3, <2>4, <2>5, <2>6
<1> QED
  BY <1>1, <1>2, <1>3

LEMMA AppendNew ==
  ASSUME NEW S, NEW s \in Seq(S), NEW x \in S, IsInjective(s), x \notin ToSet(s)
  PROVE  IsInjective(Append(s, x)) /\ ToSet(Append(s, x)) = ToSet(s) \cup {x}
<1> DEFINE N == Len(s)
           t == Append(s, x)
<1>1. N \in Nat /\ DOMAIN s = 1..N
  BY LenProperties
<1>2. t \in Seq(S) /\ Len(t) = N + 1 /\ t[N + 1] = x /\ \A i \in 1..N : t[i] = s[i]
  BY AppendProperties
<1> HIDE DEF t, N
<1>3. DOMAIN t = 1..(N + 1)
  BY <1>2, LenProperties
<1>4. \A i \in DOMAIN t : i \in DOMAIN s \/ i = N + 1
  BY <1>1, <1>3
<1>5. \A i \in DOMAIN s : i \in DOMAIN t /\ t[i] = s[i] /\ s[i] # x
  BY <1>1, <1>2, <1>3 DEF ToSet
<1>6. N + 1 \in DOMAIN t
  BY <1>1, <1>3
<1>7. IsInjective(t)
  BY <1>2, <1>4, <1>5 DEF IsInjective
<1>8. ToSet(t) = ToSet(s) \cup {x}
  BY <1>2, <1>4, <1>5, <1>6 DEF ToSet
<1> QED
  BY <1>7, <1>8 DEF t

LEMMA ProvenanceRuns ==
  ASSUME NEW rs, AllResultsKeep(rs), NEW ch
  PROVE  \E run :
           /\ run[0] = <<>>
           /\ \A n \in 1..Len(rs) :
                run[n] = IF ch \in Chunked(rs[n].items) THEN Append(run[n - 1], n) ELSE run[n - 1]
           /\ \A n \in 0..Len(rs) : run[n] \in Seq(1..Requests)
           /\ Provenance(ch, rs) = run[Len(rs)]
<1> DEFINE N == Len(rs)
           S == Seq(1..Requests)
           base == <<>>
           next(x, n) == IF ch \in Chunked(rs[n].items) THEN Append(x, n) ELSE x
           step == [n \in 1..N |-> [x \in S |-> next(x, n)]]
           run == CHOOSE run : run = [n \in 0..N |->
                    IF n = 0 THEN base
                    ELSE IF ch \in Chunked(rs[n].items) THEN Append(run[n - 1], n) ELSE run[n - 1]]
<1>1. N \in Nat /\ 1..N \subseteq 1..Requests
  BY ResultTypes
<1>2. Provenance(ch, rs) = run[N]
  BY DEF Provenance
<1>3. base \in S
  BY EmptySeq
<1>4. ASSUME NEW n \in 1..N, NEW x \in S PROVE next(x, n) \in S
  <2>1. Append(x, n) \in S
    BY <1>1, AppendProperties
  <2> QED
    BY <2>1
<1>5. step \in [1..N -> [S -> S]] /\ \A n \in 1..N, x \in S : step[n][x] = next(x, n)
  BY <1>4
<1> HIDE DEF step, N, S, base, run
<1>6. \E f : f = [n \in 0..N |-> IF n = 0 THEN base
                                 ELSE IF ch \in Chunked(rs[n].items) THEN Append(f[n - 1], n) ELSE f[n - 1]]
  <2>1. PICK f \in [0..N -> S] : Recurs(f, N, base, step)
    BY <1>1, <1>3, <1>5, Recursion
  <2>2. \A n \in 0..N : n # 0 => n \in 1..N /\ f[n - 1] \in S
    BY <1>1
  <2>3. \A n \in 0..N : f[n] = IF n = 0 THEN base
                               ELSE IF ch \in Chunked(rs[n].items) THEN Append(f[n - 1], n) ELSE f[n - 1]
    BY <1>5, <2>1, <2>2 DEF Recurs
  <2>4. f = [n \in 0..N |-> f[n]]
    OBVIOUS
  <2> QED
    BY <2>3, <2>4
<1>7. run = [n \in 0..N |-> IF n = 0 THEN base
                            ELSE IF ch \in Chunked(rs[n].items) THEN Append(run[n - 1], n) ELSE run[n - 1]]
  BY <1>6 DEF run
<1>8. run[0] = base /\ \A n \in 1..N :
        run[n] = IF ch \in Chunked(rs[n].items) THEN Append(run[n - 1], n) ELSE run[n - 1]
  <2>1. 0 \in 0..N /\ \A n \in 1..N : n \in 0..N /\ n # 0
    BY <1>1
  <2>2. run[0] = base
    BY <1>7, <2>1
  <2>3. ASSUME NEW n \in 1..N
        PROVE  run[n] = IF ch \in Chunked(rs[n].items) THEN Append(run[n - 1], n) ELSE run[n - 1]
    BY <1>7, <2>1
  <2> QED
    BY <2>2, <2>3
<1>9. \A n \in 0..N : run[n] \in S
  <2>1. \A n \in 1..N : run[n - 1] \in S => run[n] \in S
    BY <1>4, <1>8
  <2>2. run[0] \in S
    BY <1>3, <1>8
  <2> QED
    BY <1>1, <2>1, <2>2, StaysIn
<1> QED
  BY <1>2, <1>8, <1>9 DEF N, S, base

\* Every request that returned the chunk is named, once.
LEMMA ProvenanceNames ==
  ASSUME NEW rs, AllResultsKeep(rs), NEW ch
  PROVE  /\ Provenance(ch, rs) \in Seq(1..Requests) /\ IsInjective(Provenance(ch, rs))
         /\ ToSet(Provenance(ch, rs)) = {j \in DOMAIN rs : ch \in Chunked(rs[j].items)}
<1> DEFINE N == Len(rs)
           Named(n) == {j \in 1..n : ch \in Chunked(rs[j].items)}
<1>1. N \in Nat /\ DOMAIN rs = 1..N /\ 1..N \subseteq 1..Requests
  BY ResultTypes
<1>2. PICK run :
        /\ run[0] = <<>>
        /\ \A n \in 1..N :
             run[n] = IF ch \in Chunked(rs[n].items) THEN Append(run[n - 1], n) ELSE run[n - 1]
        /\ \A n \in 0..N : run[n] \in Seq(1..Requests)
        /\ Provenance(ch, rs) = run[N]
  BY ProvenanceRuns
<1> HIDE DEF N
<1> DEFINE T == {n \in 0..N : IsInjective(run[n]) /\ ToSet(run[n]) = Named(n)}
<1>3. 0 \in T
  <2>1. IsInjective(<<>>) /\ ToSet(<<>>) = {} /\ Named(0) = {} /\ 0 \in 0..N
    BY <1>1 DEF IsInjective, ToSet
  <2> QED
    BY <1>2, <2>1
<1>4. ASSUME NEW n \in 1..N, n - 1 \in T PROVE n \in T
  <2>1. n \in 0..N /\ n - 1 \in 0..N /\ n \in 1..Requests /\ n \notin 1..(n - 1)
        /\ \A j : j \in 1..n <=> j \in 1..(n - 1) \/ j = n
    BY <1>1
  <2> DEFINE old == run[n - 1]
  <2>2. old \in Seq(1..Requests) /\ IsInjective(old) /\ ToSet(old) = Named(n - 1) /\ n \notin ToSet(old)
    BY <1>2, <1>4, <2>1
  <2>3. CASE ch \in Chunked(rs[n].items)
    <3>1. run[n] = Append(old, n) /\ Named(n) = Named(n - 1) \cup {n}
      BY <1>2, <2>1, <2>3
    <3> HIDE DEF old, Named
    <3> DEFINE R == 1..Requests
    <3>a. old \in Seq(R) /\ n \in R
      BY <2>1, <2>2
    <3> HIDE DEF R
    <3>2. IsInjective(Append(old, n)) /\ ToSet(Append(old, n)) = ToSet(old) \cup {n}
      BY <2>2, <3>a, AppendNew
    <3> QED
      BY <2>1, <2>2, <3>1, <3>2
  <2>4. CASE ch \notin Chunked(rs[n].items)
    <3>1. run[n] = old /\ Named(n) = Named(n - 1)
      BY <1>2, <2>1, <2>4
    <3> HIDE DEF old, Named
    <3> QED
      BY <2>1, <2>2, <3>1
  <2> QED
    BY <2>3, <2>4
<1> HIDE DEF T
<1>5. N \in T /\ N \in 0..N
  <2>1. \A n \in 0..N : n \in T
    BY <1>1, <1>3, <1>4, Steps
  <2> QED
    BY <1>1, <2>1
<1> QED
  BY <1>1, <1>2, <1>5 DEF T

\* The item made of a chunk that some request returned.
LEMMA MergedItem ==
  ASSUME NEW rs, AllResultsKeep(rs), NEW j \in DOMAIN rs, NEW ch \in Chunked(rs[j].items)
  PROVE  /\ Merged(ch, rs) \in EvidenceItems /\ Merged(ch, rs).chunk = ch
         /\ Merged(ch, rs).provenance = Provenance(ch, rs) /\ Merged(ch, rs).context = <<>>
<1> DEFINE p == Provenance(ch, rs)
           first == rs[p[1]].items
           item == first[CHOOSE i \in DOMAIN first : first[i].chunk = ch]
<1>1. p \in Seq(1..Requests) /\ ToSet(p) = {k \in DOMAIN rs : ch \in Chunked(rs[k].items)}
  BY ProvenanceNames
<1> HIDE DEF p
<1>2. p # <<>>
  <2>1. j \in ToSet(p)
    BY <1>1
  <2> QED
    BY <2>1 DEF ToSet
<1>3. 1 \in DOMAIN p
  BY <1>1, <1>2, EmptySeq, LenProperties
<1>4. p[1] \in DOMAIN rs /\ ch \in Chunked(first)
  BY <1>1, <1>3 DEF ToSet
<1>5. \E i \in DOMAIN first : first[i].chunk = ch
  BY <1>4 DEF Chunked
<1>6. item \in Items /\ item.chunk = ch
  BY <1>4, <1>5, ResultTypes
<1>7. Merged(ch, rs) = [chunk |-> ch, source |-> item.source, corpus |-> item.corpus,
                        provenance |-> p, context |-> <<>>]
  BY DEF Merged, p
<1> HIDE DEF item
<1>8. ch \in Chunks /\ item.source \in Sources /\ item.corpus \in Corpora /\ <<>> \in Seq(Chunks)
  BY <1>6, EmptySeq DEF Items
<1> QED
  BY <1>1, <1>7, <1>8 DEF EvidenceItems, p

LEMMA MaxOf ==
  ASSUME NEW A \in SUBSET Nat, A # {}, NEW b \in Nat, \A a \in A : a <= b
  PROVE  Max(A) \in A /\ \A a \in A : a <= Max(A)
<1> DEFINE U == {u \in Nat : \A a \in A : a <= u}
<1>1. PICK u \in U : \A v \in U : ~(<<v, u>> \in OpToRel(<, Nat))
  <2>1. U \subseteq Nat /\ b \in U
    OBVIOUS
  <2> HIDE DEF U
  <2> QED
    BY <2>1, NatLessThanWellFounded, WFMin
<1>2. u \in A
  <2> SUFFICES ASSUME u \notin A PROVE FALSE
    OBVIOUS
  <2>1. PICK a \in A : a <= u /\ a # u
    OBVIOUS
  <2>2. u - 1 \in U
    <3>1. \A x \in A : x # u /\ x <= u /\ x \in Nat
      OBVIOUS
    <3> QED
      BY <2>1, <3>1
  <2>3. <<u - 1, u>> \in OpToRel(<, Nat)
    BY <2>2 DEF OpToRel
  <2> QED
    BY <1>1, <2>2, <2>3
<1>3. \E x \in A : \A y \in A : x >= y
  BY <1>2
<1>4. Max(A) \in A /\ \A y \in A : Max(A) >= y
  BY <1>3 DEF Max
<1> QED
  BY <1>4

LEMMA RoundCountCovers ==
  ASSUME NEW rs, AllResultsKeep(rs)
  PROVE  RoundCount(rs) \in Nat /\ \A i \in DOMAIN rs : Len(Returned(rs[i])) <= RoundCount(rs)
<1> DEFINE A == {0} \cup {Len(Returned(rs[i])) : i \in DOMAIN rs}
<1>1. \A i \in DOMAIN rs : Len(Returned(rs[i])) \in Nat /\ Len(Returned(rs[i])) <= ResultLimit
  BY ResultTypes
<1>2. A \in SUBSET Nat /\ A # {}
  BY <1>1
<1>3. ResultLimit \in Nat /\ \A a \in A : a <= ResultLimit
  BY <1>1, ConstantTypes
<1>4. \A i \in DOMAIN rs : Len(Returned(rs[i])) \in A
  OBVIOUS
<1>5. RoundCount(rs) = Max(A)
  BY DEF RoundCount
<1> HIDE DEF A
<1>6. Max(A) \in A /\ \A a \in A : a <= Max(A)
  BY <1>2, <1>3, MaxOf
<1> QED
  BY <1>2, <1>4, <1>5, <1>6

-----------------------------------------------------------------------------
(* Costs                                                                   *)

LEMMA TokensType ==
  ASSUME NEW n \in Nat
  PROVE  Tokens(n) \in Nat
BY DEF Tokens

LEMMA JoinedType ==
  ASSUME NEW context \in Seq(Chunks)
  PROVE  /\ [i \in DOMAIN context |-> Length(context[i])] \in Seq(Nat)
         /\ JoinedLength(context) \in Nat
<1> DEFINE N == Len(context)
           lengths == [i \in DOMAIN context |-> Length(context[i])]
<1>1. N \in Nat /\ DOMAIN context = 1..N /\ \A i \in 1..N : context[i] \in Chunks
  BY LenProperties, ElementOfSeq
<1>2. \A i \in 1..N : Length(context[i]) \in Nat
  BY <1>1, ChunkTypes
<1>3. lengths \in [1..N -> Nat]
  BY <1>1, <1>2
<1>4. context # <<>> => N # 0
  BY EmptySeq
<1>5. JoinedLength(context) = IF context = <<>> THEN 0 ELSE Total(lengths) + 2 * (N - 1)
  BY DEF JoinedLength
<1> HIDE DEF lengths, N
<1>6. lengths \in Seq(Nat)
  BY <1>1, <1>3, SequenceOf
<1>7. Total(lengths) \in Nat
  BY <1>6, TotalType
<1>8. JoinedLength(context) \in Nat
  BY <1>1, <1>4, <1>5, <1>7
<1> QED
  BY <1>6, <1>8 DEF lengths

LEMMA CostType ==
  ASSUME NEW item \in EvidenceItems
  PROVE  Cost(item) \in Nat
<1>1. item.chunk \in Chunks /\ item.context \in Seq(Chunks)
  BY DEF EvidenceItems
<1>2. Tokens(Length(item.chunk)) \in Nat
  BY <1>1, ChunkTypes, TokensType
<1>3. Tokens(JoinedLength(item.context)) \in Nat
  BY <1>1, JoinedType, TokensType
<1> QED
  BY <1>2, <1>3 DEF Cost

Costs(items) == [i \in DOMAIN items |-> Cost(items[i])]

LEMMA CostsType ==
  ASSUME NEW items \in Seq(EvidenceItems)
  PROVE  Costs(items) \in Seq(Nat) /\ Len(Costs(items)) = Len(items)
<1>1. Len(items) \in Nat /\ DOMAIN items = 1..Len(items)
      /\ \A i \in 1..Len(items) : items[i] \in EvidenceItems
  BY LenProperties, ElementOfSeq
<1>2. Costs(items) \in [1..Len(items) -> Nat]
  BY <1>1, CostType DEF Costs
<1> QED
  BY <1>1, <1>2, SequenceOf

LEMMA CostsAppend ==
  ASSUME NEW items \in Seq(EvidenceItems), NEW item \in EvidenceItems
  PROVE  Total(Costs(Append(items, item))) = Total(Costs(items)) + Cost(item)
<1> DEFINE N == Len(items)
           new == Append(items, item)
           a == Costs(new)
           b == Append(Costs(items), Cost(item))
<1>1. N \in Nat /\ DOMAIN items = 1..N
  BY LenProperties
<1>2. new \in Seq(EvidenceItems) /\ Len(new) = N + 1 /\ new[N + 1] = item
      /\ \A i \in 1..N : new[i] = items[i]
  BY AppendProperties
<1>3. Costs(items) \in Seq(Nat) /\ Len(Costs(items)) = N
  BY CostsType
<1>4. Cost(item) \in Nat
  BY CostType
<1>5. b \in Seq(Nat) /\ Len(b) = N + 1 /\ b[N + 1] = Cost(item)
      /\ \A i \in 1..N : b[i] = Costs(items)[i]
  BY <1>3, <1>4, AppendProperties
<1> HIDE DEF new, N
<1>6. a \in Seq(Nat) /\ Len(a) = N + 1 /\ DOMAIN new = 1..(N + 1)
  BY <1>2, CostsType, LenProperties
<1>7. \A i \in 1..(N + 1) : a[i] = Cost(new[i])
  BY <1>6 DEF Costs
<1>8. \A i \in 1..N : Costs(items)[i] = Cost(items[i])
  BY <1>1 DEF Costs
<1> HIDE DEF a, b
<1>9. \A i \in 1..(N + 1) : a[i] = b[i]
  <2> TAKE i \in 1..(N + 1)
  <2>1. CASE i = N + 1
    BY <1>2, <1>5, <1>7, <2>1
  <2>2. CASE i \in 1..N
    BY <1>2, <1>5, <1>7, <1>8, <2>2
  <2> QED
    BY <1>1, <2>1, <2>2
<1>10. a = b
  BY <1>5, <1>6, <1>9, SeqEqual
<1>11. Total(b) = Total(Costs(items)) + Cost(item)
  BY <1>3, <1>4, TotalAppend DEF b
<1> QED
  BY <1>10, <1>11 DEF a, new

-----------------------------------------------------------------------------
(* Rounds                                                                  *)

\* A set assembled from a set D of chunks: it holds each of them once, merged,
\* unless a budget was and still is too small for it, and says so if it is.
Sound(s, D, rs) ==
  /\ s \in EvidenceSets /\ Len(s.items) <= ItemLimit
  /\ OncePerChunk(s.items)
  /\ \A i \in DOMAIN s.items : s.items[i].chunk \in D /\ s.items[i] = Merged(s.items[i].chunk, rs)
  /\ s.tokens = Total(Costs(s.items))
  /\ s.items_exhausted \/ s.tokens_exhausted <=> \E ch \in D : ch \notin Chunked(s.items)
  /\ \A ch \in D : ch \notin Chunked(s.items) =>
       Len(s.items) >= ItemLimit \/ ExceedsTokens(s.tokens, Length(ch))

ReturnedBy(rs) == UNION {Chunked(rs[i].items) : i \in DOMAIN rs}

LEMMA ReturnedTypes ==
  ASSUME NEW rs, AllResultsKeep(rs), NEW ch \in ReturnedBy(rs)
  PROVE  ch \in Chunks /\ Length(ch) \in Nat /\ Tokens(Length(ch)) \in Nat
         /\ Merged(ch, rs) \in EvidenceItems /\ Merged(ch, rs).chunk = ch
         /\ Cost(Merged(ch, rs)) = Tokens(Length(ch))
<1>1. PICK j \in DOMAIN rs : ch \in Chunked(rs[j].items)
  BY DEF ReturnedBy
<1>2. Merged(ch, rs) \in EvidenceItems /\ Merged(ch, rs).chunk = ch /\ Merged(ch, rs).context = <<>>
  BY <1>1, MergedItem
<1>3. ch \in Chunks
  BY <1>2 DEF EvidenceItems
<1>4. Length(ch) \in Nat /\ Tokens(Length(ch)) \in Nat
  BY <1>3, ChunkTypes, TokensType
<1>5. Cost(Merged(ch, rs)) = Tokens(Length(ch))
  BY <1>2, <1>4 DEF Cost
<1> QED
  BY <1>2, <1>3, <1>4, <1>5

\* What Consider does: nothing, a flag, or an item.
LEMMA ConsiderCases ==
  ASSUME NEW s \in EvidenceSets, NEW ch, NEW rs
  PROVE  LET exceeds_items == Len(s.items) >= ItemLimit
             exceeds_tokens == ExceedsTokens(s.tokens, Length(ch))
             t == Consider(s, ch, rs)
         IN \/ ch \in Chunked(s.items) /\ t = s
            \/ /\ ch \notin Chunked(s.items) /\ (exceeds_items \/ exceeds_tokens)
               /\ t = [s EXCEPT !.items_exhausted = s.items_exhausted \/ exceeds_items,
                                !.tokens_exhausted = s.tokens_exhausted \/ exceeds_tokens]
            \/ /\ ch \notin Chunked(s.items) /\ ~exceeds_items /\ ~exceeds_tokens
               /\ t = [s EXCEPT !.items = Append(s.items, Merged(ch, rs)),
                                !.tokens = s.tokens + Tokens(Length(ch))]
BY DEF Consider

LEMMA ConsiderType ==
  ASSUME NEW rs, AllResultsKeep(rs), NEW ch \in ReturnedBy(rs), NEW s \in EvidenceSets
  PROVE  Consider(s, ch, rs) \in EvidenceSets
<1>1. s.items \in Seq(EvidenceItems) /\ s.tokens \in 0..TokenLimit /\ TokenLimit \in Nat
  BY ConstantTypes DEF EvidenceSets
<1>2. Append(s.items, Merged(ch, rs)) \in Seq(EvidenceItems)
  BY <1>1, ReturnedTypes, AppendProperties
<1>3. ~ExceedsTokens(s.tokens, Length(ch)) => s.tokens + Tokens(Length(ch)) \in 0..TokenLimit
  BY <1>1, ReturnedTypes DEF ExceedsTokens
<1> DEFINE exceeds_items == Len(s.items) >= ItemLimit
           exceeds_tokens == ExceedsTokens(s.tokens, Length(ch))
           a == s.items_exhausted \/ exceeds_items
           b == s.tokens_exhausted \/ exceeds_tokens
<1>4. a \in BOOLEAN /\ b \in BOOLEAN
  OBVIOUS
<1>5. \/ Consider(s, ch, rs) = s
      \/ Consider(s, ch, rs) = [s EXCEPT !.items_exhausted = a, !.tokens_exhausted = b]
      \/ /\ ~exceeds_tokens
         /\ Consider(s, ch, rs) = [s EXCEPT !.items = Append(s.items, Merged(ch, rs)),
                                            !.tokens = s.tokens + Tokens(Length(ch))]
  BY ConsiderCases
<1> HIDE DEF a, b
<1>6. [s EXCEPT !.items_exhausted = a, !.tokens_exhausted = b] \in EvidenceSets
  BY <1>4 DEF EvidenceSets
<1>7. ~exceeds_tokens => [s EXCEPT !.items = Append(s.items, Merged(ch, rs)),
                                   !.tokens = s.tokens + Tokens(Length(ch))] \in EvidenceSets
  <2> SUFFICES ASSUME ~exceeds_tokens
               PROVE  [s EXCEPT !.items = Append(s.items, Merged(ch, rs)),
                                !.tokens = s.tokens + Tokens(Length(ch))] \in EvidenceSets
    OBVIOUS
  <2> DEFINE items == Append(s.items, Merged(ch, rs))
             tokens == s.tokens + Tokens(Length(ch))
  <2>1. items \in Seq(EvidenceItems) /\ tokens \in 0..TokenLimit
    BY <1>2, <1>3
  <2> HIDE DEF items, tokens
  <2>2. [s EXCEPT !.items = items, !.tokens = tokens] \in EvidenceSets
    BY <2>1 DEF EvidenceSets
  <2> QED
    BY <2>2 DEF items, tokens
<1> HIDE DEF exceeds_tokens, exceeds_items
<1> QED
  BY <1>5, <1>6, <1>7

LEMMA ConsiderSound ==
  ASSUME NEW rs, AllResultsKeep(rs), NEW ch \in ReturnedBy(rs),
         NEW D, D \subseteq Chunks, NEW s, Sound(s, D, rs)
  PROVE  Sound(Consider(s, ch, rs), D \cup {ch}, rs)
<1> DEFINE t == Consider(s, ch, rs)
           item == Merged(ch, rs)
<1> SUFFICES Sound(t, D \cup {ch}, rs)
  OBVIOUS
<1>1. s \in EvidenceSets /\ s.items \in Seq(EvidenceItems) /\ s.tokens \in Nat
      /\ s.items_exhausted \in BOOLEAN /\ s.tokens_exhausted \in BOOLEAN
  BY ConstantTypes DEF Sound, EvidenceSets
<1>2. t \in EvidenceSets
  BY <1>1, ConsiderType
<1>3. item \in EvidenceItems /\ item.chunk = ch /\ Cost(item) = Tokens(Length(ch))
      /\ Tokens(Length(ch)) \in Nat
  BY ReturnedTypes
<1>4. CASE ch \in Chunked(s.items) /\ t = s
  <2>1. \A x \in D \cup {ch} : x \notin Chunked(s.items) => x \in D
    BY <1>4
  <2>2. \A x \in D : x \in D \cup {ch}
    OBVIOUS
  <2>3. Sound(s, D \cup {ch}, rs)
    BY <2>1, <2>2 DEF Sound
  <2> QED
    BY <1>4, <2>3
<1>5. CASE /\ ch \notin Chunked(s.items)
           /\ Len(s.items) >= ItemLimit \/ ExceedsTokens(s.tokens, Length(ch))
           /\ t = [s EXCEPT !.items_exhausted = s.items_exhausted \/ Len(s.items) >= ItemLimit,
                            !.tokens_exhausted = s.tokens_exhausted
                                                   \/ ExceedsTokens(s.tokens, Length(ch))]
  <2>1. t.items = s.items /\ t.tokens = s.tokens /\ (t.items_exhausted \/ t.tokens_exhausted)
    BY <1>1, <1>5 DEF EvidenceSets
  <2>2. Len(t.items) <= ItemLimit /\ OncePerChunk(t.items) /\ t.tokens = Total(Costs(t.items))
    BY <2>1 DEF Sound
  <2>3. \A i \in DOMAIN t.items : t.items[i].chunk \in D \cup {ch}
                                  /\ t.items[i] = Merged(t.items[i].chunk, rs)
    BY <2>1 DEF Sound
  <2>4. ch \in D \cup {ch} /\ ch \notin Chunked(t.items)
    BY <1>5, <2>1
  <2>5. \A x \in D \cup {ch} : x \notin Chunked(t.items) =>
          Len(t.items) >= ItemLimit \/ ExceedsTokens(t.tokens, Length(x))
    BY <1>5, <2>1 DEF Sound
  <2> HIDE DEF t
  <2> QED
    BY <1>2, <2>1, <2>2, <2>3, <2>4, <2>5 DEF Sound
<1>6. CASE /\ ch \notin Chunked(s.items)
           /\ ~(Len(s.items) >= ItemLimit) /\ ~ExceedsTokens(s.tokens, Length(ch))
           /\ t = [s EXCEPT !.items = Append(s.items, item), !.tokens = s.tokens + Tokens(Length(ch))]
  <2> DEFINE N == Len(s.items)
             new == t.items
  <2>1. t.items = Append(s.items, item) /\ t.tokens = s.tokens + Tokens(Length(ch))
        /\ t.items_exhausted = s.items_exhausted /\ t.tokens_exhausted = s.tokens_exhausted
    BY <1>1, <1>6 DEF EvidenceSets
  <2>2. N \in Nat /\ DOMAIN s.items = 1..N
    BY <1>1, LenProperties
  <2> HIDE DEF item, t
  <2>3. new \in Seq(EvidenceItems) /\ Len(new) = N + 1 /\ new[N + 1] = item
        /\ \A i \in 1..N : new[i] = s.items[i]
    BY <1>1, <1>3, <2>1, AppendProperties
  <2>4. DOMAIN new = 1..(N + 1)
    BY <2>3, LenProperties
  <2> HIDE DEF N, new
  <2>5. \A i \in DOMAIN new : i \in DOMAIN s.items \/ i = N + 1
    BY <2>2, <2>4
  <2>6. \A i \in DOMAIN s.items : i \in DOMAIN new /\ new[i] = s.items[i] /\ s.items[i].chunk # ch
    BY <1>6, <2>2, <2>3, <2>4 DEF Chunked
  <2>7. N + 1 \in DOMAIN new
    BY <2>2, <2>4
  <2>8. Chunked(new) = Chunked(s.items) \cup {ch}
    BY <1>3, <2>3, <2>5, <2>6, <2>7 DEF Chunked
  <2>9. OncePerChunk(new)
    <3>1. OncePerChunk(s.items)
      BY DEF Sound
    <3> QED
      BY <1>3, <2>3, <2>5, <2>6, <3>1 DEF OncePerChunk
  <2>10. Len(new) <= ItemLimit
    <3>1. ItemLimit \in Nat /\ ~(N >= ItemLimit)
      BY <1>6, ConstantTypes DEF N
    <3> QED
      BY <2>2, <2>3, <3>1
  <2>11. \A i \in DOMAIN new : new[i].chunk \in D \cup {ch} /\ new[i] = Merged(new[i].chunk, rs)
    <3> TAKE i \in DOMAIN new
    <3>1. CASE i \in DOMAIN s.items
      BY <2>6, <3>1 DEF Sound
    <3>2. CASE i = N + 1
      BY <1>3, <2>3, <3>2 DEF item
    <3> QED
      BY <2>5, <3>1, <3>2
  <2>12. t.tokens = Total(Costs(new))
    <3>1. Total(Costs(Append(s.items, item))) = Total(Costs(s.items)) + Cost(item)
      BY <1>1, <1>3, CostsAppend
    <3>2. s.tokens = Total(Costs(s.items))
      BY DEF Sound
    <3> QED
      BY <1>3, <2>1, <3>1, <3>2 DEF new
  <2>13. ch \notin D
    BY <1>6 DEF Sound
  <2>14. \A x \in D \cup {ch} : x \notin Chunked(new) <=> x \in D /\ x \notin Chunked(s.items)
    BY <2>8, <2>13
  <2>15. t.items_exhausted \/ t.tokens_exhausted <=> \E x \in D \cup {ch} : x \notin Chunked(new)
    <3>1. s.items_exhausted \/ s.tokens_exhausted <=> \E x \in D : x \notin Chunked(s.items)
      BY DEF Sound
    <3>2. (\E x \in D : x \notin Chunked(s.items)) <=> \E x \in D \cup {ch} : x \notin Chunked(new)
      BY <2>14
    <3> QED
      BY <2>1, <3>1, <3>2
  <2>16. \A x \in D \cup {ch} : x \notin Chunked(new) =>
           Len(new) >= ItemLimit \/ ExceedsTokens(t.tokens, Length(x))
    <3> SUFFICES ASSUME NEW x \in D, x \notin Chunked(s.items)
                 PROVE  Len(new) >= ItemLimit \/ ExceedsTokens(t.tokens, Length(x))
      BY <2>14
    <3>1. N >= ItemLimit \/ ExceedsTokens(s.tokens, Length(x))
      BY DEF Sound, N
    <3>2. ExceedsTokens(s.tokens, Length(x))
      BY <1>6, <3>1 DEF N
    <3>3. s.tokens + Tokens(Length(x)) > TokenLimit
      BY <3>2 DEF ExceedsTokens
    <3>4. Tokens(Length(x)) \in Nat /\ TokenLimit \in Nat
      BY ChunkTypes, TokensType, ConstantTypes
    <3> QED
      BY <1>1, <1>3, <2>1, <3>3, <3>4 DEF ExceedsTokens
  <2> QED
    BY <1>2, <2>9, <2>10, <2>11, <2>12, <2>15, <2>16 DEF Sound, new
<1>7. \/ ch \in Chunked(s.items) /\ t = s
      \/ /\ ch \notin Chunked(s.items)
         /\ Len(s.items) >= ItemLimit \/ ExceedsTokens(s.tokens, Length(ch))
         /\ t = [s EXCEPT !.items_exhausted = s.items_exhausted \/ Len(s.items) >= ItemLimit,
                          !.tokens_exhausted = s.tokens_exhausted
                                                 \/ ExceedsTokens(s.tokens, Length(ch))]
      \/ /\ ch \notin Chunked(s.items)
         /\ ~(Len(s.items) >= ItemLimit) /\ ~ExceedsTokens(s.tokens, Length(ch))
         /\ t = [s EXCEPT !.items = Append(s.items, item), !.tokens = s.tokens + Tokens(Length(ch))]
  BY <1>1, ConsiderCases
<1> HIDE DEF t
<1> QED
  BY <1>4, <1>5, <1>6, <1>7

LEMMA RoundRuns ==
  ASSUME NEW rs, AllResultsKeep(rs), NEW set \in EvidenceSets, NEW n \in Nat \ {0}
  PROVE  \E run :
           /\ run[0] = set
           /\ \A i \in 1..Len(rs) :
                run[i] = IF n > Len(Returned(rs[i])) THEN run[i - 1]
                         ELSE Consider(run[i - 1], Returned(rs[i])[n].chunk, rs)
           /\ Round(set, n, rs) = run[Len(rs)]
           /\ \A i \in 0..Len(rs) : run[i] \in EvidenceSets
<1> DEFINE N == Len(rs)
           S == EvidenceSets
           chunk(i) == Returned(rs[i])[n].chunk
           step == [i \in 1..N |-> [x \in S |->
                      IF n > Len(Returned(rs[i])) THEN x ELSE Consider(x, chunk(i), rs)]]
           run == CHOOSE run : run = [i \in 0..N |->
                    IF i = 0 THEN set
                    ELSE IF n > Len(Returned(rs[i])) THEN run[i - 1]
                    ELSE Consider(run[i - 1], chunk(i), rs)]
<1>1. N \in Nat /\ DOMAIN rs = 1..N
  BY ResultTypes
<1>2. Round(set, n, rs) = run[N]
  BY DEF Round
<1>3. ASSUME NEW i \in 1..N, NEW x \in S
      PROVE  (IF n > Len(Returned(rs[i])) THEN x ELSE Consider(x, chunk(i), rs)) \in S
  <2> SUFFICES ASSUME ~(n > Len(Returned(rs[i]))) PROVE Consider(x, chunk(i), rs) \in S
    OBVIOUS
  <2>1. i \in DOMAIN rs /\ Returned(rs[i]) = rs[i].items /\ n \in DOMAIN rs[i].items
    BY <1>1, ResultTypes
  <2>2. chunk(i) \in ReturnedBy(rs)
    BY <2>1 DEF ReturnedBy, Chunked
  <2> QED
    BY <2>2, ConsiderType
<1>4. step \in [1..N -> [S -> S]] /\ \A i \in 1..N, x \in S :
        step[i][x] = IF n > Len(Returned(rs[i])) THEN x ELSE Consider(x, chunk(i), rs)
  BY <1>3
<1> HIDE DEF step, N, run, chunk
<1>5. \E f : f = [i \in 0..N |-> IF i = 0 THEN set
                                 ELSE IF n > Len(Returned(rs[i])) THEN f[i - 1]
                                 ELSE Consider(f[i - 1], chunk(i), rs)]
  <2>1. PICK f \in [0..N -> S] : Recurs(f, N, set, step)
    BY <1>1, <1>4, Recursion
  <2>2. \A i \in 0..N : i # 0 => i \in 1..N /\ f[i - 1] \in S
    BY <1>1
  <2>3. \A i \in 0..N : f[i] = IF i = 0 THEN set
                               ELSE IF n > Len(Returned(rs[i])) THEN f[i - 1]
                               ELSE Consider(f[i - 1], chunk(i), rs)
    BY <1>4, <2>1, <2>2 DEF Recurs
  <2>4. f = [i \in 0..N |-> f[i]]
    OBVIOUS
  <2> QED
    BY <2>3, <2>4
<1>6. run = [i \in 0..N |-> IF i = 0 THEN set
                            ELSE IF n > Len(Returned(rs[i])) THEN run[i - 1]
                            ELSE Consider(run[i - 1], chunk(i), rs)]
  BY <1>5 DEF run
<1>7. 0 \in 0..N /\ \A i \in 1..N : i \in 0..N /\ i # 0
  BY <1>1
<1>8. run[0] = set
  BY <1>6, <1>7
<1>9. ASSUME NEW i \in 1..N
      PROVE  run[i] = IF n > Len(Returned(rs[i])) THEN run[i - 1]
                      ELSE Consider(run[i - 1], chunk(i), rs)
  BY <1>6, <1>7
<1>10. \A i \in 0..N : run[i] \in S
  <2>1. \A i \in 1..N : run[i - 1] \in S => run[i] \in S
    BY <1>3, <1>9
  <2>2. run[0] \in S
    BY <1>8
  <2> QED
    BY <1>1, <2>1, <2>2, StaysIn
<1> QED
  BY <1>2, <1>8, <1>9, <1>10 DEF N, chunk

\* The n-th chunk of every result that has one.
Column(rs, n) == {rs[k].items[n].chunk : k \in {j \in DOMAIN rs : n \in DOMAIN rs[j].items}}

LEMMA RoundSound ==
  ASSUME NEW rs, AllResultsKeep(rs), NEW n \in Nat \ {0},
         NEW D, D \subseteq Chunks, NEW set, Sound(set, D, rs)
  PROVE  Sound(Round(set, n, rs), D \cup Column(rs, n), rs) /\ Column(rs, n) \subseteq Chunks
<1> DEFINE N == Len(rs)
           seen == [i \in 0..N |->
                      D \cup {rs[k].items[n].chunk : k \in {j \in 1..i : n \in DOMAIN rs[j].items}}]
<1>1. N \in Nat /\ DOMAIN rs = 1..N
  BY ResultTypes
<1>2. set \in EvidenceSets
  BY DEF Sound
<1>3. PICK run :
        /\ run[0] = set
        /\ \A i \in 1..N : run[i] = IF n > Len(Returned(rs[i])) THEN run[i - 1]
                                    ELSE Consider(run[i - 1], Returned(rs[i])[n].chunk, rs)
        /\ Round(set, n, rs) = run[N]
  BY <1>2, RoundRuns
<1> HIDE DEF N
<1>4. \A k \in 1..N : n \in DOMAIN rs[k].items =>
        rs[k].items[n].chunk \in ReturnedBy(rs) /\ rs[k].items[n].chunk \in Chunks
  BY <1>1, ResultTypes DEF ReturnedBy, Chunked
<1>5. \A i \in 0..N : seen[i] \subseteq Chunks
  BY <1>1, <1>4
<1> DEFINE T == {i \in 0..N : Sound(run[i], seen[i], rs)}
<1>6. 0 \in T
  <2>1. 0 \in 0..N /\ seen[0] = D
    BY <1>1
  <2> QED
    BY <1>3, <2>1
<1>7. ASSUME NEW i \in 1..N, i - 1 \in T PROVE i \in T
  <2>1. i \in 0..N /\ i - 1 \in 0..N /\ i \in DOMAIN rs
        /\ \A j : j \in 1..i <=> j \in 1..(i - 1) \/ j = i
    BY <1>1
  <2>2. Sound(run[i - 1], seen[i - 1], rs) /\ seen[i - 1] \subseteq Chunks
    BY <1>5, <1>7, <2>1
  <2>3. Returned(rs[i]) = rs[i].items /\ Len(rs[i].items) \in Nat
        /\ DOMAIN rs[i].items = 1..Len(rs[i].items)
    BY <2>1, ResultTypes
  <2>4. CASE n > Len(rs[i].items)
    <3>1. n \notin DOMAIN rs[i].items
      BY <2>3, <2>4
    <3>2. seen[i] = seen[i - 1]
      BY <2>1, <3>1
    <3>3. run[i] = run[i - 1]
      BY <1>3, <2>3, <2>4
    <3> HIDE DEF seen
    <3> QED
      BY <2>1, <2>2, <3>2, <3>3
  <2>5. CASE ~(n > Len(rs[i].items))
    <3> DEFINE ch == rs[i].items[n].chunk
    <3>1. n \in DOMAIN rs[i].items
      BY <2>3, <2>5
    <3>2. seen[i] = seen[i - 1] \cup {ch}
      BY <2>1, <3>1
    <3>3. run[i] = Consider(run[i - 1], ch, rs)
      BY <1>3, <2>3, <2>5
    <3>4. ch \in ReturnedBy(rs)
      BY <1>4, <3>1
    <3> HIDE DEF seen, ch
    <3>5. Sound(Consider(run[i - 1], ch, rs), seen[i - 1] \cup {ch}, rs)
      BY <2>2, <3>4, ConsiderSound
    <3> QED
      BY <2>1, <3>2, <3>3, <3>5
  <2> QED
    BY <2>4, <2>5
<1>8. N \in 0..N /\ seen[N] = D \cup Column(rs, n)
  BY <1>1 DEF Column
<1>9. N \in T
  <2> HIDE DEF T
  <2>1. \A i \in 0..N : i \in T
    BY <1>1, <1>6, <1>7, Steps
  <2> QED
    BY <1>8, <2>1
<1>10. Column(rs, n) \subseteq Chunks
  BY <1>1, <1>4 DEF Column
<1> HIDE DEF seen
<1> QED
  BY <1>3, <1>8, <1>9, <1>10 DEF T

LEMMA EmptyTypes ==
  ASSUME NEW complete \in BOOLEAN
  PROVE  EmptySet(complete) \in EvidenceSets
<1>1. <<>> \in Seq(EvidenceItems) /\ 0 \in 0..TokenLimit
  BY EmptySeq, ConstantTypes
<1> QED
  BY <1>1 DEF EmptySet, EvidenceSets

LEMMA AssembledRuns ==
  ASSUME NEW rs, AllResultsKeep(rs)
  PROVE  \E run :
           /\ \E complete \in BOOLEAN : run[0] = EmptySet(complete)
           /\ \A n \in 1..RoundCount(rs) : run[n] = Round(run[n - 1], n, rs)
           /\ Assembled(rs) = run[RoundCount(rs)]
<1> DEFINE N == RoundCount(rs)
           S == EvidenceSets
           complete == \A i \in DOMAIN rs : rs[i].status # "failed"
           base == EmptySet(complete)
           step == [n \in 1..N |-> [x \in S |-> Round(x, n, rs)]]
           run == CHOOSE run : run = [n \in 0..N |-> IF n = 0 THEN base ELSE Round(run[n - 1], n, rs)]
<1>1. N \in Nat
  BY RoundCountCovers
<1>2. Assembled(rs) = run[N]
  BY DEF Assembled
<1>3. complete \in BOOLEAN
  OBVIOUS
<1> HIDE DEF complete
<1>4. base \in S
  BY <1>3, EmptyTypes
<1>5. ASSUME NEW n \in 1..N, NEW x \in S PROVE Round(x, n, rs) \in S
  <2>1. n \in Nat \ {0} /\ Len(rs) \in 0..Len(rs)
    BY <1>1, ResultTypes
  <2> QED
    BY <2>1, RoundRuns
<1>6. step \in [1..N -> [S -> S]] /\ \A n \in 1..N, x \in S : step[n][x] = Round(x, n, rs)
  BY <1>5
<1> HIDE DEF step, N, base, run
<1>7. \E f : f = [n \in 0..N |-> IF n = 0 THEN base ELSE Round(f[n - 1], n, rs)]
  <2>1. PICK f \in [0..N -> S] : Recurs(f, N, base, step)
    BY <1>1, <1>4, <1>6, Recursion
  <2>2. \A n \in 0..N : n # 0 => n \in 1..N /\ f[n - 1] \in S
    BY <1>1
  <2>3. \A n \in 0..N : f[n] = IF n = 0 THEN base ELSE Round(f[n - 1], n, rs)
    BY <1>6, <2>1, <2>2 DEF Recurs
  <2>4. f = [n \in 0..N |-> f[n]]
    OBVIOUS
  <2> QED
    BY <2>3, <2>4
<1>8. run = [n \in 0..N |-> IF n = 0 THEN base ELSE Round(run[n - 1], n, rs)]
  BY <1>7 DEF run
<1>9. 0 \in 0..N /\ \A n \in 1..N : n \in 0..N /\ n # 0
  BY <1>1
<1>10. run[0] = base /\ \A n \in 1..N : run[n] = Round(run[n - 1], n, rs)
  BY <1>8, <1>9
<1> QED
  BY <1>2, <1>3, <1>10 DEF N, base

\* assemble_evidence_set considers every chunk that was returned.
LEMMA AssembledSound ==
  ASSUME NEW rs, AllResultsKeep(rs)
  PROVE  Sound(Assembled(rs), ReturnedBy(rs), rs)
<1> DEFINE N == RoundCount(rs)
           seen == [n \in 0..N |-> UNION {Column(rs, m) : m \in 1..n}]
<1>1. N \in Nat /\ \A i \in DOMAIN rs : Len(Returned(rs[i])) <= N
  BY RoundCountCovers
<1>2. PICK run :
        /\ \E complete \in BOOLEAN : run[0] = EmptySet(complete)
        /\ \A n \in 1..N : run[n] = Round(run[n - 1], n, rs)
        /\ Assembled(rs) = run[N]
  BY AssembledRuns
<1> HIDE DEF N
<1>3. \A n \in 0..N : seen[n] \subseteq Chunks
  <2>1. \A m : Column(rs, m) \subseteq Chunks
    BY ResultTypes DEF Column
  <2> QED
    BY <2>1
<1> DEFINE T == {n \in 0..N : Sound(run[n], seen[n], rs)}
<1>4. 0 \in T
  <2>1. 0 \in 0..N /\ seen[0] = {}
    BY <1>1
  <2>a. PICK complete \in BOOLEAN : run[0] = EmptySet(complete)
    BY <1>2
  <2> DEFINE e == EmptySet(complete)
  <2>2. e \in EvidenceSets
    BY EmptyTypes
  <2>3. e.items = <<>> /\ e.tokens = 0 /\ e.items_exhausted = FALSE /\ e.tokens_exhausted = FALSE
    BY DEF EmptySet
  <2>4. Len(<<>>) = 0 /\ 0 <= ItemLimit
    BY EmptySeq, ConstantTypes
  <2>5. Total(Costs(<<>>)) = 0
    <3>1. Costs(<<>>) = <<>>
      BY DEF Costs
    <3> QED
      BY <3>1, TotalEmpty
  <2> HIDE DEF e
  <2>6. Sound(e, {}, rs)
    BY <2>2, <2>3, <2>4, <2>5 DEF Sound, OncePerChunk
  <2> HIDE DEF seen
  <2> QED
    BY <2>1, <2>6, <2>a DEF e
<1>5. ASSUME NEW n \in 1..N, n - 1 \in T PROVE n \in T
  <2>1. n \in 0..N /\ n - 1 \in 0..N /\ n \in Nat \ {0}
        /\ \A j : j \in 1..n <=> j \in 1..(n - 1) \/ j = n
    BY <1>1
  <2>2. seen[n] = seen[n - 1] \cup Column(rs, n)
    BY <2>1
  <2>3. Sound(run[n - 1], seen[n - 1], rs) /\ seen[n - 1] \subseteq Chunks
    BY <1>3, <1>5, <2>1
  <2> HIDE DEF seen
  <2>4. Sound(Round(run[n - 1], n, rs), seen[n - 1] \cup Column(rs, n), rs)
    BY <2>1, <2>3, RoundSound
  <2> QED
    BY <1>2, <2>1, <2>2, <2>4
<1>6. N \in T /\ N \in 0..N
  <2> HIDE DEF T
  <2>1. \A n \in 0..N : n \in T
    BY <1>1, <1>4, <1>5, Steps
  <2> QED
    BY <1>1, <2>1
<1>7. seen[N] = ReturnedBy(rs)
  <2>1. ASSUME NEW ch \in ReturnedBy(rs) PROVE ch \in seen[N]
    <3>1. PICK i \in DOMAIN rs : \E k \in DOMAIN rs[i].items : ch = rs[i].items[k].chunk
      BY DEF ReturnedBy, Chunked
    <3>2. PICK k \in DOMAIN rs[i].items : ch = rs[i].items[k].chunk
      BY <3>1
    <3>3. Returned(rs[i]) = rs[i].items /\ Len(rs[i].items) \in Nat
          /\ DOMAIN rs[i].items = 1..Len(rs[i].items)
      BY ResultTypes
    <3>4. k \in 1..N
      BY <1>1, <3>3
    <3>5. ch \in Column(rs, k)
      BY <3>2 DEF Column
    <3> QED
      BY <1>6, <3>4, <3>5
  <2>2. ASSUME NEW ch \in seen[N] PROVE ch \in ReturnedBy(rs)
    <3>1. PICK m \in 1..N : ch \in Column(rs, m)
      BY <1>6
    <3>2. PICK k \in DOMAIN rs : m \in DOMAIN rs[k].items /\ ch = rs[k].items[m].chunk
      BY <3>1 DEF Column
    <3> QED
      BY <3>2 DEF ReturnedBy, Chunked
  <2> QED
    BY <2>1, <2>2
<1> HIDE DEF seen
<1> QED
  BY <1>2, <1>6, <1>7 DEF T

-----------------------------------------------------------------------------
(* Expansion                                                               *)

LEMMA JoinedAppend ==
  ASSUME NEW context \in Seq(Chunks), NEW ch \in Chunks
  PROVE  JoinedLength(Append(context, ch))
           = JoinedLength(context) + Length(ch) + (IF context = <<>> THEN 0 ELSE 2)
<1> DEFINE N == Len(context)
           new == Append(context, ch)
           a == [i \in DOMAIN context |-> Length(context[i])]
           b == [i \in DOMAIN new |-> Length(new[i])]
<1>1. N \in Nat /\ DOMAIN context = 1..N
  BY LenProperties
<1>2. new \in Seq(Chunks) /\ Len(new) = N + 1 /\ new[N + 1] = ch
      /\ \A i \in 1..N : new[i] = context[i]
  BY AppendProperties
<1>3. Length(ch) \in Nat
  BY ChunkTypes
<1>4. a \in Seq(Nat) /\ JoinedLength(context) = IF context = <<>> THEN 0 ELSE Total(a) + 2 * (N - 1)
  BY JoinedType DEF JoinedLength
<1>5. \A i \in 1..N : a[i] = Length(context[i])
  BY <1>1
<1>6. DOMAIN a = 1..N
  BY <1>1
<1> HIDE DEF new, N
<1>7. b \in Seq(Nat) /\ JoinedLength(new) = IF new = <<>> THEN 0 ELSE Total(b) + 2 * (Len(new) - 1)
  BY <1>2, JoinedType DEF JoinedLength
<1>8. DOMAIN new = 1..(N + 1)
  BY <1>2, LenProperties
<1>9. \A i \in 1..(N + 1) : b[i] = Length(new[i])
  BY <1>8
<1>10. DOMAIN b = 1..(N + 1)
  BY <1>8
<1> HIDE DEF a, b
<1>11. Len(a) = N /\ Len(b) = N + 1
  BY <1>1, <1>4, <1>6, <1>7, <1>10, LenProperties
<1> DEFINE c == Append(a, Length(ch))
<1>12. c \in Seq(Nat) /\ Len(c) = N + 1 /\ c[N + 1] = Length(ch) /\ \A i \in 1..N : c[i] = a[i]
  BY <1>3, <1>4, <1>11, AppendProperties
<1>13. Total(c) = Total(a) + Length(ch)
  BY <1>3, <1>4, TotalAppend
<1> HIDE DEF c
<1>14. \A i \in 1..(N + 1) : b[i] = c[i]
  <2> TAKE i \in 1..(N + 1)
  <2>1. CASE i = N + 1
    BY <1>2, <1>9, <1>12, <2>1
  <2>2. CASE i \in 1..N
    BY <1>2, <1>5, <1>9, <1>12, <2>2
  <2> QED
    BY <1>1, <2>1, <2>2
<1>15. b = c
  BY <1>7, <1>11, <1>12, <1>14, SeqEqual
<1>16. new # <<>>
  BY <1>1, <1>2, EmptySeq
<1>17. JoinedLength(new) = Total(a) + Length(ch) + 2 * N
  BY <1>1, <1>2, <1>7, <1>13, <1>15, <1>16
<1>18. context = <<>> => Total(a) = 0 /\ N = 0
  <2> SUFFICES ASSUME context = <<>> PROVE Total(a) = 0 /\ N = 0
    OBVIOUS
  <2>1. N = 0
    BY EmptySeq DEF N
  <2>2. a = <<>>
    BY <1>4, <1>11, <2>1, EmptySeq
  <2> QED
    BY <2>1, <2>2, TotalEmpty
<1>19. Total(a) \in Nat
  BY <1>4, TotalType
<1>20. JoinedLength(new) = JoinedLength(context) + Length(ch) + (IF context = <<>> THEN 0 ELSE 2)
  BY <1>1, <1>3, <1>4, <1>17, <1>18, <1>19
<1> QED
  BY <1>20 DEF new

LEMMA AddedType ==
  ASSUME NEW previous \in Nat, NEW length \in Nat
  PROVE  /\ AddedTokens(previous, length) \in Nat
         /\ previous # 0 => Tokens(previous) + AddedTokens(previous, length)
                              = Tokens(previous + 2 + length)
         /\ previous = 0 => AddedTokens(previous, length) = Tokens(length)
BY DEF AddedTokens, Tokens

ContextStates == [tokens : 0..TokenLimit, characters : Nat, context : Seq(Chunks), exhausted : BOOLEAN]

LEMMA NeighborChunk ==
  ASSUME NEW ch \in Chunks, NEW o \in 1..Len(Lengths[ch.document])
  PROVE  /\ [ch EXCEPT !.ordinal = o] \in Chunks
         /\ [ch EXCEPT !.ordinal = o].document = ch.document
         /\ [ch EXCEPT !.ordinal = o].revision = ch.revision
<1> DEFINE new == [ch EXCEPT !.ordinal = o]
<1>1. ch = [document |-> ch.document, revision |-> ch.revision, ordinal |-> ch.ordinal]
  BY ChunkTypes
<1>2. new = [document |-> ch.document, revision |-> ch.revision, ordinal |-> o]
  BY <1>1
<1>3. ch.document \in Documents /\ ch.revision \in Revisions[ch.document]
  BY ChunkTypes
<1> HIDE DEF new
<1>4. new \in Chunks
  BY <1>2, <1>3, ChunkAt
<1>5. new.document = ch.document /\ new.revision = ch.revision
  BY <1>2
<1> QED
  BY <1>4, <1>5 DEF new

LEMMA AddNeighborCases ==
  ASSUME NEW s \in ContextStates, NEW ch \in Chunks
  PROVE  LET added == AddedTokens(s.characters, Length(ch))
             t == AddNeighbor(s, ch)
         IN /\ t \in ContextStates
            /\ \/ t.tokens = s.tokens /\ t.characters = s.characters /\ t.context = s.context
               \/ /\ t.tokens = s.tokens + added
                  /\ t.characters = s.characters + Length(ch) + (IF s.characters = 0 THEN 0 ELSE 2)
                  /\ t.context = Append(s.context, ch)
<1> DEFINE added == AddedTokens(s.characters, Length(ch))
           tokens == s.tokens + added
           characters == s.characters + Length(ch) + (IF s.characters = 0 THEN 0 ELSE 2)
           context == Append(s.context, ch)
           a == [s EXCEPT !.exhausted = TRUE]
           b == [s EXCEPT !.tokens = tokens, !.characters = characters, !.context = context]
<1>1. s.tokens \in 0..TokenLimit /\ s.characters \in Nat /\ s.context \in Seq(Chunks)
  BY DEF ContextStates
<1>2. Length(ch) \in Nat /\ TokenLimit \in Nat
  BY ChunkTypes, ConstantTypes
<1>3. added \in Nat
  BY <1>1, <1>2, AddedType
<1>4. AddNeighbor(s, ch) = IF s.tokens + added > TokenLimit THEN a ELSE b
  BY DEF AddNeighbor
<1> HIDE DEF added
<1>5. characters \in Nat
  BY <1>1, <1>2
<1>6. context \in Seq(Chunks)
  BY <1>1, AppendProperties
<1>7. ~(s.tokens + added > TokenLimit) => tokens \in 0..TokenLimit
  BY <1>1, <1>2, <1>3
<1>8. a \in ContextStates /\ a.tokens = s.tokens /\ a.characters = s.characters
      /\ a.context = s.context
  BY DEF ContextStates
<1> HIDE DEF characters, context, tokens
<1>9. b.tokens = tokens /\ b.characters = characters /\ b.context = context
  BY DEF ContextStates
<1>10. tokens \in 0..TokenLimit => b \in ContextStates
  BY <1>5, <1>6 DEF ContextStates
<1> HIDE DEF a, b
<1> DEFINE t == AddNeighbor(s, ch)
<1>11. CASE s.tokens + added > TokenLimit
  <2>1. t = a
    BY <1>4, <1>11
  <2> HIDE DEF t
  <2>2. t \in ContextStates /\ t.tokens = s.tokens /\ t.characters = s.characters
        /\ t.context = s.context
    BY <1>8, <2>1
  <2> QED
    BY <2>2 DEF t
<1>12. CASE ~(s.tokens + added > TokenLimit)
  <2>1. t = b
    BY <1>4, <1>12
  <2> HIDE DEF t
  <2>2. t \in ContextStates /\ t.tokens = tokens /\ t.characters = characters
        /\ t.context = context
    BY <1>7, <1>9, <1>10, <1>12, <2>1
  <2> QED
    BY <2>2 DEF t, tokens, characters, context, added
<1> QED
  BY <1>11, <1>12

LEMMA ContextRuns ==
  ASSUME NEW set \in EvidenceSets, NEW ch \in Chunks
  PROVE  LET N == Len(Lengths[ch.document])
         IN \E run :
              /\ run[0] = [tokens |-> set.tokens, characters |-> 0, context |-> <<>>,
                           exhausted |-> set.tokens_exhausted]
              /\ \A o \in 1..N : run[o] = IF IsNeighbor(ch, o)
                                            THEN AddNeighbor(run[o - 1], [ch EXCEPT !.ordinal = o])
                                            ELSE run[o - 1]
              /\ \A o \in 0..N : run[o] \in ContextStates
              /\ Context(set, ch) = run[N]
<1> DEFINE N == Len(Lengths[ch.document])
           S == ContextStates
           near(o) == [ch EXCEPT !.ordinal = o]
           base == [tokens |-> set.tokens, characters |-> 0, context |-> <<>>,
                    exhausted |-> set.tokens_exhausted]
           step == [o \in 1..N |-> [x \in S |->
                      IF IsNeighbor(ch, o) THEN AddNeighbor(x, near(o)) ELSE x]]
           run == CHOOSE run : run = [o \in 0..N |->
                    IF o = 0 THEN base
                    ELSE IF IsNeighbor(ch, o) THEN AddNeighbor(run[o - 1], near(o))
                    ELSE run[o - 1]]
<1>1. N \in Nat
  BY ChunkTypes
<1>2. Context(set, ch) = run[N]
  BY DEF Context
<1>3. base \in S
  <2>1. set.tokens \in 0..TokenLimit /\ set.tokens_exhausted \in BOOLEAN /\ <<>> \in Seq(Chunks)
    BY EmptySeq DEF EvidenceSets
  <2> QED
    BY <2>1 DEF ContextStates
<1>4. ASSUME NEW o \in 1..N, NEW x \in S
      PROVE  (IF IsNeighbor(ch, o) THEN AddNeighbor(x, near(o)) ELSE x) \in S
  <2>1. near(o) \in Chunks
    BY NeighborChunk
  <2> HIDE DEF near
  <2>2. AddNeighbor(x, near(o)) \in S
    BY <2>1, AddNeighborCases
  <2> QED
    BY <2>2
<1>5. step \in [1..N -> [S -> S]] /\ \A o \in 1..N, x \in S :
        step[o][x] = IF IsNeighbor(ch, o) THEN AddNeighbor(x, near(o)) ELSE x
  BY <1>4
<1> HIDE DEF step, N, base, run, near
<1>6. \E f : f = [o \in 0..N |-> IF o = 0 THEN base
                                 ELSE IF IsNeighbor(ch, o) THEN AddNeighbor(f[o - 1], near(o))
                                 ELSE f[o - 1]]
  <2>1. PICK f \in [0..N -> S] : Recurs(f, N, base, step)
    BY <1>1, <1>3, <1>5, Recursion
  <2>2. \A o \in 0..N : o # 0 => o \in 1..N /\ f[o - 1] \in S
    BY <1>1
  <2>3. \A o \in 0..N : f[o] = IF o = 0 THEN base
                               ELSE IF IsNeighbor(ch, o) THEN AddNeighbor(f[o - 1], near(o))
                               ELSE f[o - 1]
    BY <1>5, <2>1, <2>2 DEF Recurs
  <2>4. f = [o \in 0..N |-> f[o]]
    OBVIOUS
  <2> QED
    BY <2>3, <2>4
<1>7. run = [o \in 0..N |-> IF o = 0 THEN base
                            ELSE IF IsNeighbor(ch, o) THEN AddNeighbor(run[o - 1], near(o))
                            ELSE run[o - 1]]
  BY <1>6 DEF run
<1>8. 0 \in 0..N /\ \A o \in 1..N : o \in 0..N /\ o # 0
  BY <1>1
<1>9. run[0] = base
  BY <1>7, <1>8
<1>10. ASSUME NEW o \in 1..N
       PROVE  run[o] = IF IsNeighbor(ch, o) THEN AddNeighbor(run[o - 1], near(o)) ELSE run[o - 1]
  BY <1>7, <1>8
<1>11. \A o \in 0..N : run[o] \in S
  <2>1. \A o \in 1..N : run[o - 1] \in S => run[o] \in S
    BY <1>4, <1>10
  <2>2. run[0] \in S
    BY <1>3, <1>9
  <2> QED
    BY <1>1, <2>1, <2>2, StaysIn
<1> QED
  BY <1>2, <1>9, <1>10, <1>11 DEF N, base, near

\* A context is of the chunk's document and revision, and its tokens are those
\* of its joined text.
ContextKeeps(c, tokens, ch) ==
  /\ c.characters = JoinedLength(c.context)
  /\ c.context = <<>> <=> c.characters = 0
  /\ c.tokens = tokens + (IF c.context = <<>> THEN 0 ELSE Tokens(c.characters))
  /\ \A x \in ToSet(c.context) : /\ x \in Chunks
                                 /\ x.document = ch.document /\ x.revision = ch.revision

LEMMA AddNeighborKeeps ==
  ASSUME NEW s \in ContextStates, NEW tokens \in Nat, NEW ch, ContextKeeps(s, tokens, ch),
         NEW x \in Chunks, x.document = ch.document, x.revision = ch.revision
  PROVE  ContextKeeps(AddNeighbor(s, x), tokens, ch)
<1> DEFINE t == AddNeighbor(s, x)
           added == AddedTokens(s.characters, Length(x))
<1> SUFFICES ContextKeeps(t, tokens, ch)
  OBVIOUS
<1>1. \/ t.tokens = s.tokens /\ t.characters = s.characters /\ t.context = s.context
      \/ /\ t.tokens = s.tokens + added
         /\ t.characters = s.characters + Length(x) + (IF s.characters = 0 THEN 0 ELSE 2)
         /\ t.context = Append(s.context, x)
  BY AddNeighborCases
<1>2. s.context \in Seq(Chunks) /\ s.characters \in Nat /\ s.tokens \in Nat
  BY ConstantTypes DEF ContextStates
<1>3. Length(x) \in Nat \ {0}
  BY ChunkTypes
<1>4. /\ s.characters # 0 => Tokens(s.characters) + added = Tokens(s.characters + 2 + Length(x))
      /\ s.characters = 0 => added = Tokens(Length(x))
      /\ added \in Nat
  BY <1>2, <1>3, AddedType
<1> HIDE DEF t, added
<1>5. CASE t.tokens = s.tokens /\ t.characters = s.characters /\ t.context = s.context
  BY <1>5 DEF ContextKeeps
<1>6. CASE /\ t.tokens = s.tokens + added
           /\ t.characters = s.characters + Length(x) + (IF s.characters = 0 THEN 0 ELSE 2)
           /\ t.context = Append(s.context, x)
  <2>1. JoinedLength(t.context)
          = JoinedLength(s.context) + Length(x) + (IF s.context = <<>> THEN 0 ELSE 2)
    BY <1>2, <1>6, JoinedAppend
  <2>2. s.characters = JoinedLength(s.context) /\ (s.context = <<>> <=> s.characters = 0)
        /\ s.tokens = tokens + (IF s.context = <<>> THEN 0 ELSE Tokens(s.characters))
    BY DEF ContextKeeps
  <2>3. t.context # <<>> /\ t.context \in Seq(Chunks) /\ Len(t.context) = Len(s.context) + 1
        /\ t.context[Len(s.context) + 1] = x
        /\ \A i \in 1..Len(s.context) : t.context[i] = s.context[i]
    <3>1. t.context \in Seq(Chunks) /\ Len(t.context) = Len(s.context) + 1
          /\ t.context[Len(s.context) + 1] = x
          /\ \A i \in 1..Len(s.context) : t.context[i] = s.context[i]
      BY <1>2, <1>6, AppendProperties
    <3>2. Len(s.context) \in Nat
      BY <1>2, LenProperties
    <3>3. t.context # <<>>
      BY <3>1, <3>2, EmptySeq
    <3> QED
      BY <3>1, <3>3
  <2>4. t.characters = JoinedLength(t.context)
    BY <1>6, <2>1, <2>2
  <2>5. t.characters # 0
    BY <1>2, <1>3, <1>6
  <2>6. t.tokens = tokens + Tokens(t.characters)
    <3>1. CASE s.characters = 0
      <4>1. s.tokens = tokens /\ t.characters = Length(x) /\ added = Tokens(Length(x))
        BY <1>2, <1>3, <1>4, <1>6, <2>2, <3>1
      <4> QED
        BY <1>6, <4>1
    <3>2. CASE s.characters # 0
      <4>1. s.tokens = tokens + Tokens(s.characters)
        BY <2>2, <3>2
      <4>2. t.characters = s.characters + 2 + Length(x)
        BY <1>2, <1>3, <1>6, <3>2
      <4>3. Tokens(s.characters) + added = Tokens(t.characters) /\ Tokens(s.characters) \in Nat
        BY <1>2, <1>4, <3>2, <4>2, TokensType
      <4> QED
        BY <1>4, <1>6, <4>1, <4>3
    <3> QED
      BY <3>1, <3>2
  <2>7. ASSUME NEW y \in ToSet(t.context)
        PROVE  y \in Chunks /\ y.document = ch.document /\ y.revision = ch.revision
    <3>1. PICK i \in DOMAIN t.context : y = t.context[i]
      BY DEF ToSet
    <3>2. Len(s.context) \in Nat /\ DOMAIN s.context = 1..Len(s.context)
          /\ DOMAIN t.context = 1..Len(t.context)
      BY <1>2, <2>3, LenProperties
    <3>3. CASE i \in DOMAIN s.context
      <4>1. y \in ToSet(s.context)
        BY <2>3, <3>1, <3>2, <3>3 DEF ToSet
      <4> QED
        BY <4>1 DEF ContextKeeps
    <3>4. CASE i = Len(s.context) + 1
      BY <2>3, <3>1, <3>4
    <3> QED
      BY <2>3, <3>2, <3>3, <3>4
  <2> QED
    BY <2>3, <2>4, <2>5, <2>6, <2>7 DEF ContextKeeps
<1> QED
  BY <1>1, <1>5, <1>6

LEMMA ContextOf ==
  ASSUME NEW set \in EvidenceSets, NEW ch \in Chunks
  PROVE  Context(set, ch) \in ContextStates /\ ContextKeeps(Context(set, ch), set.tokens, ch)
<1> DEFINE N == Len(Lengths[ch.document])
<1>1. N \in Nat
  BY ChunkTypes
<1>2. PICK run :
        /\ run[0] = [tokens |-> set.tokens, characters |-> 0, context |-> <<>>,
                     exhausted |-> set.tokens_exhausted]
        /\ \A o \in 1..N : run[o] = IF IsNeighbor(ch, o)
                                      THEN AddNeighbor(run[o - 1], [ch EXCEPT !.ordinal = o])
                                      ELSE run[o - 1]
        /\ \A o \in 0..N : run[o] \in ContextStates
        /\ Context(set, ch) = run[N]
  BY ContextRuns
<1>3. set.tokens \in Nat
  BY ConstantTypes DEF EvidenceSets
<1> DEFINE T == {o \in 0..N : ContextKeeps(run[o], set.tokens, ch)}
<1>4. 0 \in T
  <2>1. run[0].tokens = set.tokens /\ run[0].characters = 0 /\ run[0].context = <<>> /\ 0 \in 0..N
    BY <1>1, <1>2
  <2>2. JoinedLength(<<>>) = 0 /\ ToSet(<<>>) = {}
    BY DEF JoinedLength, ToSet
  <2>3. ContextKeeps(run[0], set.tokens, ch)
    BY <1>3, <2>1, <2>2 DEF ContextKeeps
  <2> QED
    BY <2>1, <2>3
<1>5. ASSUME NEW o \in 1..N, o - 1 \in T PROVE o \in T
  <2>1. o \in 0..N /\ o - 1 \in 0..N
    BY <1>1
  <2> DEFINE x == [ch EXCEPT !.ordinal = o]
  <2>2. x \in Chunks /\ x.document = ch.document /\ x.revision = ch.revision
    BY NeighborChunk
  <2>3. run[o] = IF IsNeighbor(ch, o) THEN AddNeighbor(run[o - 1], x) ELSE run[o - 1]
    BY <1>2
  <2> HIDE DEF x, N
  <2>4. run[o - 1] \in ContextStates /\ ContextKeeps(run[o - 1], set.tokens, ch)
    BY <1>2, <1>5, <2>1
  <2>5. ContextKeeps(AddNeighbor(run[o - 1], x), set.tokens, ch)
    BY <1>3, <2>2, <2>4, AddNeighborKeeps
  <2>6. ContextKeeps(run[o], set.tokens, ch)
    BY <2>3, <2>4, <2>5
  <2> QED
    BY <2>1, <2>6
<1> HIDE DEF T, N
<1>6. N \in T /\ N \in 0..N
  <2>1. \A o \in 0..N : o \in T
    BY <1>1, <1>4, <1>5, Steps
  <2> QED
    BY <1>1, <2>1
<1> QED
  BY <1>2, <1>6 DEF T

\* An item hydrated: what it was, with a context of its document and revision.
Hydrated(new, item) ==
  /\ new \in EvidenceItems
  /\ new.chunk = item.chunk /\ new.source = item.source /\ new.corpus = item.corpus
  /\ new.provenance = item.provenance
  /\ \A x \in ToSet(new.context) : /\ x \in Chunks /\ x.document = item.chunk.document
                                   /\ x.revision = item.chunk.revision

LEMMA HydrateOf ==
  ASSUME NEW set \in EvidenceSets, NEW item \in EvidenceItems
  PROVE  LET t == Hydrate(set, item)
         IN /\ t \in EvidenceSets
            /\ \E new : /\ Hydrated(new, item) /\ t.items = Append(set.items, new)
                        /\ item.context = <<>> => t.tokens + Cost(item) = set.tokens + Cost(new)
<1> DEFINE added == Context(set, item.chunk)
           new == [item EXCEPT !.context = added.context]
           t == Hydrate(set, item)
<1>1. item.chunk \in Chunks
  BY DEF EvidenceItems
<1>2. added \in ContextStates /\ ContextKeeps(added, set.tokens, item.chunk)
  BY <1>1, ContextOf
<1>3. t = [set EXCEPT !.items = Append(@, new), !.tokens = added.tokens,
                      !.tokens_exhausted = added.exhausted]
  BY DEF Hydrate
<1> HIDE DEF added
<1>4. added.context \in Seq(Chunks) /\ added.tokens \in 0..TokenLimit /\ added.exhausted \in BOOLEAN
  BY <1>2 DEF ContextStates
<1>5. new \in EvidenceItems /\ new.context = added.context
  BY <1>4 DEF EvidenceItems
<1>6. new.chunk = item.chunk /\ new.source = item.source /\ new.corpus = item.corpus
      /\ new.provenance = item.provenance
  BY DEF EvidenceItems
<1> HIDE DEF new, t
<1>7. Hydrated(new, item)
  BY <1>2, <1>5, <1>6 DEF Hydrated, ContextKeeps
<1>8. set.items \in Seq(EvidenceItems) /\ set.tokens \in Nat
  BY ConstantTypes DEF EvidenceSets
<1>9. t.items = Append(set.items, new) /\ t.tokens = added.tokens
  BY <1>3 DEF EvidenceSets
<1>10. t \in EvidenceSets
  <2> DEFINE items == Append(set.items, new)
  <2>1. items \in Seq(EvidenceItems)
    BY <1>5, <1>8, AppendProperties
  <2>2. t = [set EXCEPT !.items = items, !.tokens = added.tokens,
                        !.tokens_exhausted = added.exhausted]
    BY <1>3
  <2> HIDE DEF items
  <2> QED
    BY <1>4, <2>1, <2>2 DEF EvidenceSets
<1>11. ASSUME item.context = <<>> PROVE t.tokens + Cost(item) = set.tokens + Cost(new)
  <2> DEFINE c == Tokens(Length(item.chunk))
             e == IF added.context = <<>> THEN 0 ELSE Tokens(added.characters)
  <2>1. Cost(item) = c /\ Cost(new) = c + e
    <3>1. c \in Nat
      BY <1>1, ChunkTypes, TokensType
    <3>2. added.characters = JoinedLength(new.context)
      BY <1>2, <1>5 DEF ContextKeeps
    <3> QED
      BY <1>5, <1>6, <1>11, <3>1, <3>2 DEF Cost
  <2>2. added.tokens = set.tokens + e
    BY <1>2 DEF ContextKeeps
  <2>3. c \in Nat /\ e \in Nat
    <3>1. added.characters \in Nat
      BY <1>2 DEF ContextStates
    <3> QED
      BY <1>1, <3>1, ChunkTypes, TokensType
  <2> HIDE DEF c, e
  <2> QED
    BY <1>8, <1>9, <2>1, <2>2, <2>3
<1>12. \E n : /\ Hydrated(n, item) /\ t.items = Append(set.items, n)
              /\ item.context = <<>> => t.tokens + Cost(item) = set.tokens + Cost(n)
  BY <1>7, <1>9, <1>11
<1> QED
  BY <1>10, <1>12 DEF t

LEMMA ExpandedRuns ==
  ASSUME NEW set \in EvidenceSets
  PROVE  \E run :
           /\ run[0] = [set EXCEPT !.items = <<>>, !.expanded = TRUE]
           /\ \A n \in 1..Len(set.items) : run[n] = Hydrate(run[n - 1], set.items[n])
           /\ \A n \in 0..Len(set.items) : run[n] \in EvidenceSets
           /\ Expanded(set) = run[Len(set.items)]
<1> DEFINE N == Len(set.items)
           S == EvidenceSets
           base == [set EXCEPT !.items = <<>>, !.expanded = TRUE]
           step == [n \in 1..N |-> [x \in S |-> Hydrate(x, set.items[n])]]
           run == CHOOSE run : run = [n \in 0..N |-> IF n = 0 THEN base
                                                     ELSE Hydrate(run[n - 1], set.items[n])]
<1>1. set.items \in Seq(EvidenceItems)
  BY DEF EvidenceSets
<1>2. N \in Nat /\ \A n \in 1..N : set.items[n] \in EvidenceItems
  BY <1>1, LenProperties, ElementOfSeq
<1>3. Expanded(set) = run[N]
  BY DEF Expanded
<1>4. base \in S
  <2>1. <<>> \in Seq(EvidenceItems)
    BY EmptySeq
  <2> QED
    BY <2>1 DEF EvidenceSets
<1>5. ASSUME NEW n \in 1..N, NEW x \in S PROVE Hydrate(x, set.items[n]) \in S
  BY <1>2, HydrateOf
<1>6. step \in [1..N -> [S -> S]] /\ \A n \in 1..N, x \in S : step[n][x] = Hydrate(x, set.items[n])
  BY <1>5
<1> HIDE DEF step, N, base, run
<1>7. \E f : f = [n \in 0..N |-> IF n = 0 THEN base ELSE Hydrate(f[n - 1], set.items[n])]
  <2>1. PICK f \in [0..N -> S] : Recurs(f, N, base, step)
    BY <1>2, <1>4, <1>6, Recursion
  <2>2. \A n \in 0..N : n # 0 => n \in 1..N /\ f[n - 1] \in S
    BY <1>2
  <2>3. \A n \in 0..N : f[n] = IF n = 0 THEN base ELSE Hydrate(f[n - 1], set.items[n])
    BY <1>6, <2>1, <2>2 DEF Recurs
  <2>4. f = [n \in 0..N |-> f[n]]
    OBVIOUS
  <2> QED
    BY <2>3, <2>4
<1>8. run = [n \in 0..N |-> IF n = 0 THEN base ELSE Hydrate(run[n - 1], set.items[n])]
  BY <1>7 DEF run
<1>9. 0 \in 0..N /\ \A n \in 1..N : n \in 0..N /\ n # 0
  BY <1>2
<1>10. run[0] = base
  BY <1>8, <1>9
<1>11. \A n \in 1..N : run[n] = Hydrate(run[n - 1], set.items[n])
  BY <1>8, <1>9
<1>12. \A n \in 0..N : run[n] \in S
  <2>1. \A n \in 1..N : run[n - 1] \in S => run[n] \in S
    BY <1>5, <1>11
  <2>2. run[0] \in S
    BY <1>4, <1>10
  <2> QED
    BY <1>2, <2>1, <2>2, StaysIn
<1> QED
  BY <1>3, <1>10, <1>11, <1>12 DEF N, base

\* Balances kept through one step of a sum.
LEMMA Balance ==
  ASSUME NEW x \in Nat, NEW y \in Nat, NEW had \in Nat, NEW adds \in Nat, NEW start \in Nat,
         NEW before \in Nat, NEW after \in Nat, NEW paid \in Nat, NEW pays \in Nat,
         y + had = x + adds, x + paid = start + before, pays = paid + had,
         after = before + adds
  PROVE  y + pays = start + after
  OBVIOUS

\* An expanded set has the same items, hydrated, and counts what they cost.
LEMMA ExpandedOf ==
  ASSUME NEW set \in EvidenceSets, \A i \in DOMAIN set.items : set.items[i].context = <<>>,
         set.tokens = Total(Costs(set.items))
  PROVE  LET new == Expanded(set)
         IN /\ new \in EvidenceSets /\ Len(new.items) = Len(set.items)
            /\ \A i \in 1..Len(set.items) : Hydrated(new.items[i], set.items[i])
            /\ new.tokens = Total(Costs(new.items))
<1> DEFINE N == Len(set.items)
<1>1. set.items \in Seq(EvidenceItems) /\ set.tokens \in Nat
  BY ConstantTypes DEF EvidenceSets
<1>2. N \in Nat /\ DOMAIN set.items = 1..N /\ \A n \in 1..N : set.items[n] \in EvidenceItems
  BY <1>1, LenProperties, ElementOfSeq
<1>3. PICK run :
        /\ run[0] = [set EXCEPT !.items = <<>>, !.expanded = TRUE]
        /\ \A n \in 1..N : run[n] = Hydrate(run[n - 1], set.items[n])
        /\ \A n \in 0..N : run[n] \in EvidenceSets
        /\ Expanded(set) = run[N]
  BY ExpandedRuns
<1>4. Costs(set.items) \in Seq(Nat) /\ Len(Costs(set.items)) = N
      /\ \A n \in 1..N : Costs(set.items)[n] = Cost(set.items[n])
  BY <1>1, <1>2, CostsType DEF Costs
<1> HIDE DEF N
<1>5. PICK costs \in [0..N -> Nat] :
        /\ costs[0] = 0
        /\ \A n \in 1..N : costs[n] = costs[n - 1] + Costs(set.items)[n]
        /\ Total(Costs(set.items)) = costs[N]
  BY <1>4, TotalRuns
<1> DEFINE Through(n) ==
             /\ Len(run[n].items) = n
             /\ \A i \in 1..n : Hydrated(run[n].items[i], set.items[i])
             /\ run[n].tokens + costs[n] = set.tokens + Total(Costs(run[n].items))
           T == {n \in 0..N : Through(n)}
<1>6. 0 \in T
  <2>1. run[0].items = <<>> /\ run[0].tokens = set.tokens /\ 0 \in 0..N /\ 1..0 = {}
    BY <1>2, <1>3 DEF EvidenceSets
  <2>2. Costs(<<>>) = <<>> /\ Len(<<>>) = 0
    BY EmptySeq DEF Costs
  <2>3. Total(Costs(<<>>)) = 0
    BY <2>2, TotalEmpty
  <2>4. run[0].tokens + costs[0] = set.tokens + Total(Costs(run[0].items))
    BY <1>1, <1>5, <2>1, <2>3
  <2> QED
    BY <2>1, <2>2, <2>4
<1>7. ASSUME NEW n \in 1..N, n - 1 \in T PROVE n \in T
  <2> DEFINE x == run[n - 1]
             y == run[n]
             item == set.items[n]
  <2>1. n \in 0..N /\ n - 1 \in 0..N /\ n \in Nat
    BY <1>2
  <2>2. x \in EvidenceSets /\ y \in EvidenceSets /\ y = Hydrate(x, item) /\ item \in EvidenceItems
        /\ item.context = <<>>
    BY <1>2, <1>3, <2>1
  <2>3. /\ Len(x.items) = n - 1 /\ \A i \in 1..(n - 1) : Hydrated(x.items[i], set.items[i])
        /\ x.tokens + costs[n - 1] = set.tokens + Total(Costs(x.items))
    BY <1>7
  <2>4. costs[n] = costs[n - 1] + Cost(item) /\ costs[n] \in Nat /\ costs[n - 1] \in Nat
    <3>1. costs[n] = costs[n - 1] + Costs(set.items)[n] /\ Costs(set.items)[n] = Cost(item)
      BY <1>4, <1>5
    <3> QED
      BY <1>5, <2>1, <3>1
  <2> HIDE DEF x, y, item, T
  <2>5. PICK new : /\ Hydrated(new, item) /\ y.items = Append(x.items, new)
                   /\ item.context = <<>> => y.tokens + Cost(item) = x.tokens + Cost(new)
    BY ZenonT(30), <2>2, HydrateOf
  <2>6. new \in EvidenceItems /\ x.items \in Seq(EvidenceItems) /\ y.tokens \in Nat /\ x.tokens \in Nat
    BY <2>2, <2>5, ConstantTypes DEF Hydrated, EvidenceSets
  <2>7. Total(Costs(y.items)) = Total(Costs(x.items)) + Cost(new)
    BY <2>5, <2>6, CostsAppend
  <2>8. Total(Costs(x.items)) \in Nat /\ Cost(new) \in Nat /\ Cost(item) \in Nat
    BY <2>2, <2>6, CostsType, TotalType, CostType
  <2>9. Len(y.items) = n /\ y.items[n] = new /\ \A i \in 1..(n - 1) : y.items[i] = x.items[i]
    <3>1. Len(x.items) = n - 1 /\ Len(x.items) + 1 = n
      BY <2>1, <2>3
    <3> QED
      BY <2>5, <2>6, <3>1, AppendProperties
  <2>10. \A i \in 1..n : Hydrated(y.items[i], set.items[i])
    <3> TAKE i \in 1..n
    <3>1. CASE i = n
      BY <2>5, <2>9, <3>1 DEF item
    <3>2. CASE i \in 1..(n - 1)
      BY <2>3, <2>9, <3>2
    <3> QED
      BY <2>1, <3>1, <3>2
  <2>11. y.tokens + costs[n] = set.tokens + Total(Costs(y.items))
    <3>1. y.tokens + Cost(item) = x.tokens + Cost(new)
      BY <2>2, <2>5
    <3>2. x.tokens + costs[n - 1] = set.tokens + Total(Costs(x.items))
      BY <2>3
    <3>3. costs[n] = costs[n - 1] + Cost(item) /\ costs[n] \in Nat /\ costs[n - 1] \in Nat
      BY <2>4
    <3>4. set.tokens \in Nat /\ x.tokens \in Nat /\ y.tokens \in Nat
      BY <1>1, <2>6, ConstantTypes DEF EvidenceSets
    <3> DEFINE before == Total(Costs(x.items))
               after == Total(Costs(y.items))
               adds == Cost(new)
               had == Cost(item)
               paid == costs[n - 1]
               pays == costs[n]
               xt == x.tokens
               yt == y.tokens
               start == set.tokens
    <3> SUFFICES yt + pays = start + after
      OBVIOUS
    <3>5. before \in Nat /\ adds \in Nat /\ had \in Nat /\ after = before + adds
      BY <2>7, <2>8
    <3>6. yt + had = xt + adds /\ xt + paid = start + before /\ pays = paid + had
      BY <3>1, <3>2, <3>3
    <3>7. xt \in Nat /\ yt \in Nat /\ start \in Nat /\ paid \in Nat /\ pays \in Nat
      BY <3>3, <3>4
    <3>8. after \in Nat
      BY <3>5
    <3> HIDE DEF before, after, adds, had, paid, pays, xt, yt, start
    <3> QED
      BY <3>5, <3>6, <3>7, <3>8, Balance
  <2> QED
    BY <2>1, <2>9, <2>10, <2>11 DEF T, y
<1> HIDE DEF T
<1>8. N \in T /\ N \in 0..N
  <2>1. \A n \in 0..N : n \in T
    BY <1>2, <1>6, <1>7, Steps
  <2> QED
    BY <1>2, <2>1
<1> DEFINE new == Expanded(set)
<1>9. new = run[N]
  BY <1>3
<1>10. Through(N) /\ run[N] \in EvidenceSets
  BY <1>3, <1>8 DEF T
<1> HIDE DEF new
<1>11. new \in EvidenceSets /\ Len(new.items) = N
       /\ \A i \in 1..N : Hydrated(new.items[i], set.items[i])
  BY <1>9, <1>10
<1>12. new.tokens + costs[N] = set.tokens + Total(Costs(new.items))
  BY <1>9, <1>10
<1>13. new.items \in Seq(EvidenceItems) /\ new.tokens \in Nat
  BY <1>11, ConstantTypes DEF EvidenceSets
<1>14. Total(Costs(new.items)) \in Nat
  BY <1>13, CostsType, TotalType
<1>15. new.tokens = Total(Costs(new.items))
  BY <1>1, <1>5, <1>12, <1>13, <1>14
<1> QED
  BY <1>11, <1>15 DEF new, N

-----------------------------------------------------------------------------
(* Ranks                                                                   *)

\* A cut of sorted candidates keeps the best, and is full if it leaves any out.
LEMMA BestKept ==
  ASSUME NEW S \in SUBSET Ranked, IsFiniteSet(S), \A x, y \in S : x.chunk = y.chunk => x = y,
         NEW n \in Nat, NEW y \in S \ ToSet(Take(Sorted(S), n))
  PROVE  /\ Len(Take(Sorted(S), n)) = n
         /\ \A x \in ToSet(Take(Sorted(S), n)) : Ahead(x, y)
<1> DEFINE all == Sorted(S)
           cut == Take(all, n)
<1>1. /\ all \in Seq(S) /\ ToSet(all) = S /\ Len(all) \in Nat /\ DOMAIN all = 1..Len(all)
      /\ \A i, j \in 1..Len(all) : i < j => Ahead(all[i], all[j])
  BY SortedLists, LenProperties
<1> HIDE DEF all
<1>2. /\ cut \in Seq(S) /\ Len(cut) \in Nat /\ Len(cut) = IF n < Len(all) THEN n ELSE Len(all)
      /\ \A i \in 1..Len(cut) : i \in 1..Len(all) /\ cut[i] = all[i]
  BY <1>1, TakeOf
<1>3. DOMAIN cut = 1..Len(cut)
  BY <1>2, LenProperties
<1>4. y \in S /\ y \notin ToSet(cut)
  BY DEF all
<1> HIDE DEF cut
<1>5. PICK j \in 1..Len(all) : all[j] = y
  BY <1>1, <1>4 DEF ToSet
<1>6. ~(j \in 1..Len(cut))
  BY <1>2, <1>3, <1>4, <1>5 DEF ToSet
<1>7. Len(cut) < j
  BY <1>1, <1>2, <1>6
<1>8. Len(cut) = n
  <2>1. Len(cut) = IF n < Len(all) THEN n ELSE Len(all)
    BY <1>2
  <2>2. Len(all) \in Nat /\ Len(cut) \in Nat /\ j \in 1..Len(all)
    BY <1>1, <1>2
  <2>3. ~(Len(cut) = Len(all))
    BY <1>7, <2>2
  <2> QED
    BY <2>1, <2>3
<1>9. ASSUME NEW x \in ToSet(cut) PROVE Ahead(x, y)
  <2>1. PICK i \in 1..Len(cut) : cut[i] = x
    BY <1>3 DEF ToSet
  <2>2. i \in 1..Len(all) /\ all[i] = x /\ i < j
    BY <1>1, <1>2, <1>7, <2>1
  <2> QED
    BY <1>1, <1>5, <2>2
<1> QED
  BY <1>8, <1>9 DEF cut, all

\* A whole quotient of the same number falls as the divisor grows.
LEMMA WholeQuotients ==
  ASSUME NEW n \in Nat \ {0}, NEW a \in Nat \ {0}, NEW b \in Nat \ {0},
         n % a = 0, n % b = 0, a < b
  PROVE  n \div b < n \div a /\ 0 < n \div b
<1> DEFINE p == n \div a
           q == n \div b
<1>1. p \in Nat /\ q \in Nat /\ n = a * p /\ n = b * q
  OBVIOUS
<1> SUFFICES q < p /\ 0 < q
  OBVIOUS
<1> HIDE DEF p, q
<1>2. 0 < q
  BY <1>1
<1>3. ~(p <= q)
  <2> SUFFICES ASSUME p <= q PROVE FALSE
    OBVIOUS
  <2>1. a * p <= a * q
    BY <1>1
  <2>2. a * q < b * q
    BY <1>1, <1>2
  <2> QED
    BY <1>1, <2>1, <2>2
<1> QED
  BY <1>1, <1>2, <1>3

\* What one branch adds to the score of a chunk.
Weight(ch, branch) ==
  IF ch \in ToSet(branch) THEN Scale \div (RrfK + RankIn(branch, ch)) ELSE 0

\* A branch has one chunk before another, which it may not have at all.
Prefers(branch, x, y) ==
  x \in ToSet(branch) /\ (y \in ToSet(branch) => RankIn(branch, x) < RankIn(branch, y))

LEMMA WeightFalls ==
  ASSUME NEW branch \in Seq(Chunks), Len(branch) <= MatchLimit, NEW x, NEW y,
         Prefers(branch, x, y)
  PROVE  Weight(x, branch) \in Nat /\ Weight(y, branch) \in Nat
         /\ Weight(y, branch) < Weight(x, branch)
<1>1. ASSUME NEW ch \in ToSet(branch)
      PROVE  /\ RankIn(branch, ch) \in 1..MatchLimit /\ RrfK + RankIn(branch, ch) \in Nat \ {0}
             /\ Scale % (RrfK + RankIn(branch, ch)) = 0
  <2>1. RankIn(branch, ch) \in DOMAIN branch /\ DOMAIN branch = 1..Len(branch) /\ Len(branch) \in Nat
    BY InBranch, LenProperties
  <2>2. RankIn(branch, ch) \in 1..MatchLimit
    BY <2>1, ConstantTypes
  <2>3. \A rank \in 1..MatchLimit : Scale % (RrfK + rank) = 0
    BY EvidenceAssumption
  <2>4. Scale % (RrfK + RankIn(branch, ch)) = 0
    BY <2>2, <2>3
  <2> QED
    BY <2>2, <2>4, ConstantTypes
<1> DEFINE a == RrfK + RankIn(branch, x)
           b == RrfK + RankIn(branch, y)
<1>2. x \in ToSet(branch)
  BY DEF Prefers
<1>3. a \in Nat \ {0} /\ Scale % a = 0 /\ Scale \in Nat \ {0}
  BY <1>1, <1>2, ConstantTypes
<1>4. CASE y \in ToSet(branch)
  <2>1. b \in Nat \ {0} /\ Scale % b = 0
    BY <1>1, <1>4
  <2>2. a < b
    BY <1>1, <1>2, <1>4, ConstantTypes DEF Prefers
  <2>3. Weight(x, branch) = Scale \div a /\ Weight(y, branch) = Scale \div b
    BY <1>2, <1>4 DEF Weight
  <2> HIDE DEF a, b
  <2>4. Scale \div a \in Nat /\ Scale \div b \in Nat
    BY <1>3, <2>1
  <2> QED
    BY <1>3, <2>1, <2>2, <2>3, <2>4, WholeQuotients
<1>5. CASE y \notin ToSet(branch)
  <2>1. Weight(x, branch) = Scale \div a /\ Weight(y, branch) = 0
    BY <1>2, <1>5 DEF Weight
  <2> HIDE DEF a
  <2>2. Scale \div a \in Nat
    BY <1>3
  <2>3. Scale \div a > 0
    <3>1. Scale = a * (Scale \div a)
      BY <1>3
    <3> QED
      BY <1>3, <2>2, <3>1
  <2> QED
    BY <2>1, <2>2, <2>3
<1> QED
  BY <1>4, <1>5

\* Reciprocal rank fusion respects its branches: a chunk that both of them place
\* before another is fused to a higher score, whether or not both found the
\* other (_fuse_candidates).
THEOREM FusionKeepsPreferences ==
  ASSUME NEW d \in Seq(Chunks), Len(d) <= MatchLimit, NEW l \in Seq(Chunks), Len(l) <= MatchLimit,
         NEW x, NEW y, Prefers(d, x, y), Prefers(l, x, y)
  PROVE  FusedScore(y, d, l) < FusedScore(x, d, l)
<1>1. \A ch : FusedScore(ch, d, l) = Weight(ch, d) + Weight(ch, l)
  BY DEF FusedScore, Weight
<1>2. /\ Weight(x, d) \in Nat /\ Weight(y, d) \in Nat /\ Weight(y, d) < Weight(x, d)
      /\ Weight(x, l) \in Nat /\ Weight(y, l) \in Nat /\ Weight(y, l) < Weight(x, l)
  BY WeightFalls
<1> QED
  BY <1>1, <1>2

-----------------------------------------------------------------------------
(* The inductive invariant                                                 *)

\* ProvenanceComplete, of the items of a set.
Named(items, rs) ==
  /\ OncePerChunk(items)
  /\ \A i \in DOMAIN items :
       /\ IsInjective(items[i].provenance)
       /\ ToSet(items[i].provenance) = {j \in DOMAIN rs : items[i].chunk \in Chunked(rs[j].items)}

\* The request under way: it has room for its result, and what it has found so
\* far is of the sources it asked, in their order, and of what their snapshots saw.
RequestKeeps ==
  /\ AllKeep(searches)
  /\ phase \in {"searching", "dense", "lexical"} => Len(results) < Requests
  /\ phase \in {"dense", "lexical"} => /\ Len(searches) < Len(KnowledgeSources)
                                       /\ snapshot.corpus \in CorporaOf(Searching)
  /\ phase = "lexical" => ToSet(dense) \subseteq ChunksOf(snapshot.corpus)

\* The Evidence Set: as assembled until it is expanded, accounted for at all times.
EvidenceKeeps ==
  /\ phase = "expanding" => Sound(evidence, ReturnedBy(results), results)
  /\ Named(evidence.items, results)
  /\ evidence.tokens = Total(Costs(evidence.items))

IInv == TypeOK /\ RequestKeeps /\ AllResultsKeep(results) /\ EvidenceKeeps

LEMMA SearchAppended ==
  ASSUME NEW searched, AllKeep(searched), Len(searched) < Len(KnowledgeSources),
         NEW s, SearchKeeps(s, KnowledgeSources[Len(searched) + 1])
  PROVE  AllKeep(Append(searched, s))
<1>1. searched \in Seq(Searches) /\ Len(searched) \in Nat /\ Len(KnowledgeSources) \in Nat
  BY ConstantTypes, LenProperties DEF AllKeep
<1>2. s \in Searches
  BY DEF SearchKeeps
<1> DEFINE t == Append(searched, s)
<1>3. /\ t \in Seq(Searches) /\ Len(t) = Len(searched) + 1 /\ DOMAIN t = 1..Len(t)
      /\ \A i \in 1..Len(searched) : t[i] = searched[i]
      /\ t[Len(searched) + 1] = s
  BY <1>1, <1>2, AppendProperties, LenProperties
<1> HIDE DEF t
<1>4. \A i \in DOMAIN searched : SearchKeeps(searched[i], KnowledgeSources[i])
  BY DEF AllKeep
<1>5. DOMAIN searched = 1..Len(searched)
  BY <1>1, LenProperties
<1>6. ASSUME NEW i \in DOMAIN t PROVE SearchKeeps(t[i], KnowledgeSources[i])
  <2>1. CASE i = Len(searched) + 1
    BY <1>3, <2>1
  <2>2. CASE i \in 1..Len(searched)
    BY <1>3, <1>4, <1>5, <2>2
  <2> QED
    BY <1>1, <1>3, <2>1, <2>2
<1>7. Len(t) <= Len(KnowledgeSources)
  BY <1>1, <1>3
<1> QED
  BY <1>3, <1>6, <1>7 DEF AllKeep, t

LEMMA ResultAppended ==
  ASSUME NEW rs, AllResultsKeep(rs), Len(rs) < Requests, NEW r, ResultKeeps(r)
  PROVE  AllResultsKeep(Append(rs, r))
<1>1. rs \in Seq(Results) /\ Len(rs) \in Nat /\ Requests \in Nat
  BY ConstantTypes, LenProperties DEF AllResultsKeep
<1>2. r \in Results
  BY DEF ResultKeeps
<1> DEFINE t == Append(rs, r)
<1>3. /\ t \in Seq(Results) /\ Len(t) = Len(rs) + 1 /\ DOMAIN t = 1..Len(t)
      /\ \A i \in 1..Len(rs) : t[i] = rs[i]
      /\ t[Len(rs) + 1] = r
  BY <1>1, <1>2, AppendProperties, LenProperties
<1> HIDE DEF t
<1>4. DOMAIN rs = 1..Len(rs) /\ \A i \in DOMAIN rs : ResultKeeps(rs[i])
  BY <1>1, LenProperties DEF AllResultsKeep
<1>5. ASSUME NEW i \in DOMAIN t PROVE ResultKeeps(t[i])
  <2>1. CASE i = Len(rs) + 1
    BY <1>3, <2>1
  <2>2. CASE i \in 1..Len(rs)
    BY <1>3, <1>4, <2>2
  <2> QED
    BY <1>1, <1>3, <2>1, <2>2
<1>6. Len(t) <= Requests
  BY <1>1, <1>3
<1> QED
  BY <1>3, <1>5, <1>6 DEF AllResultsKeep, t

\* A set just assembled names the requests of its items, and expects no context.
LEMMA SoundNames ==
  ASSUME NEW rs, AllResultsKeep(rs), NEW set, Sound(set, ReturnedBy(rs), rs)
  PROVE  /\ Named(set.items, rs) /\ set.tokens = Total(Costs(set.items))
         /\ \A i \in DOMAIN set.items : set.items[i].context = <<>>
<1>1. OncePerChunk(set.items) /\ set.tokens = Total(Costs(set.items))
  BY DEF Sound
<1>2. ASSUME NEW i \in DOMAIN set.items
      PROVE  /\ IsInjective(set.items[i].provenance) /\ set.items[i].context = <<>>
             /\ ToSet(set.items[i].provenance)
                  = {j \in DOMAIN rs : set.items[i].chunk \in Chunked(rs[j].items)}
  <2> DEFINE ch == set.items[i].chunk
  <2>1. ch \in ReturnedBy(rs) /\ set.items[i] = Merged(ch, rs)
    BY DEF Sound
  <2>2. PICK j \in DOMAIN rs : ch \in Chunked(rs[j].items)
    BY <2>1 DEF ReturnedBy
  <2> HIDE DEF ch
  <2>3. set.items[i].provenance = Provenance(ch, rs) /\ set.items[i].context = <<>>
    BY <2>1, <2>2, MergedItem
  <2>4. IsInjective(Provenance(ch, rs))
        /\ ToSet(Provenance(ch, rs)) = {k \in DOMAIN rs : ch \in Chunked(rs[k].items)}
    BY ProvenanceNames
  <2> QED
    BY <2>3, <2>4 DEF ch
<1> QED
  BY <1>1, <1>2 DEF Named

\* The invariant is what the checked ones say, of one state.
LEMMA IInvImplies ==
  ASSUME IInv
  PROVE  /\ TypeOK /\ ResultsConsistent /\ ItemsOfReportedCorpus /\ NothingSilentlyDropped
         /\ ProvenanceComplete /\ TokensAccounted
<1>1. TypeOK
  BY DEF IInv
<1>2. \A i \in DOMAIN results : Consistent(results[i]) /\ OfReportedCorpus(results[i])
  BY DEF IInv, AllResultsKeep, ResultKeeps
<1>3. ResultsConsistent
  BY <1>2 DEF ResultsConsistent, Consistent
<1>4. ItemsOfReportedCorpus
  BY <1>2 DEF ItemsOfReportedCorpus, OfReportedCorpus
<1>5. NothingSilentlyDropped
  <2> SUFFICES ASSUME phase = "expanding"
               PROVE  (evidence.items_exhausted \/ evidence.tokens_exhausted)
                        = (\E i \in DOMAIN results :
                             Chunked(results[i].items) \ Chunked(evidence.items) # {})
    BY DEF NothingSilentlyDropped
  <2>1. evidence.items_exhausted \/ evidence.tokens_exhausted
          <=> \E ch \in ReturnedBy(results) : ch \notin Chunked(evidence.items)
    BY DEF IInv, EvidenceKeeps, Sound
  <2>2. (\E ch \in ReturnedBy(results) : ch \notin Chunked(evidence.items))
          <=> \E i \in DOMAIN results : Chunked(results[i].items) \ Chunked(evidence.items) # {}
    BY DEF ReturnedBy
  <2>3. evidence.items_exhausted \in BOOLEAN /\ evidence.tokens_exhausted \in BOOLEAN
    BY <1>1 DEF TypeOK, EvidenceSets
  <2> QED
    BY <2>1, <2>2, <2>3
<1>6. ProvenanceComplete
  BY DEF IInv, EvidenceKeeps, Named, OncePerChunk, ProvenanceComplete, IsInjective
<1>7. TokensAccounted
  BY DEF IInv, EvidenceKeeps, Costs, TokensAccounted
<1> QED
  BY <1>1, <1>3, <1>4, <1>5, <1>6, <1>7

\* Nothing searched, nothing returned, nothing in the Evidence Set.
LEMMA EmptyKeeps ==
  /\ AllKeep(<<>>) /\ AllResultsKeep(<<>>) /\ NoSnapshot \in [corpus : Corpora, readable : SUBSET Documents]
  /\ \A rs : Named(<<>>, rs)
  /\ Total(Costs(<<>>)) = 0
<1>1. \A S : <<>> \in Seq(S)
  BY EmptySeq
<1>2. Len(<<>>) = 0 /\ DOMAIN <<>> = {}
  OBVIOUS
<1>3. AllKeep(<<>>)
  <2>1. Len(KnowledgeSources) \in Nat
    BY ConstantTypes, LenProperties
  <2> QED
    BY <1>1, <1>2, <2>1 DEF AllKeep
<1>4. AllResultsKeep(<<>>)
  BY <1>1, <1>2, ConstantTypes DEF AllResultsKeep
<1>5. NoSnapshot \in [corpus : Corpora, readable : SUBSET Documents]
  <2>1. PICK source : source \in Sources
    BY ConstantTypes, LenProperties DEF Sources, ToSet
  <2>2. {} \in CorporaOf(source)
    BY DEF CorporaOf
  <2> QED
    BY <2>1, <2>2 DEF Corpora, NoSnapshot
<1>6. \A rs : Named(<<>>, rs)
  BY <1>2 DEF Named, OncePerChunk
<1>7. Total(Costs(<<>>)) = 0
  <2>1. Costs(<<>>) = <<>>
    BY DEF Costs
  <2> QED
    BY <1>2, <2>1, TotalEmpty
<1> QED
  BY <1>3, <1>4, <1>5, <1>6, <1>7

LEMMA Initially == Init => IInv
<1> SUFFICES ASSUME Init PROVE IInv
  OBVIOUS
<1>1. /\ phase = "ready" /\ snapshot = NoSnapshot /\ dense = <<>> /\ searches = <<>>
      /\ results = <<>> /\ evidence = EmptySet(TRUE) /\ changes = 0
  BY DEF Init
<1>2. evidence \in EvidenceSets /\ evidence.items = <<>> /\ evidence.tokens = 0
  BY <1>1, EmptyTypes DEF EmptySet
<1>3. TypeOK
  <2>1. readable \subseteq Documents
    BY EvidenceAssumption DEF Init
  <2>2. /\ Len(<<>>) = 0 /\ DOMAIN <<>> = {} /\ \A S : <<>> \in Seq(S)
        /\ Len(KnowledgeSources) \in Nat /\ 0 \in 0..MaxChanges
    BY ConstantTypes, LenProperties, EmptySeq
  <2>3. /\ published \in [Sources -> Corpora \cup {None}]
        /\ \A source \in Sources : published[source] \in CorporaOf(source) \cup {None}
    BY DEF Init
  <2>4. /\ searches \in Seq(Searches) /\ Len(searches) <= Len(KnowledgeSources)
        /\ \A i \in DOMAIN searches : Len(searches[i].candidates) <= FusionLimit
    BY <1>1, <2>2
  <2>5. /\ results \in Seq(Results) /\ Len(results) <= Requests
        /\ \A i \in DOMAIN results :
             Len(results[i].items) <= ResultLimit /\ results[i].reranked <= RerankLimit
    BY <1>1, <2>2, ConstantTypes
  <2>6. dense \in Seq(Chunks) /\ Len(dense) <= MatchLimit /\ Len(evidence.items) <= ItemLimit
    <3>1. 0 <= MatchLimit /\ 0 <= ItemLimit
      BY ConstantTypes
    <3>2. <<>> \in Seq(Chunks) /\ Len(<<>>) = 0
      BY <2>2
    <3> QED
      BY <1>1, <1>2, <3>1, <3>2
  <2>7. phase \in Phases /\ changes \in 0..MaxChanges
        /\ snapshot \in [corpus : Corpora, readable : SUBSET Documents]
    BY <1>1, <2>2, EmptyKeeps DEF Phases
  <2> QED
    BY <1>2, <2>1, <2>3, <2>4, <2>5, <2>6, <2>7 DEF TypeOK
<1>4. RequestKeeps
  BY <1>1, EmptyKeeps DEF RequestKeeps
<1>5. AllResultsKeep(results)
  BY <1>1, EmptyKeeps
<1>6. EvidenceKeeps
  BY <1>1, <1>2, EmptyKeeps DEF EvidenceKeeps
<1> QED
  BY <1>3, <1>4, <1>5, <1>6 DEF IInv

\* A request is concluded with a result that keeps to what it promises.
LEMMA ConcludeKeeps ==
  ASSUME IInv, NEW result, ResultKeeps(result), Len(results) < Requests, Conclude(result)
  PROVE  IInv'
<1> DEFINE rs == Append(results, result)
<1>1. /\ results' = rs /\ evidence' = Assembled(rs) /\ phase' = "expanding"
      /\ snapshot' = NoSnapshot /\ dense' = <<>> /\ searches' = <<>>
      /\ published' = published /\ readable' = readable /\ changes' = changes
  BY DEF Conclude, world
<1>2. AllResultsKeep(rs)
  BY ResultAppended DEF IInv
<1> HIDE DEF rs
<1>3. Sound(evidence', ReturnedBy(rs), rs)
  BY <1>1, <1>2, AssembledSound
<1>4. Named(evidence'.items, rs) /\ evidence'.tokens = Total(Costs(evidence'.items))
  BY <1>2, <1>3, SoundNames
<1>5. TypeOK'
  <2>1. evidence' \in EvidenceSets /\ Len(evidence'.items) <= ItemLimit
    BY <1>3 DEF Sound
  <2>2. /\ rs \in Seq(Results) /\ Len(rs) <= Requests
        /\ \A i \in DOMAIN rs : Len(rs[i].items) <= ResultLimit /\ rs[i].reranked <= RerankLimit
    BY <1>2 DEF AllResultsKeep, ResultKeeps
  <2>3. /\ Len(<<>>) = 0 /\ DOMAIN <<>> = {} /\ \A S : <<>> \in Seq(S)
        /\ Len(KnowledgeSources) \in Nat
    BY ConstantTypes, LenProperties, EmptySeq
  <2> QED
    BY <1>1, <2>1, <2>2, <2>3, EmptyKeeps, ConstantTypes DEF IInv, TypeOK, Phases
<1>6. RequestKeeps'
  BY <1>1, EmptyKeeps DEF RequestKeeps
<1>7. AllResultsKeep(results)'
  BY <1>1, <1>2
<1>8. EvidenceKeeps'
  BY <1>1, <1>3, <1>4 DEF EvidenceKeeps
<1> QED
  BY <1>5, <1>6, <1>7, <1>8 DEF IInv

\* A source is done with when its search keeps to what it promises.
LEMMA SearchedKeeps ==
  ASSUME IInv, NEW search, SearchKeeps(search, Searching),
         Len(searches) < Len(KnowledgeSources), Len(results) < Requests, Searched(search)
  PROVE  IInv'
<1> DEFINE done == Append(searches, search)
<1>1. /\ searches' = done /\ phase' = "searching" /\ snapshot' = NoSnapshot /\ dense' = <<>>
      /\ published' = published /\ readable' = readable /\ changes' = changes
      /\ results' = results /\ evidence' = evidence
  BY DEF Searched, world
<1>2. AllKeep(done)
  BY SearchAppended DEF IInv, RequestKeeps, Searching
<1> HIDE DEF done
<1>3. TypeOK'
  <2>1. /\ done \in Seq(Searches) /\ Len(done) <= Len(KnowledgeSources)
        /\ \A i \in DOMAIN done : Len(done[i].candidates) <= FusionLimit
    BY <1>2 DEF AllKeep, SearchKeeps
  <2>2. Len(<<>>) = 0 /\ DOMAIN <<>> = {} /\ \A S : <<>> \in Seq(S)
    BY EmptySeq
  <2> QED
    BY <1>1, <2>1, <2>2, EmptyKeeps, ConstantTypes DEF IInv, TypeOK, Phases
<1>4. RequestKeeps'
  BY <1>1, <1>2 DEF RequestKeeps
<1>5. AllResultsKeep(results)'
  BY <1>1 DEF IInv
<1>6. EvidenceKeeps'
  BY <1>1 DEF IInv, EvidenceKeeps
<1> QED
  BY <1>3, <1>4, <1>5, <1>6 DEF IInv

-----------------------------------------------------------------------------
(* What a request concludes with                                           *)

\* The source to be searched next.
LEMMA SearchingSource ==
  ASSUME AllKeep(searches), Len(searches) < Len(KnowledgeSources)
  PROVE  Searching \in Sources
<1>1. Len(searches) \in Nat
  BY LenProperties DEF AllKeep
<1>2. Len(searches) + 1 \in DOMAIN KnowledgeSources
  BY <1>1, ConstantTypes
<1> QED
  BY <1>2, ConstantTypes, ElementOfSeq DEF Searching

\* What a search can match is a finite set of chunks of its corpus.
LEMMA MatchableOf ==
  ASSUME AllKeep(searches), Len(searches) < Len(KnowledgeSources),
         snapshot.corpus \in CorporaOf(Searching)
  PROVE  /\ Matchable(snapshot) \subseteq ChunksOf(snapshot.corpus)
         /\ Matchable(snapshot) \subseteq Chunks /\ IsFiniteSet(Matchable(snapshot))
<1>1. Searching \in Sources
  BY SearchingSource
<1>2. IsFiniteSet(ChunksOf(snapshot.corpus))
  BY <1>1, ChunksOfCorpus
<1>3. Matchable(snapshot) \subseteq ChunksOf(snapshot.corpus)
  BY DEF Matchable
<1>4. ChunksOf(snapshot.corpus) \subseteq Chunks
  BY DEF ChunksOf
<1> QED
  BY <1>2, <1>3, <1>4, FS_Subset

\* A search that failed, before its Corpus Revision was read or after.
LEMMA FailedSearchKeeps ==
  ASSUME AllKeep(searches), Len(searches) < Len(KnowledgeSources),
         NEW corpus \in CorporaOf(Searching) \cup {None}
  PROVE  SearchKeeps(FailedSearch(corpus), Searching)
<1>1. Searching \in Sources
  BY SearchingSource
<1>2. corpus \in Corpora \cup {None}
  BY <1>1 DEF Corpora
<1>3. <<>> \in Seq(Ranked) /\ Len(<<>>) = 0 /\ 0 \in Nat /\ 0 <= 0 /\ FusionLimit \in Nat
  BY EmptySeq, ConstantTypes
<1> DEFINE s == FailedSearch(corpus)
<1>4. /\ s.source = Searching /\ s.corpus = corpus /\ s.status = "failed"
      /\ s.candidates = <<>> /\ s.deduplicated = 0
  BY DEF FailedSearch
<1>5. s \in Searches
  BY <1>1, <1>2, <1>3 DEF FailedSearch, Searches, Statuses
<1> HIDE DEF s
<1>6. ~(0 > 0) /\ 0 <= FusionLimit
  BY <1>3
<1>7. SearchKeeps(s, Searching)
  BY <1>3, <1>4, <1>5, <1>6 DEF SearchKeeps
<1> QED
  BY <1>7 DEF s

\* A search that found what its branches fused to.
LEMMA FusedKeeps ==
  ASSUME NEW source \in Sources, NEW corpus \in CorporaOf(source),
         NEW fused, CandidatesOf(fused, source, corpus)
  PROVE  SearchKeeps([source |-> source, corpus |-> corpus,
                      status |-> IF fused = <<>> THEN "no_evidence" ELSE "completed",
                      candidates |-> Take(fused, FusionLimit),
                      deduplicated |-> Len(fused)], source)
<1>1. fused \in Seq(Ranked) /\ Len(fused) \in Nat /\ DOMAIN fused = 1..Len(fused)
  BY LenProperties DEF CandidatesOf
<1> DEFINE cut == Take(fused, FusionLimit)
           status == IF fused = <<>> THEN "no_evidence" ELSE "completed"
           s == [source |-> source, corpus |-> corpus, status |-> status,
                 candidates |-> cut, deduplicated |-> Len(fused)]
<1>2. /\ cut \in Seq(Ranked) /\ Len(cut) <= FusionLimit /\ Len(cut) <= Len(fused)
      /\ \A i \in 1..Len(cut) : i \in 1..Len(fused) /\ cut[i] = fused[i]
  BY <1>1, TakeOf, ConstantTypes
<1>3. DOMAIN cut = 1..Len(cut)
  BY <1>2, LenProperties
<1>4. status \in Statuses /\ status # "failed" /\ (status = "completed" <=> Len(fused) > 0)
  <2>1. fused = <<>> <=> Len(fused) = 0
    BY <1>1, EmptySeq
  <2> QED
    BY <1>1, <2>1 DEF Statuses
<1> HIDE DEF cut, status
<1>5. CandidatesOf(cut, source, corpus)
  <2>1. /\ \A i \in DOMAIN fused : /\ fused[i].source = source /\ fused[i].corpus = corpus
                                   /\ fused[i].chunk \in ChunksOf(corpus)
        /\ \A i, j \in DOMAIN fused : fused[i].chunk = fused[j].chunk => i = j
    BY DEF CandidatesOf
  <2>2. \A i \in DOMAIN cut : i \in DOMAIN fused /\ cut[i] = fused[i]
    BY <1>1, <1>2, <1>3
  <2> QED
    BY <1>2, <2>1, <2>2 DEF CandidatesOf
<1>6. s \in Searches
  BY <1>1, <1>2, <1>4 DEF Searches, Corpora
<1>7. /\ s.source = source /\ s.corpus = corpus /\ s.status = status
      /\ s.candidates = cut /\ s.deduplicated = Len(fused)
  OBVIOUS
<1> HIDE DEF s
<1>8. SearchKeeps(s, source)
  BY <1>2, <1>4, <1>5, <1>6, <1>7 DEF SearchKeeps
<1> QED
  BY <1>8 DEF s, status, cut

\* A result without items, of sources that failed or found nothing.
LEMMA NothingKeeps ==
  ASSUME NEW searched, AllKeep(searched), NEW status \in {"failed", "no_evidence"},
         \A i \in DOMAIN searched : searched[i].status = "failed" => status = "failed"
  PROVE  ResultKeeps(RetrievalResult(status, <<>>, Outcomes(searched, <<>>, <<>>), 0))
<1>1. <<>> \in Seq(Ranked) /\ <<>> \in Seq(Items) /\ Len(<<>>) = 0 /\ DOMAIN <<>> = {}
  BY EmptySeq
<1>2. 0 <= RerankLimit /\ 0 <= ResultLimit
  BY ConstantTypes
<1>3. RerankedFrom(<<>>, searched) /\ SelectedFrom(<<>>, <<>>)
  BY <1>1, <1>2 DEF RerankedFrom, SelectedFrom, OncePerChunk
<1>4. status \in Statuses /\ status # "completed"
  BY DEF Statuses
<1>5. (status = "completed") = (<<>> # <<>>)
  BY <1>4
<1>6. ResultKeeps(RetrievalResult(status, <<>>, Outcomes(searched, <<>>, <<>>), Len(<<>>)))
  BY <1>3, <1>4, <1>5, ResultOf
<1> QED
  BY <1>1, <1>6

LEMMA FailureKeeps ==
  ASSUME NEW searched, AllKeep(searched)
  PROVE  ResultKeeps(FailedResult(searched))
BY NothingKeeps DEF FailedResult

-----------------------------------------------------------------------------
(* retrieve                                                                *)

LEMMA EmbeddingFailsKeeps ==
  ASSUME IInv, EmbeddingFails
  PROVE  IInv'
<1>1. Len(results) < Requests /\ Conclude(FailedResult(<<>>))
  BY DEF EmbeddingFails
<1>2. ResultKeeps(FailedResult(<<>>))
  BY EmptyKeeps, FailureKeeps
<1> QED
  BY <1>1, <1>2, ConcludeKeeps

LEMMA EmbeddingReturnsKeeps ==
  ASSUME IInv, EmbeddingReturns
  PROVE  IInv'
<1>1. /\ Len(results) < Requests /\ phase = "ready" /\ phase' = "searching"
      /\ UNCHANGED <<published, readable, changes, snapshot, dense, searches, results, evidence>>
  BY DEF EmbeddingReturns, world, request
<1>2. TypeOK'
  BY <1>1 DEF IInv, TypeOK, Phases
<1>3. RequestKeeps'
  BY <1>1 DEF IInv, RequestKeeps
<1>4. AllResultsKeep(results)' /\ EvidenceKeeps'
  BY <1>1 DEF IInv, EvidenceKeeps
<1> QED
  BY <1>2, <1>3, <1>4 DEF IInv

LEMMA OpenSnapshotKeeps ==
  ASSUME IInv, OpenSnapshot
  PROVE  IInv'
<1>1. /\ phase = "searching" /\ Len(searches) < Len(KnowledgeSources)
      /\ published[Searching] # None
      /\ snapshot' = [corpus |-> published[Searching], readable |-> readable]
      /\ phase' = "dense"
      /\ UNCHANGED <<published, readable, changes, dense, searches, results, evidence>>
  BY DEF OpenSnapshot, world
<1>2. Searching \in Sources
  BY <1>1, SearchingSource DEF IInv, RequestKeeps
<1>3. published[Searching] \in CorporaOf(Searching) /\ readable \subseteq Documents
  BY <1>1, <1>2 DEF IInv, TypeOK
<1>4. TypeOK'
  <2>1. snapshot' \in [corpus : Corpora, readable : SUBSET Documents]
    BY <1>1, <1>2, <1>3 DEF Corpora
  <2> QED
    BY <1>1, <2>1 DEF IInv, TypeOK, Phases
<1>5. RequestKeeps'
  <2>1. Searching' = Searching
    BY <1>1 DEF Searching
  <2> QED
    BY <1>1, <1>3, <2>1 DEF IInv, RequestKeeps
<1>6. AllResultsKeep(results)' /\ EvidenceKeeps'
  BY <1>1 DEF IInv, EvidenceKeeps
<1> QED
  BY <1>4, <1>5, <1>6 DEF IInv

LEMMA CorpusUnavailableKeeps ==
  ASSUME IInv, CorpusUnavailable
  PROVE  IInv'
<1>1. /\ phase = "searching" /\ Len(searches) < Len(KnowledgeSources)
      /\ Searched(FailedSearch(None))
  BY DEF CorpusUnavailable
<1>2. SearchKeeps(FailedSearch(None), Searching)
  BY <1>1, FailedSearchKeeps DEF IInv, RequestKeeps
<1>3. Len(results) < Requests
  BY <1>1 DEF IInv, RequestKeeps
<1> QED
  BY <1>1, <1>2, <1>3, SearchedKeeps

LEMMA DenseReturnsKeeps ==
  ASSUME IInv, DenseReturns
  PROVE  IInv'
<1>1. /\ phase = "dense" /\ phase' = "lexical" /\ dense' \in Orders(Matchable(snapshot))
      /\ UNCHANGED <<published, readable, changes, snapshot, searches, results, evidence>>
  BY DEF DenseReturns, world
<1>2. /\ Len(searches) < Len(KnowledgeSources) /\ snapshot.corpus \in CorporaOf(Searching)
      /\ Len(results) < Requests /\ AllKeep(searches)
  BY <1>1 DEF IInv, RequestKeeps
<1>3. /\ dense' \in Seq(Chunks) /\ Len(dense') <= MatchLimit
      /\ ToSet(dense') \subseteq ChunksOf(snapshot.corpus)
  BY <1>1, <1>2, MatchableOf, OrdersOf
<1>4. TypeOK'
  BY <1>1, <1>3 DEF IInv, TypeOK, Phases
<1>5. RequestKeeps'
  <2>1. Searching' = Searching
    BY <1>1 DEF Searching
  <2> QED
    BY <1>1, <1>2, <1>3, <2>1 DEF RequestKeeps
<1>6. AllResultsKeep(results)' /\ EvidenceKeeps'
  BY <1>1 DEF IInv, EvidenceKeeps
<1> QED
  BY <1>4, <1>5, <1>6 DEF IInv

LEMMA LexicalReturnsKeeps ==
  ASSUME IInv, LexicalReturns
  PROVE  IInv'
<1>0. PICK matching \in SUBSET Matchable(snapshot) : \E lexical \in Orders(matching) :
        LET fused == FuseCandidates(Searching, snapshot.corpus, dense, lexical)
        IN Searched([source |-> Searching, corpus |-> snapshot.corpus,
                     status |-> IF fused = <<>> THEN "no_evidence" ELSE "completed",
                     candidates |-> Take(fused, FusionLimit),
                     deduplicated |-> Len(fused)])
  BY DEF LexicalReturns
<1>1. PICK lexical \in Orders(matching) :
        LET fused == FuseCandidates(Searching, snapshot.corpus, dense, lexical)
        IN Searched([source |-> Searching, corpus |-> snapshot.corpus,
                     status |-> IF fused = <<>> THEN "no_evidence" ELSE "completed",
                     candidates |-> Take(fused, FusionLimit),
                     deduplicated |-> Len(fused)])
  BY <1>0
<1>2. /\ Len(searches) < Len(KnowledgeSources) /\ snapshot.corpus \in CorporaOf(Searching)
      /\ Len(results) < Requests /\ AllKeep(searches)
      /\ ToSet(dense) \subseteq ChunksOf(snapshot.corpus) /\ dense \in Seq(Chunks)
  BY DEF LexicalReturns, IInv, RequestKeeps, TypeOK
<1>3. lexical \in Seq(Chunks) /\ ToSet(lexical) \subseteq ChunksOf(snapshot.corpus)
  <2>1. matching \subseteq Chunks /\ IsFiniteSet(matching)
        /\ matching \subseteq ChunksOf(snapshot.corpus)
    BY <1>2, MatchableOf, FS_Subset
  <2> QED
    BY <2>1, OrdersOf
<1> DEFINE fused == FuseCandidates(Searching, snapshot.corpus, dense, lexical)
           search == [source |-> Searching, corpus |-> snapshot.corpus,
                      status |-> IF fused = <<>> THEN "no_evidence" ELSE "completed",
                      candidates |-> Take(fused, FusionLimit),
                      deduplicated |-> Len(fused)]
<1>4. Searching \in Sources
  BY <1>2, SearchingSource
<1>5. CandidatesOf(fused, Searching, snapshot.corpus)
  BY <1>2, <1>3, <1>4, Fused
<1>6. Searched(search)
  BY <1>1
<1> HIDE DEF fused
<1>7. SearchKeeps(search, Searching)
  BY <1>2, <1>4, <1>5, FusedKeeps
<1> QED
  BY <1>2, <1>6, <1>7, SearchedKeeps

LEMMA SearchFailsKeeps ==
  ASSUME IInv, SearchFails
  PROVE  IInv'
<1>1. /\ Len(searches) < Len(KnowledgeSources) /\ Searched(FailedSearch(snapshot.corpus))
      /\ snapshot.corpus \in CorporaOf(Searching) /\ Len(results) < Requests
      /\ AllKeep(searches)
  BY DEF SearchFails, IInv, RequestKeeps
<1>2. SearchKeeps(FailedSearch(snapshot.corpus), Searching)
  BY <1>1, FailedSearchKeeps
<1> QED
  BY <1>1, <1>2, SearchedKeeps

\* Items selected from the part of an answer above the threshold.
LEMMA CutSelected ==
  ASSUME NEW searched, NEW answer, RerankedFrom(answer, searched), NEW relevant \in 0..Len(answer)
  PROVE  SelectedFrom(Selected(Take(answer, relevant)), answer)
<1>1. answer \in Seq(Ranked) /\ OncePerChunk(answer) /\ Len(answer) \in Nat
      /\ DOMAIN answer = 1..Len(answer)
  BY LenProperties DEF RerankedFrom
<1> DEFINE cut == Take(answer, relevant)
           items == Selected(cut)
<1>2. relevant \in Nat
  BY <1>1
<1>3. /\ cut \in Seq(Ranked) /\ Len(cut) \in Nat
      /\ \A i \in 1..Len(cut) : i \in 1..Len(answer) /\ cut[i] = answer[i]
  BY <1>1, <1>2, TakeOf
<1>4. DOMAIN cut = 1..Len(cut)
  BY <1>3, LenProperties
<1> HIDE DEF cut
<1>5. OncePerChunk(cut)
  BY <1>1, <1>3, <1>4 DEF OncePerChunk
<1>6. SelectedFrom(items, cut)
  BY <1>3, <1>5, ItemsSelected
<1> HIDE DEF items
<1>7. SelectedFrom(items, answer)
  BY ZenonT(30), <1>1, <1>3, <1>4, <1>6 DEF SelectedFrom
<1> QED
  BY <1>7 DEF items, cut

LEMMA SearchesFailedKeeps ==
  ASSUME IInv, SearchesFailed
  PROVE  IInv'
<1>1. phase = "searching" /\ Conclude(FailedResult(searches))
  BY DEF SearchesFailed, AllSearched
<1>2. Len(results) < Requests /\ ResultKeeps(FailedResult(searches))
  BY <1>1, FailureKeeps DEF IInv, RequestKeeps
<1> QED
  BY <1>1, <1>2, ConcludeKeeps

LEMMA NothingToRerankKeeps ==
  ASSUME IInv, NothingToRerank
  PROVE  IInv'
<1> DEFINE result == RetrievalResult("no_evidence", <<>>, Outcomes(searches, <<>>, <<>>), 0)
<1>1. phase = "searching" /\ ~SomeFailed /\ Conclude(result)
  BY DEF NothingToRerank, AllSearched
<1>2. Len(results) < Requests /\ AllKeep(searches)
  BY <1>1 DEF IInv, RequestKeeps
<1>3. ResultKeeps(result)
  BY <1>1, <1>2, NothingKeeps DEF SomeFailed
<1> HIDE DEF result
<1> QED
  BY <1>1, <1>2, <1>3, ConcludeKeeps

LEMMA RerankReturnsKeeps ==
  ASSUME IInv, RerankReturns
  PROVE  IInv'
<1>1. PICK answer \in Answers(Candidates(searches)) :
        /\ FullPermutation(answer, Candidates(searches))
        /\ \E relevant \in 0..Len(answer) :
             LET items == Selected(Take(answer, relevant))
             IN Conclude(RetrievalResult(StatusOf(items, answer), items,
                                         Outcomes(searches, answer, items), Len(answer)))
  BY DEF RerankReturns
<1>2. PICK relevant \in 0..Len(answer) :
             LET items == Selected(Take(answer, relevant))
             IN Conclude(RetrievalResult(StatusOf(items, answer), items,
                                         Outcomes(searches, answer, items), Len(answer)))
  BY <1>1
<1> DEFINE items == Selected(Take(answer, relevant))
           result == RetrievalResult(StatusOf(items, answer), items,
                                     Outcomes(searches, answer, items), Len(answer))
<1>3. phase = "searching" /\ ~SomeFailed
  BY DEF RerankReturns, AllSearched
<1>4. Len(results) < Requests /\ AllKeep(searches)
  BY <1>3 DEF IInv, RequestKeeps
<1>5. RerankedFrom(answer, searches)
  BY <1>1, <1>4, PermutationReranked
<1>6. SelectedFrom(items, answer)
  BY <1>5, CutSelected
<1>7. Conclude(result)
  BY <1>2
<1> HIDE DEF items
<1>8. ResultKeeps(result)
  <2>1. /\ StatusOf(items, answer) \in Statuses
        /\ (StatusOf(items, answer) = "completed") = (items # <<>>)
    BY DEF StatusOf, Statuses
  <2> QED
    BY <1>3, <1>4, <1>5, <1>6, <2>1, ResultOf DEF SomeFailed
<1> HIDE DEF result
<1> QED
  BY <1>4, <1>7, <1>8, ConcludeKeeps

LEMMA RerankFailsKeeps ==
  ASSUME IInv, RerankFails
  PROVE  IInv'
<1>1. phase = "searching" /\ Conclude(FailedResult(searches))
  BY DEF RerankFails, AllSearched
<1>2. Len(results) < Requests /\ ResultKeeps(FailedResult(searches))
  BY <1>1, FailureKeeps DEF IInv, RequestKeeps
<1> QED
  BY <1>1, <1>2, ConcludeKeeps

-----------------------------------------------------------------------------
(* expand_evidence_set_context                                             *)

\* The Evidence Set to be expanded has no context yet.
LEMMA Unexpanded ==
  ASSUME IInv, phase = "expanding"
  PROVE  /\ evidence \in EvidenceSets /\ evidence.items \in Seq(EvidenceItems)
         /\ \A i \in DOMAIN evidence.items : evidence.items[i].context = <<>>
         /\ evidence.tokens = Total(Costs(evidence.items))
<1>1. AllResultsKeep(results) /\ Sound(evidence, ReturnedBy(results), results)
  BY DEF IInv, EvidenceKeeps
<1>2. evidence \in EvidenceSets
  BY <1>1 DEF Sound
<1> QED
  BY <1>1, <1>2, SoundNames DEF EvidenceSets

\* A set that takes the place of the assembled one.
LEMMA ExpandKeeps ==
  ASSUME IInv, NEW set \in EvidenceSets, Len(set.items) <= ItemLimit,
         Named(set.items, results), set.tokens = Total(Costs(set.items)),
         NEW next \in {"ready", "failed"}, phase = "expanding", Expand(set, next)
  PROVE  IInv'
<1>1. /\ evidence' = set /\ phase' = next
      /\ UNCHANGED <<published, readable, changes, snapshot, dense, searches, results>>
  BY DEF Expand, world, request
<1>2. TypeOK'
  BY <1>1 DEF IInv, TypeOK, Phases
<1>3. RequestKeeps'
  BY <1>1 DEF IInv, RequestKeeps
<1>4. AllResultsKeep(results)'
  BY <1>1 DEF IInv
<1>5. EvidenceKeeps'
  BY <1>1 DEF EvidenceKeeps
<1> QED
  BY <1>2, <1>3, <1>4, <1>5 DEF IInv

\* The names of a set stay when its items are hydrated.
LEMMA HydratedNames ==
  ASSUME NEW rs, NEW old \in Seq(EvidenceItems), NEW new \in Seq(EvidenceItems),
         Len(new) = Len(old), \A i \in 1..Len(old) : Hydrated(new[i], old[i]), Named(old, rs)
  PROVE  Named(new, rs)
<1>1. DOMAIN new = 1..Len(old) /\ DOMAIN old = 1..Len(old)
  BY LenProperties
<1>2. \A i \in DOMAIN new : new[i].chunk = old[i].chunk /\ new[i].provenance = old[i].provenance
  BY <1>1 DEF Hydrated
<1>3. OncePerChunk(new)
  BY <1>1, <1>2 DEF Named, OncePerChunk
<1>4. ASSUME NEW i \in DOMAIN new
      PROVE  /\ IsInjective(new[i].provenance)
             /\ ToSet(new[i].provenance) = {j \in DOMAIN rs : new[i].chunk \in Chunked(rs[j].items)}
  <2>1. /\ IsInjective(old[i].provenance)
        /\ ToSet(old[i].provenance) = {j \in DOMAIN rs : old[i].chunk \in Chunked(rs[j].items)}
    BY <1>1 DEF Named
  <2> QED
    BY <1>2, <2>1
<1> QED
  BY <1>3, <1>4 DEF Named

LEMMA NotExpandedKeeps ==
  ASSUME IInv, NotExpanded
  PROVE  IInv'
<1>1. phase = "expanding" /\ Expand(evidence, "failed")
  BY DEF NotExpanded
<1>2. /\ evidence \in EvidenceSets /\ Len(evidence.items) <= ItemLimit
      /\ Named(evidence.items, results) /\ evidence.tokens = Total(Costs(evidence.items))
  BY DEF IInv, TypeOK, EvidenceKeeps
<1> QED
  BY <1>1, <1>2, ExpandKeeps

LEMMA NothingToExpandKeeps ==
  ASSUME IInv, NothingToExpand
  PROVE  IInv'
<1> DEFINE set == [evidence EXCEPT !.expanded = TRUE]
<1>1. phase = "expanding" /\ Expand(set, "ready")
  BY DEF NothingToExpand
<1>2. /\ evidence \in EvidenceSets /\ Len(evidence.items) <= ItemLimit
      /\ Named(evidence.items, results) /\ evidence.tokens = Total(Costs(evidence.items))
  BY DEF IInv, TypeOK, EvidenceKeeps
<1>3. set \in EvidenceSets /\ set.items = evidence.items /\ set.tokens = evidence.tokens
  BY <1>2 DEF EvidenceSets
<1> HIDE DEF set
<1> QED
  BY <1>1, <1>2, <1>3, ExpandKeeps

LEMMA ExpansionReturnsKeeps ==
  ASSUME IInv, ExpansionReturns
  PROVE  IInv'
<1> DEFINE set == Expanded(evidence)
<1>1. phase = "expanding" /\ Expand(set, "ready")
  BY DEF ExpansionReturns
<1>2. Len(evidence.items) <= ItemLimit /\ Named(evidence.items, results)
  BY DEF IInv, TypeOK, EvidenceKeeps
<1>3. /\ set \in EvidenceSets /\ Len(set.items) = Len(evidence.items)
      /\ \A i \in 1..Len(evidence.items) : Hydrated(set.items[i], evidence.items[i])
      /\ set.tokens = Total(Costs(set.items))
  BY <1>1, Unexpanded, ExpandedOf
<1> HIDE DEF set
<1>4. set.items \in Seq(EvidenceItems) /\ evidence.items \in Seq(EvidenceItems)
  BY <1>1, <1>3, Unexpanded DEF EvidenceSets
<1>5. Named(set.items, results)
  BY <1>2, <1>3, <1>4, HydratedNames
<1>6. Len(set.items) <= ItemLimit
  BY <1>2, <1>3
<1> QED
  BY <1>1, <1>3, <1>5, <1>6, ExpandKeeps

LEMMA ExpansionFailsKeeps ==
  ASSUME IInv, ExpansionFails
  PROVE  IInv'
<1> DEFINE set == [evidence EXCEPT !.items = <<>>, !.complete = FALSE, !.tokens = 0]
<1>1. phase = "expanding" /\ Expand(set, "failed")
  BY DEF ExpansionFails
<1>2. /\ evidence \in EvidenceSets /\ <<>> \in Seq(EvidenceItems) /\ Len(<<>>) = 0
      /\ ItemLimit \in Nat /\ TokenLimit \in Nat
  BY EmptySeq, ConstantTypes DEF IInv, TypeOK
<1>3. set \in EvidenceSets /\ set.items = <<>> /\ set.tokens = 0
  <2>1. evidence \in EvidenceSets /\ <<>> \in Seq(EvidenceItems)
    BY <1>2
  <2>2. 0 \in 0..TokenLimit
    BY <1>2
  <2> QED
    BY <2>1, <2>2 DEF EvidenceSets
<1> HIDE DEF set
<1>4. Len(set.items) <= ItemLimit
  BY <1>2, <1>3
<1>5. Named(set.items, results) /\ set.tokens = Total(Costs(set.items))
  BY <1>3, EmptyKeeps
<1> QED
  BY <1>1, <1>3, <1>4, <1>5, ExpandKeeps

-----------------------------------------------------------------------------
(* The environment                                                         *)

\* What the environment changes: the corpora, the grants and the bound.
LEMMA EnvironmentKeeps ==
  ASSUME IInv, UNCHANGED <<phase, request, results, evidence>>,
         published' \in [Sources -> Corpora \cup {None}],
         \A source \in Sources : published'[source] \in CorporaOf(source) \cup {None},
         readable' \subseteq Documents, changes' \in 0..MaxChanges
  PROVE  IInv'
<1>1. UNCHANGED <<phase, snapshot, dense, searches, results, evidence>>
  BY DEF request
<1>2. TypeOK'
  BY <1>1 DEF IInv, TypeOK
<1>3. RequestKeeps'
  <2>1. Searching' = Searching
    BY <1>1 DEF Searching
  <2> QED
    BY <1>1, <2>1 DEF IInv, RequestKeeps
<1>4. AllResultsKeep(results)' /\ EvidenceKeeps'
  BY <1>1 DEF IInv, EvidenceKeeps
<1> QED
  BY <1>2, <1>3, <1>4 DEF IInv

LEMMA PublishKeeps ==
  ASSUME IInv, NEW source \in Sources, NEW corpus \in CorporaOf(source), Publish(source, corpus)
  PROVE  IInv'
<1>1. /\ published' = [published EXCEPT ![source] = corpus]
      /\ readable' = {d \in readable : SourceOf[d] = source => \E x \in corpus : x[1] = d}
      /\ UNCHANGED <<phase, request, results, evidence>>
      /\ changes < MaxChanges /\ changes' = changes + 1
  BY DEF Publish, Changes
<1>2. /\ published \in [Sources -> Corpora \cup {None}]
      /\ \A s \in Sources : published[s] \in CorporaOf(s) \cup {None}
      /\ readable \subseteq Documents /\ changes \in 0..MaxChanges
  BY DEF IInv, TypeOK
<1>3. corpus \in Corpora
  BY DEF Corpora
<1>4. /\ published' \in [Sources -> Corpora \cup {None}]
      /\ \A s \in Sources : published'[s] \in CorporaOf(s) \cup {None}
  BY <1>1, <1>2, <1>3
<1>5. readable' \subseteq Documents
  BY <1>1, <1>2
<1>6. changes' \in 0..MaxChanges
  BY <1>1, <1>2, ConstantTypes
<1> QED
  BY <1>1, <1>4, <1>5, <1>6, EnvironmentKeeps

LEMMA ChangeAccessKeeps ==
  ASSUME IInv, NEW d \in Documents, ChangeAccess(d)
  PROVE  IInv'
<1>1. /\ published' = published /\ readable' = SymDiff(readable, {d})
      /\ UNCHANGED <<phase, request, results, evidence>>
      /\ changes < MaxChanges /\ changes' = changes + 1
  BY DEF ChangeAccess, Changes
<1>2. /\ published \in [Sources -> Corpora \cup {None}]
      /\ \A s \in Sources : published[s] \in CorporaOf(s) \cup {None}
      /\ readable \subseteq Documents /\ changes \in 0..MaxChanges
  BY DEF IInv, TypeOK
<1>3. readable' \subseteq Documents
  BY <1>1, <1>2 DEF SymDiff
<1>4. changes' \in 0..MaxChanges
  BY <1>1, <1>2, ConstantTypes
<1> QED
  BY <1>1, <1>2, <1>3, <1>4, EnvironmentKeeps

-----------------------------------------------------------------------------
(* The theorems                                                            *)

LEMMA RetrieveKeeps ==
  ASSUME IInv, Retrieve
  PROVE  IInv'
BY EmbeddingFailsKeeps, EmbeddingReturnsKeeps, OpenSnapshotKeeps, CorpusUnavailableKeeps,
   DenseReturnsKeeps, LexicalReturnsKeeps, SearchFailsKeeps, SearchesFailedKeeps,
   NothingToRerankKeeps, RerankReturnsKeeps, RerankFailsKeeps
   DEF Retrieve

LEMMA Inductive == IInv /\ [Next]_vars => IInv'
<1> SUFFICES ASSUME IInv, [Next]_vars PROVE IInv'
  OBVIOUS
<1>1. CASE Retrieve
  BY <1>1, RetrieveKeeps
<1>2. CASE ExpandContext
  BY <1>2, NotExpandedKeeps, NothingToExpandKeeps, ExpansionReturnsKeeps, ExpansionFailsKeeps
     DEF ExpandContext
<1>3. CASE Environment
  BY <1>3, PublishKeeps, ChangeAccessKeeps DEF Environment
<1>4. CASE UNCHANGED vars
  <2>1. /\ UNCHANGED <<phase, request, results, evidence>>
        /\ UNCHANGED <<published, readable, changes>>
    BY <1>4 DEF vars, world
  <2>2. /\ published \in [Sources -> Corpora \cup {None}]
        /\ \A source \in Sources : published[source] \in CorporaOf(source) \cup {None}
        /\ readable \subseteq Documents /\ changes \in 0..MaxChanges
    BY DEF IInv, TypeOK
  <2> QED
    BY <2>1, <2>2, EnvironmentKeeps
<1> QED
  BY <1>1, <1>2, <1>3, <1>4 DEF Next

LEMMA Invariance == Spec => []IInv
BY Initially, Inductive, PTL DEF Spec

\* Every variable holds what the code's own types allow: no list outgrows the
\* limit it was cut to, and a source publishes only corpora of its documents.
THEOREM TypeCorrect == Spec => []TypeOK
BY Invariance, IInvImplies, PTL

\* Every Retrieval Result passes the validators of its model, whatever the
\* searches found and the reranker answered: its totals are those of its sources,
\* and it carries items exactly when it completed (search.py, _result_from_reranked).
THEOREM ResultsAddUp == Spec => []ResultsConsistent
BY Invariance, IInvImplies, PTL

\* A publication between two statements of a request never mixes corpora: its
\* items are of the Corpus Revision it reports for their source, each once.
THEOREM ItemsFromOneCorpus == Spec => []ItemsOfReportedCorpus
BY Invariance, IInvImplies, PTL

\* assemble_evidence_set sets an exhaustion flag exactly when a chunk that a
\* request returned was left out, in any number of rounds over any results.
THEOREM DropsAreReported == Spec => []NothingSilentlyDropped
BY Invariance, IInvImplies, PTL

\* _merge_provenance names every request that returned the chunk of an item,
\* and the chunk is in the Evidence Set once, before and after its expansion.
THEOREM ProvenanceMerged == Spec => []ProvenanceComplete
BY Invariance, IInvImplies, PTL

\* The tokens counted item by item and neighbor by neighbor, each rounded up,
\* are those of the joined texts the model is shown.
THEOREM TokensAddUp == Spec => []TokensAccounted
BY Invariance, IInvImplies, PTL

\* The rerank sees the best candidates of all sources together: whichever source
\* found it, one that was left out is behind every one that went in, and the rerank
\* limit was reached (retrieve, the cut after the merge).
THEOREM BestEnterRerank ==
  Spec => [](\A y \in FoundBy(searches) \ ToSet(Candidates(searches)) :
               /\ Len(Candidates(searches)) = RerankLimit
               /\ \A x \in ToSet(Candidates(searches)) : Ahead(x, y))
<1>1. IInv => \A y \in FoundBy(searches) \ ToSet(Candidates(searches)) :
                /\ Len(Candidates(searches)) = RerankLimit
                /\ \A x \in ToSet(Candidates(searches)) : Ahead(x, y)
  <2> SUFFICES ASSUME IInv, NEW y \in FoundBy(searches) \ ToSet(Candidates(searches))
               PROVE  /\ Len(Candidates(searches)) = RerankLimit
                      /\ \A x \in ToSet(Candidates(searches)) : Ahead(x, y)
    OBVIOUS
  <2>1. AllKeep(searches)
    BY DEF IInv, RequestKeeps
  <2>2. Candidates(searches) = Take(Sorted(FoundBy(searches)), RerankLimit)
    BY DEF Candidates, FoundBy
  <2> QED
    BY <2>1, <2>2, AllFound, BestKept, ConstantTypes
<1> QED
  BY <1>1, Invariance, PTL

\* What an expansion hands out complete is published and readable at that moment.
LEMMA ExpansionIsCurrent ==
  ASSUME IInv, ExpandContext, evidence'.complete, ContextWindow > 0
  PROVE  \A i \in DOMAIN evidence'.items :
           LET item == evidence'.items[i]
           IN /\ published[item.source] = item.corpus
              /\ \A ch \in {item.chunk} \cup ToSet(item.context) :
                   ch \in ChunksOf(published[item.source]) /\ ch.document \in readable
<1>1. CASE NotExpanded
  BY <1>1 DEF NotExpanded, Expand
<1>2. CASE NothingToExpand
  <2>1. evidence' = [evidence EXCEPT !.expanded = TRUE] /\ phase = "expanding"
    BY <1>2 DEF NothingToExpand, Expand
  <2>2. evidence.items = <<>>
    BY <1>2, ConstantTypes DEF NothingToExpand
  <2>3. evidence'.items = <<>>
    BY <2>1, <2>2, Unexpanded DEF EvidenceSets
  <2> QED
    BY <2>3
<1>3. CASE ExpansionReturns
  <2>1. /\ phase = "expanding" /\ evidence' = Expanded(evidence)
        /\ \A i \in DOMAIN evidence.items : Hydratable(evidence.items[i])
    BY <1>3 DEF ExpansionReturns, Expand
  <2>2. /\ evidence' \in EvidenceSets /\ Len(evidence'.items) = Len(evidence.items)
        /\ \A i \in 1..Len(evidence.items) : Hydrated(evidence'.items[i], evidence.items[i])
    BY <2>1, Unexpanded, ExpandedOf
  <2>3. evidence'.items \in Seq(EvidenceItems) /\ evidence.items \in Seq(EvidenceItems)
    BY <2>1, <2>2, Unexpanded DEF EvidenceSets
  <2>4. DOMAIN evidence'.items = 1..Len(evidence.items)
        /\ DOMAIN evidence.items = 1..Len(evidence.items)
    BY <2>2, <2>3, LenProperties
  <2> SUFFICES ASSUME NEW i \in DOMAIN evidence'.items
               PROVE  LET item == evidence'.items[i]
                      IN /\ published[item.source] = item.corpus
                         /\ \A ch \in {item.chunk} \cup ToSet(item.context) :
                              ch \in ChunksOf(published[item.source]) /\ ch.document \in readable
    OBVIOUS
  <2> DEFINE old == evidence.items[i]
             new == evidence'.items[i]
  <2>5. Hydrated(new, old) /\ Hydratable(old)
    BY <2>1, <2>2, <2>4
  <2> HIDE DEF old, new
  <2>6. /\ new.chunk = old.chunk /\ new.source = old.source /\ new.corpus = old.corpus
        /\ \A ch \in ToSet(new.context) : /\ ch \in Chunks /\ ch.document = old.chunk.document
                                          /\ ch.revision = old.chunk.revision
    BY <2>5 DEF Hydrated
  <2>7. /\ published[old.source] = old.corpus /\ old.chunk \in ChunksOf(published[old.source])
        /\ old.chunk.document \in readable
    BY <2>5 DEF Hydratable
  <2>8. \A ch \in {new.chunk} \cup ToSet(new.context) :
          ch \in ChunksOf(published[new.source]) /\ ch.document \in readable
    BY <2>6, <2>7 DEF ChunksOf
  <2> QED
    BY <2>6, <2>7, <2>8 DEF new
<1>4. CASE ExpansionFails
  <2>1. evidence' = [evidence EXCEPT !.items = <<>>, !.complete = FALSE, !.tokens = 0]
        /\ evidence \in EvidenceSets
    BY <1>4 DEF ExpansionFails, Expand, IInv, TypeOK
  <2> QED
    BY <2>1 DEF EvidenceSets
<1> QED
  BY <1>1, <1>2, <1>3, <1>4 DEF ExpandContext

\* An Evidence Set that comes out of its expansion complete is of the corpora
\* published and the documents readable in that one snapshot, the neighbors of
\* every item included (evidence.py, expand_evidence_set_context).
THEOREM ExpansionsAreCurrent == Spec => ExpandedEvidenceCurrent
<1>1. IInv /\ [Next]_vars =>
        [ExpandContext /\ evidence'.complete /\ ContextWindow > 0 =>
           \A i \in DOMAIN evidence'.items :
             LET item == evidence'.items[i]
             IN /\ published[item.source] = item.corpus
                /\ \A ch \in {item.chunk} \cup ToSet(item.context) :
                     ch \in ChunksOf(published[item.source]) /\ ch.document \in readable]_vars
  BY ExpansionIsCurrent
<1> QED
  BY <1>1, Invariance, PTL DEF Spec, ExpandedEvidenceCurrent

=============================================================================
