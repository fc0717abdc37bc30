--------------------------- MODULE DatasetFiles_proofs ---------------------------
(***************************************************************************)
(* Proofs about DatasetFiles, for every set of processes, every size and   *)
(* any number of commands, exceptions and kills.                           *)
(***************************************************************************)
EXTENDS DatasetFiles, FiniteSetTheorems, FunctionTheorems, TLAPS

\* Where a process has the lock of the dataset.
Holding ==
  {"session", "alloc", "fresh", "create", "migrate", "publish", "capture", "checkpoint",
   "release", "mismatched", "invalidate", "read", "arrays", "table", "report", "compare",
   "unlock", "h5write", "h5done", "csvwrite", "csvfile", "csvmarker", "exported"}
Elsewhere ==
  {"idle", "peek", "finalise", "bench", "lock", "unbench", "mismatch", "analyse", "h5", "csv",
   "end", "busy"}
\* Where it has a generation of its own.
Generating == {"arrays", "table", "report", "unlock", "csvfile", "csvmarker", "exported"}

Commands ==
  [at : Holding \cup Elsewhere, asked : {Default, 1}, seed : Seeds \cup {Default}, done : 0 .. N,
   todo : Nat, gen : Generations \cup {0}, variant : Variants, alone : BOOLEAN,
   made : [Variants -> [gen : Generations \cup {0}, rows : 0 .. N]]]

\* The type invariant, and the types that it leaves out.
Typed ==
  /\ trace \in Files /\ side \in [Sides -> Files]
  /\ meta \in [schema : {"none", "legacy", "v2"}, done : 0 .. N, seed : Seeds \cup {0}]
  /\ h5 \in -1 .. meta.done /\ csv \in Generations \cup {0} /\ marker \in Generations \cup {0}
  /\ artifact \in [Variants -> [Items -> Generations \cup {0}]]
  /\ report \in [Variants -> [gen : Generations \cup {0}, rows : 0 .. N]]
  /\ \A v \in Variants : report[v].rows <= meta.done
  /\ comparison \in [Variants -> Generations \cup {0}]
  /\ bench \in Process \cup {Nobody} /\ lock \in Process \cup {Nobody}
  /\ proc \in [Process -> Commands]
  /\ commands \in 0 .. MaxCommands /\ stops \in 0 .. MaxStops

\* The lock is with whoever is at a step that needs it.
LockHeld == \A q \in Process : proc[q].at \in Holding <=> lock = q

\* A file of which the first n rows are of the seed s.
Holds(f, n, s) == f # Absent /\ \A k \in 1 .. n : f[k] = s

\* What the metadata says is so.
MetaSound ==
  /\ meta.schema = "none" => meta.done = 0
  /\ meta.schema # "none" => meta.seed \in Seeds /\ Holds(trace, meta.done, meta.seed)
  /\ meta.schema = "v2" => \A f \in Sides : Holds(side[f], meta.done, meta.seed)

\* What a command knows of the dataset while nobody else can change it.
KnowsTheFiles(q) ==
  LET s == proc[q].seed
      n == proc[q].done
      Done(k) == Holds(side[Fields[k]], n, s)
  IN /\ proc[q].at \in {"alloc", "fresh", "create", "migrate", "publish", "capture", "checkpoint"}
        => s \in Seeds
     /\ proc[q].at = "fresh" => trace = Absent
     /\ proc[q].at \in {"fresh", "create"} => meta.schema = "none" /\ n = 0
     /\ proc[q].at = "fresh" => \A f \in Sides : side[f] = Absent
     /\ proc[q].at \in {"create", "migrate"}
        => /\ proc[q].todo \in 1 .. Len(Fields)
           /\ \A k \in 1 .. proc[q].todo - 1 : Done(k)
     /\ proc[q].at = "create" => \A k \in proc[q].todo .. Len(Fields) : side[Fields[k]] = Absent
     /\ proc[q].at = "migrate" => meta.schema = "legacy"
     /\ proc[q].at = "publish" => meta.schema # "v2" /\ \A k \in 1 .. Len(Fields) : Done(k)
     /\ proc[q].at \in {"create", "migrate", "publish"}
        => /\ trace # Absent /\ n = meta.done
           /\ meta.schema = "legacy" => s = meta.seed
     /\ proc[q].at \in {"capture", "checkpoint"}
        => /\ meta.schema = "v2" /\ s = meta.seed /\ meta.done <= n
           /\ Holds(trace, n, s) /\ \A f \in Sides : Holds(side[f], n, s)

\* What it knows of the certificates.
KnowsTheMarkers(q) ==
  LET v == proc[q].variant
      g == proc[q].gen
  IN /\ proc[q].at \notin Generating => g = 0
     /\ proc[q].at \in {"read", "arrays", "table", "report", "compare"} => comparison = NoComparison
     /\ proc[q].at \in {"arrays", "table", "report"}
        => report[v] = NoReport /\ proc[q].done <= meta.done
     /\ proc[q].at \in {"table", "report"} => artifact[v]["arrays"] = g
     /\ proc[q].at = "report" => artifact[v]["table"] = g
     /\ proc[q].at \in {"csvfile", "csvmarker"} => marker = 0
     /\ proc[q].at = "csvmarker" => csv = g

\* What it knows before it has looked at the files: it has no rows, and without a seed
\* of its own it takes the recorded one.
KnowsItsStart(q) ==
  /\ proc[q].at \in {"peek", "bench", "lock", "session", "alloc"} => proc[q].done = 0
  /\ proc[q].asked = Default
     => /\ proc[q].at = "peek" => proc[q].seed = Default
        /\ proc[q].at \in {"bench", "lock", "session"} /\ proc[q].seed # Default
           => meta.schema # "none" /\ proc[q].seed = meta.seed
        /\ proc[q].at = "alloc" /\ meta.schema # "none" => proc[q].seed = meta.seed
        /\ proc[q].at \notin {"mismatch", "mismatched"}

DInv ==
  /\ Typed /\ LockHeld /\ MetaSound /\ CertificatesAreTrue
  /\ \A q \in Process : KnowsTheFiles(q) /\ KnowsTheMarkers(q) /\ KnowsItsStart(q)

\* What the assumptions say of the numbers.
LEMMA Numbers ==
  /\ N \in Nat /\ N > 0 /\ Process \subseteq Nat /\ Nobody \notin Process
  /\ Default \notin Seeds /\ 1 \in Seeds /\ \A q \in Process : RandomSeed(q) \in Seeds
  BY DatasetAssumption DEF DatasetAssumption, Nobody, Default, Seeds, RandomSeed

\* A file of N rows is not an absent one.
LEMMA PresentFiles == \A f \in [1 .. N -> Seeds \cup {0}] : f # Absent
  <1> SUFFICES ASSUME NEW f \in [1 .. N -> Seeds \cup {0}], f = Absent PROVE FALSE
    OBVIOUS
  <1>1. DOMAIN f = 1 .. N /\ DOMAIN f = {}
    BY DEF Absent
  <1>2. 1 \in 1 .. N
    BY Numbers
  <1>3. QED
    BY <1>1, <1>2

-----------------------------------------------------------------------------
(* One more or less: a generation is always left.                          *)

\* A set with one more element is larger by at most one.
LEMMA OneMore ==
  ASSUME NEW S, IsFiniteSet(S), NEW x
  PROVE  /\ IsFiniteSet(S \cup {x}) /\ Cardinality(S \cup {x}) \in Nat
         /\ Cardinality(S \cup {x}) <= Cardinality(S) + 1
  <1>1. Cardinality(S) \in Nat
    BY FS_CardinalityType
  <1>2. IsFiniteSet(S \cup {x})
        /\ Cardinality(S \cup {x}) = IF x \in S THEN Cardinality(S) ELSE Cardinality(S) + 1
    BY FS_AddElement
  <1>3. QED
    BY <1>1, <1>2

\* The files name ten generations and each other process at most one.
LEMMA FreshExists ==
  ASSUME Typed, NEW q \in Process, proc[q].gen = 0
  PROVE  FreshGeneration \in Generations
  <1> DEFINE c == Cardinality(Process)
             gens == {proc[p].gen : p \in Process \ {q}}
             S0 == gens \cup {0}
             S1 == S0 \cup {csv}
             S2 == S1 \cup {marker}
             S3 == S2 \cup {artifact["raw"]["arrays"]}
             S4 == S3 \cup {artifact["raw"]["table"]}
             S5 == S4 \cup {artifact["aligned"]["arrays"]}
             S6 == S5 \cup {artifact["aligned"]["table"]}
             S7 == S6 \cup {report["raw"].gen}
             S8 == S7 \cup {report["aligned"].gen}
             S9 == S8 \cup {comparison["raw"]}
             S10 == S9 \cup {comparison["aligned"]}
  <1>1. c \in Nat /\ IsFiniteSet(Process \ {q}) /\ Cardinality(Process \ {q}) = c - 1 /\ c > 0
    <2>1. IsFiniteSet(Process) /\ c \in Nat
      BY DatasetAssumption, FS_CardinalityType DEF DatasetAssumption
    <2>2. IsFiniteSet(Process \ {q}) /\ Cardinality(Process \ {q}) = c - 1
      BY <2>1, FS_RemoveElement
    <2>3. c - 1 \in Nat
      BY <2>2, FS_CardinalityType
    <2>4. QED
      BY <2>1, <2>2, <2>3
  <1>2. IsFiniteSet(gens) /\ Cardinality(gens) <= c - 1
    <2> DEFINE f == [p \in Process \ {q} |-> proc[p].gen]
    <2>1. f \in Surjection(Process \ {q}, gens)
      BY Fun_IsSurj
    <2>2. QED
      BY <1>1, <2>1, FS_Surjection
  <1> HIDE DEF gens, S0, S1, S2, S3, S4, S5, S6, S7, S8, S9, S10
  <1>3. IsFiniteSet(S0) /\ Cardinality(S0) \in Nat /\ Cardinality(S0) <= c
    <2>1. IsFiniteSet(S0) /\ Cardinality(S0) \in Nat /\ Cardinality(S0) <= Cardinality(gens) + 1
      BY <1>2, OneMore DEF S0
    <2>2. Cardinality(gens) \in Nat
      BY <1>2, FS_CardinalityType
    <2>3. QED
      BY <1>1, <1>2, <2>1, <2>2
  <1>4. IsFiniteSet(S10) /\ Cardinality(S10) \in Nat /\ Cardinality(S10) <= c + 10
    <2>1. IsFiniteSet(S1) /\ Cardinality(S1) \in Nat /\ Cardinality(S1) <= Cardinality(S0) + 1
      BY <1>3, OneMore DEF S1
    <2>2. IsFiniteSet(S2) /\ Cardinality(S2) \in Nat /\ Cardinality(S2) <= Cardinality(S1) + 1
      BY <2>1, OneMore DEF S2
    <2>3. IsFiniteSet(S3) /\ Cardinality(S3) \in Nat /\ Cardinality(S3) <= Cardinality(S2) + 1
      BY <2>2, OneMore DEF S3
    <2>4. IsFiniteSet(S4) /\ Cardinality(S4) \in Nat /\ Cardinality(S4) <= Cardinality(S3) + 1
      BY <2>3, OneMore DEF S4
    <2>5. IsFiniteSet(S5) /\ Cardinality(S5) \in Nat /\ Cardinality(S5) <= Cardinality(S4) + 1
      BY <2>4, OneMore DEF S5
    <2>6. IsFiniteSet(S6) /\ Cardinality(S6) \in Nat /\ Cardinality(S6) <= Cardinality(S5) + 1
      BY <2>5, OneMore DEF S6
    <2>7. IsFiniteSet(S7) /\ Cardinality(S7) \in Nat /\ Cardinality(S7) <= Cardinality(S6) + 1
      BY <2>6, OneMore DEF S7
    <2>8. IsFiniteSet(S8) /\ Cardinality(S8) \in Nat /\ Cardinality(S8) <= Cardinality(S7) + 1
      BY <2>7, OneMore DEF S8
    <2>9. IsFiniteSet(S9) /\ Cardinality(S9) \in Nat /\ Cardinality(S9) <= Cardinality(S8) + 1
      BY <2>8, OneMore DEF S9
    <2>10. IsFiniteSet(S10) /\ Cardinality(S10) \in Nat /\ Cardinality(S10) <= Cardinality(S9) + 1
      BY <2>9, OneMore DEF S10
    <2>11. QED
      BY <1>1, <1>3, <2>1, <2>2, <2>3, <2>4, <2>5, <2>6, <2>7, <2>8, <2>9, <2>10
  <1>5. Used \subseteq S10
    BY DEF Used, Variants, Items, gens, S0, S1, S2, S3, S4, S5, S6, S7, S8, S9, S10
  <1>6. \E g \in Generations : g \notin Used
    <2> SUFFICES ASSUME Generations \subseteq S10 PROVE FALSE
      BY <1>5
    <2>1. IsFiniteSet(Generations) /\ Cardinality(Generations) = 10 + c
      BY <1>1, FS_Interval DEF Generations, c
    <2>2. 0 \in S10 /\ 0 \notin Generations
      BY <1>1 DEF Generations, c, S0, S1, S2, S3, S4, S5, S6, S7, S8, S9, S10
    <2>3. IsFiniteSet(Generations \cup {0}) /\ Cardinality(Generations \cup {0}) = 11 + c
      BY <1>1, <2>1, <2>2, FS_AddElement
    <2>4. Cardinality(Generations \cup {0}) <= Cardinality(S10)
      BY <1>4, <2>2, FS_Subset
    <2>5. Cardinality(S10) \in Nat
      BY <1>4, FS_CardinalityType
    <2>6. QED
      BY <1>1, <1>4, <2>3, <2>4, <2>5
  <1>7. QED
    BY <1>6 DEF FreshGeneration

-----------------------------------------------------------------------------
(* One process takes a step.                                               *)

Kept == UNCHANGED <<native, exports, analysis>>
OthersStay(q) == \A p \in Process : p # q => proc'[p] = proc[p]
SeedStays == meta.schema # "none" => meta'.schema # "none" /\ meta'.seed = meta.seed

\* The step changes no more of its process than where it is.
Moved(q) ==
  /\ proc' \in [Process -> Commands] /\ OthersStay(q)
  /\ proc'[q].asked = proc[q].asked /\ proc'[q].seed = proc[q].seed
  /\ proc'[q].done = proc[q].done /\ proc'[q].todo = proc[q].todo
  /\ proc'[q].gen = proc[q].gen /\ proc'[q].variant = proc[q].variant
  /\ proc'[q].alone = proc[q].alone /\ proc'[q].made = proc[q].made

\* Goto changes where the process is, and nothing else.
LEMMA GotoMoves ==
  ASSUME proc \in [Process -> Commands], NEW q \in Process, NEW p \in Holding \cup Elsewhere,
         Goto(q, p)
  PROVE  Moved(q) /\ proc'[q].at = p
  <1>1. proc[q] \in Commands /\ [proc[q] EXCEPT !.at = p] \in Commands
    BY DEF Commands
  <1>2. proc'[q] = [proc[q] EXCEPT !.at = p] /\ OthersStay(q)
    BY DEF Goto, OthersStay
  <1>3. proc' \in [Process -> Commands]
    BY <1>1 DEF Goto
  <1>4. QED
    BY <1>1, <1>2, <1>3 DEF Moved, Commands

\* A process that puts a record of its own in the place of the one before.
LEMMA ResetMoves ==
  ASSUME proc \in [Process -> Commands], NEW q \in Process, NEW r \in Commands,
         proc' = [proc EXCEPT ![q] = r]
  PROVE  proc' \in [Process -> Commands] /\ OthersStay(q) /\ proc'[q] = r
  BY DEF OthersStay

\* A process without a command has a record of the right type.
LEMMA IdleIsCommand == Idle \in Commands
  <1>1. [v \in Variants |-> NoReport] \in [Variants -> [gen : Generations \cup {0}, rows : 0 .. N]]
    BY Numbers DEF NoReport
  <1>2. QED
    BY <1>1, Numbers DEF Idle, Commands, Elsewhere, Variants, Default

\* Who has the lock after the step.
LEMMA LockStep ==
  ASSUME LockHeld, NEW q \in Process, OthersStay(q), lock \in Process \cup {Nobody},
         \/ UNCHANGED lock /\ (proc'[q].at \in Holding <=> proc[q].at \in Holding)
         \/ lock = Nobody /\ lock' = q /\ proc'[q].at \in Holding
         \/ lock = q /\ lock' = Nobody /\ proc'[q].at \notin Holding
  PROVE  LockHeld'
  BY Numbers DEF LockHeld, OthersStay

\* What the other processes know stays true: the files change only under the lock.
LEMMA OthersKnow ==
  ASSUME LockHeld, NEW q \in Process, OthersStay(q), lock = q \/ Kept, SeedStays,
         NEW p \in Process, p # q,
         KnowsTheFiles(p), KnowsTheMarkers(p), KnowsItsStart(p)
  PROVE  KnowsTheFiles(p)' /\ KnowsTheMarkers(p)' /\ KnowsItsStart(p)'
  <1>1. proc'[p] = proc[p]
    BY DEF OthersStay
  <1>2. CASE Kept
    <2>1. KnowsTheFiles(p)'
      BY <1>1, <1>2 DEF Kept, native, KnowsTheFiles, Holds
    <2>2. KnowsTheMarkers(p)'
      BY <1>1, <1>2 DEF Kept, exports, native, analysis, KnowsTheMarkers
    <2>3. KnowsItsStart(p)'
      BY <1>1, <1>2 DEF Kept, native, KnowsItsStart
    <2>4. QED
      BY <2>1, <2>2, <2>3
  <1>3. CASE lock = q
    <2>1. proc[p].at \notin Holding
      BY <1>3 DEF LockHeld
    <2>2. KnowsTheFiles(p)'
      BY <1>1, <2>1 DEF KnowsTheFiles, Holding
    <2>3. KnowsTheMarkers(p)'
      BY <1>1, <2>1 DEF KnowsTheMarkers, Holding
    <2>4. KnowsItsStart(p)'
      BY <1>1, <2>1 DEF KnowsItsStart, Holding, SeedStays
    <2>5. QED
      BY <2>2, <2>3, <2>4
  <1>4. QED
    BY <1>2, <1>3

\* The parts of the invariant, put together again.
LEMMA Together ==
  ASSUME DInv, NEW q \in Process, Typed', OthersStay(q), LockHeld', lock = q \/ Kept, SeedStays,
         MetaSound', CertificatesAreTrue',
         KnowsTheFiles(q)', KnowsTheMarkers(q)', KnowsItsStart(q)'
  PROVE  DInv'
  <1>1. ASSUME NEW p \in Process
        PROVE  KnowsTheFiles(p)' /\ KnowsTheMarkers(p)' /\ KnowsItsStart(p)'
    <2>1. CASE p = q
      BY <2>1
    <2>2. CASE p # q
      BY <2>2, OthersKnow DEF DInv
    <2>3. QED
      BY <2>1, <2>2
  <1>2. QED
    BY <1>1 DEF DInv

\* A step that leaves all files alone.
LEMMA FilesKept ==
  ASSUME DInv, Kept, proc' \in [Process -> Commands], bench' \in Process \cup {Nobody},
         lock' \in Process \cup {Nobody}, commands' \in 0 .. MaxCommands, stops' \in 0 .. MaxStops
  PROVE  Typed' /\ MetaSound' /\ CertificatesAreTrue' /\ SeedStays
  <1> USE DEF Kept, native, exports, analysis
  <1>1. Typed'
    BY DEF DInv, Typed
  <1>2. MetaSound'
    BY DEF DInv, MetaSound, Holds
  <1>3. CertificatesAreTrue'
    BY DEF DInv, CertificatesAreTrue, MarkerCertifies, CsvAccepted, ReportBindsArtifacts,
           ComparisonBindsReports
  <1>4. SeedStays
    BY DEF SeedStays
  <1>5. QED
    BY <1>1, <1>2, <1>3, <1>4

\* A step of a process that neither has the lock nor takes it.
LEMMA QuietStep ==
  ASSUME DInv, NEW q \in Process, Kept, UNCHANGED lock,
         proc' \in [Process -> Commands], OthersStay(q), bench' \in Process \cup {Nobody},
         commands' \in 0 .. MaxCommands, stops' \in 0 .. MaxStops,
         proc[q].at \in Elsewhere, proc'[q].at \in Elsewhere, proc'[q].gen = 0, KnowsItsStart(q)'
  PROVE  DInv'
  <1>1. Typed' /\ MetaSound' /\ CertificatesAreTrue' /\ SeedStays
    BY FilesKept DEF DInv, Typed
  <1>2. LockHeld'
    <2>1. proc[q].at \notin Holding /\ proc'[q].at \notin Holding
      BY DEF Elsewhere, Holding
    <2>2. QED
      BY <2>1, LockStep DEF DInv, Typed
  <1>3. KnowsTheFiles(q)' /\ KnowsTheMarkers(q)'
    BY DEF KnowsTheFiles, KnowsTheMarkers, Elsewhere
  <1>4. QED
    BY <1>1, <1>2, <1>3, Together

\* A command is given.
LEMMA BeginStep == ASSUME DInv, NEW q \in Process, Begin(q) PROVE DInv'
  <1> USE DatasetAssumption DEF DatasetAssumption, At
  <1>1. PICK r \in Commands : /\ proc' = [proc EXCEPT ![q] = r]
                              /\ r.at \in {"peek", "analyse", "h5", "csv"} /\ r.gen = 0
                              /\ r.at = "peek" => r.asked = r.seed /\ r.done = 0
    <2>1. \A s \in {Default, 1} :
            /\ [Idle EXCEPT !.at = "peek", !.asked = s, !.seed = s] \in Commands
            /\ [Idle EXCEPT !.at = "peek", !.asked = s, !.seed = s].gen = 0
      BY IdleIsCommand, Numbers DEF Commands, Elsewhere, Idle
    <2>2. \A v \in Variants :
            /\ [Idle EXCEPT !.at = "analyse", !.alone = TRUE, !.variant = v] \in Commands
            /\ [Idle EXCEPT !.at = "analyse", !.alone = TRUE, !.variant = v].gen = 0
      BY IdleIsCommand DEF Commands, Elsewhere, Idle
    <2>3. \A e \in {"h5", "csv"} : /\ [Idle EXCEPT !.at = e, !.alone = TRUE] \in Commands
                                   /\ [Idle EXCEPT !.at = e, !.alone = TRUE].gen = 0
      BY IdleIsCommand DEF Commands, Elsewhere, Idle
    <2>4. CASE \E s \in {Default, 1} :
                 proc' = [proc EXCEPT ![q] = [Idle EXCEPT !.at = "peek", !.asked = s, !.seed = s]]
      BY <2>1, <2>4 DEF Idle
    <2>5. CASE \E v \in Variants :
                 proc' = [proc EXCEPT ![q] = [Idle EXCEPT !.at = "analyse", !.alone = TRUE,
                                                          !.variant = v]]
      BY <2>2, <2>5 DEF Idle
    <2>6. CASE \E e \in {"h5", "csv"} :
                 proc' = [proc EXCEPT ![q] = [Idle EXCEPT !.at = e, !.alone = TRUE]]
      BY <2>3, <2>6 DEF Idle
    <2>7. QED
      BY <2>4, <2>5, <2>6 DEF Begin
  <1>2. proc' \in [Process -> Commands] /\ OthersStay(q) /\ proc'[q] = r
    BY <1>1, ResetMoves DEF DInv, Typed
  <1>3. /\ Kept /\ UNCHANGED <<lock, bench, stops>> /\ commands' = commands + 1
        /\ commands < MaxCommands /\ proc[q].at = "idle"
    BY DEF Begin, Kept, locks
  <1>4. KnowsItsStart(q)'
    BY <1>1, <1>2 DEF KnowsItsStart
  <1>5. QED
    BY <1>1, <1>2, <1>3, <1>4, QuietStep DEF DInv, Typed, Elsewhere

\* acquire.py looks at the metadata.
LEMMA PeekStep == ASSUME DInv, NEW q \in Process, Peek(q) PROVE DInv'
  <1> DEFINE seed == IF proc[q].seed = Default THEN PeekedSeed(q) ELSE proc[q].seed
  <1>1. PICK p \in {"mismatch", "finalise", "bench", "end"} :
          /\ proc' = [proc EXCEPT ![q].at = p, ![q].seed = seed]
          /\ p = "mismatch" => meta.schema = "v2" /\ seed # meta.seed
    BY DEF Peek
  <1>2. proc[q] \in Commands /\ seed \in Seeds \cup {Default} /\ proc[q].gen = 0
    BY DEF DInv, Typed, Commands, PeekedSeed, Default, KnowsTheMarkers, Generating, Peek, At
  <1>3. [proc[q] EXCEPT !.at = p, !.seed = seed] \in Commands
    BY ZenonT(60), <1>2 DEF Commands, Elsewhere
  <1>4. /\ proc' \in [Process -> Commands] /\ OthersStay(q)
        /\ proc'[q] = [proc[q] EXCEPT !.at = p, !.seed = seed]
    BY <1>1, <1>3 DEF DInv, Typed, OthersStay
  <1>5. /\ Kept /\ UNCHANGED <<lock, bench, commands, stops>> /\ proc[q].at = "peek"
    BY DEF Peek, Kept, locks, history, At
  <1>6. KnowsItsStart(q)'
    <2>1. /\ proc'[q].at = p /\ proc'[q].seed = seed /\ proc'[q].asked = proc[q].asked
          /\ proc'[q].done = 0
      BY <1>2, <1>4, <1>5 DEF Commands, DInv, KnowsItsStart
    <2>2. proc[q].asked = Default
          => seed = IF meta.schema = "none" THEN Default ELSE meta.seed
      BY <1>5 DEF DInv, KnowsItsStart, PeekedSeed
    <2> HIDE DEF seed
    <2>3. QED
      BY <1>1, <1>5, <2>1, <2>2 DEF KnowsItsStart, Kept, native
  <1>7. proc'[q].at = p /\ proc'[q].gen = 0
    BY <1>2, <1>4 DEF Commands
  <1>8. QED
    BY <1>4, <1>5, <1>6, <1>7, QuietStep DEF DInv, Typed, Elsewhere

\* Commands that only move on, outside of the lock.
LEMMA OutsideStep ==
  ASSUME DInv, NEW q \in Process, Kept, UNCHANGED <<lock, commands, stops>>, Moved(q),
         bench' \in Process \cup {Nobody}, proc[q].at \in Elsewhere, proc'[q].at \in Elsewhere,
         \/ proc'[q].at \in {"end", "busy", "analyse", "h5"}
         \/ proc'[q].at = "lock" /\ proc[q].at = "bench"
  PROVE  DInv'
  <1>1. proc'[q].gen = 0
    BY DEF Moved, DInv, KnowsTheMarkers, Generating, Elsewhere
  <1>2. KnowsItsStart(q)'
    BY DEF Moved, DInv, KnowsItsStart, Kept, native
  <1>3. QED
    BY <1>1, <1>2, QuietStep DEF DInv, Typed, Moved

\* A complete dataset is opened without a lock.
LEMMA FinaliseStep == ASSUME DInv, NEW q \in Process, Finalise(q) PROVE DInv'
  <1>1. PICK p \in {"analyse", "end"} : Goto(q, p)
    BY DEF Finalise, Elsewhere
  <1>2. Moved(q) /\ proc'[q].at = p
    BY <1>1, GotoMoves DEF DInv, Typed, Elsewhere
  <1>3. QED
    BY <1>2, OutsideStep DEF Finalise, At, DInv, Typed, Kept, locks, history, Elsewhere

\* The bench is taken, or is busy.
LEMMA TakeBenchStep == ASSUME DInv, NEW q \in Process, TakeBench(q) PROVE DInv'
  <1>1. PICK p \in {"lock", "end"} : Goto(q, p)
    BY DEF TakeBench
  <1>2. Moved(q) /\ proc'[q].at = p
    BY <1>1, GotoMoves DEF DInv, Typed, Elsewhere
  <1>3. /\ Kept /\ UNCHANGED <<lock, commands, stops>> /\ proc[q].at = "bench"
        /\ bench' \in Process \cup {Nobody}
    BY DEF TakeBench, At, DInv, Typed, Kept, history
  <1>4. QED
    BY <1>2, <1>3, OutsideStep DEF Elsewhere

\* The bench is given back.
LEMMA UnbenchStep == ASSUME DInv, NEW q \in Process, Unbench(q) PROVE DInv'
  <1>1. PICK p \in {"analyse", "end"} : Goto(q, p)
    BY DEF Unbench
  <1>2. Moved(q) /\ proc'[q].at = p
    BY <1>1, GotoMoves DEF DInv, Typed, Elsewhere
  <1>3. /\ Kept /\ UNCHANGED <<lock, commands, stops>> /\ proc[q].at \in {"unbench", "mismatch"}
        /\ bench' \in Process \cup {Nobody}
    BY DEF Unbench, At, DInv, Typed, Kept, history
  <1>4. QED
    BY <1>2, <1>3, OutsideStep DEF Elsewhere

\* A process that is done, or dead, is idle again.
LEMMA ResetStep ==
  ASSUME DInv, NEW q \in Process, Kept, proc' = [proc EXCEPT ![q] = Idle],
         lock' = IF lock = q THEN Nobody ELSE lock, bench' \in Process \cup {Nobody},
         commands' \in 0 .. MaxCommands, stops' \in 0 .. MaxStops
  PROVE  DInv'
  <1>1. /\ proc' \in [Process -> Commands] /\ OthersStay(q)
        /\ proc'[q].at = "idle" /\ proc'[q].gen = 0
    BY ResetMoves, IdleIsCommand DEF DInv, Typed, Idle
  <1>2. Typed' /\ MetaSound' /\ CertificatesAreTrue' /\ SeedStays
    BY <1>1, FilesKept DEF DInv, Typed
  <1>3. LockHeld'
    BY <1>1, LockStep DEF DInv, Typed, Holding, LockHeld
  <1>4. KnowsTheFiles(q)' /\ KnowsTheMarkers(q)' /\ KnowsItsStart(q)'
    BY <1>1 DEF KnowsTheFiles, KnowsTheMarkers, KnowsItsStart
  <1>5. QED
    BY <1>1, <1>2, <1>3, <1>4, Together

\* A command is over.
LEMMA EndStep == ASSUME DInv, NEW q \in Process, End(q) PROVE DInv'
  <1>1. lock # q
    BY DEF End, DInv, LockHeld, Holding
  <1>2. QED
    BY <1>1, ResetStep DEF End, DInv, Typed, Kept, locks, history

\* A process dies, and its locks go.
LEMMA KillStep == ASSUME DInv, NEW q \in Process, Kill(q) PROVE DInv'
  <1>1. stops' \in 0 .. MaxStops
    BY DatasetAssumption DEF DatasetAssumption, Kill, Stopped, DInv, Typed
  <1>2. Kept /\ bench' \in Process \cup {Nobody} /\ UNCHANGED commands
    BY DEF Kill, Kept, DInv, Typed
  <1>3. QED
    BY <1>1, <1>2, ResetStep DEF Kill, DInv, Typed

\* A process that takes the lock and has not looked at the files yet.
LEMMA TakenStep ==
  ASSUME DInv, NEW q \in Process, Kept, UNCHANGED <<commands, stops>>, Moved(q),
         bench' \in Process \cup {Nobody}, lock = Nobody, lock' = q,
         proc'[q].at \in {"session", "invalidate", "h5write", "csvwrite"},
         proc'[q].at = "session" => proc[q].at = "lock"
  PROVE  DInv'
  <1>1. Typed' /\ MetaSound' /\ CertificatesAreTrue' /\ SeedStays
    BY FilesKept DEF DInv, Typed, Moved
  <1>2. LockHeld'
    BY LockStep DEF DInv, Typed, Moved, Holding
  <1>3. KnowsTheFiles(q)' /\ KnowsTheMarkers(q)'
    <2>1. proc[q].at \notin Holding
      BY Numbers DEF DInv, LockHeld
    <2>2. proc'[q].gen = 0
      BY <2>1 DEF DInv, KnowsTheMarkers, Generating, Holding, Moved
    <2>3. QED
      BY <2>2 DEF KnowsTheFiles, KnowsTheMarkers, Generating
  <1>4. KnowsItsStart(q)'
    BY DEF DInv, KnowsItsStart, Moved, Kept, native
  <1>5. QED
    BY <1>1, <1>2, <1>3, <1>4, Together DEF Moved

\* The session takes the dataset, or finds it busy.
LEMMA TakeDatasetStep == ASSUME DInv, NEW q \in Process, TakeDataset(q) PROVE DInv'
  <1>1. /\ Kept /\ UNCHANGED <<commands, stops>> /\ proc[q].at = "lock"
        /\ bench' \in Process \cup {Nobody}
    BY DEF TakeDataset, At, DInv, Typed, Kept, history
  <1>2. CASE lock = Nobody
    <2>1. Moved(q) /\ proc'[q].at = "session" /\ lock' = q
      BY <1>2, GotoMoves DEF TakeDataset, TakeLock, DInv, Typed, Holding
    <2>2. QED
      BY <1>1, <1>2, <2>1, TakenStep
  <1>3. CASE lock # Nobody
    <2>1. Moved(q) /\ proc'[q].at = "busy" /\ lock' = lock
      BY <1>3, GotoMoves DEF TakeDataset, TakeLock, DInv, Typed, Elsewhere
    <2>2. QED
      BY <1>1, <2>1, OutsideStep DEF Elsewhere
  <1>4. QED
    BY <1>2, <1>3

\* The analysis takes the dataset, or finds it busy.
LEMMA TakeForAnalysisStep == ASSUME DInv, NEW q \in Process, TakeForAnalysis(q) PROVE DInv'
  <1>1. /\ Kept /\ UNCHANGED <<commands, stops>> /\ proc[q].at = "analyse"
        /\ bench' \in Process \cup {Nobody}
    BY DEF TakeForAnalysis, At, DInv, Typed, Kept, history
  <1>2. CASE lock = Nobody
    <2>1. Moved(q) /\ proc'[q].at = "invalidate" /\ lock' = q
      BY <1>2, GotoMoves DEF TakeForAnalysis, TakeLock, DInv, Typed, Holding
    <2>2. QED
      BY <1>1, <1>2, <2>1, TakenStep
  <1>3. CASE lock # Nobody
    <2>1. PICK p \in {"busy", "h5"} : Goto(q, p)
      BY <1>3 DEF TakeForAnalysis, TakeLock
    <2>2. Moved(q) /\ proc'[q].at = p /\ lock' = lock
      BY <1>3, <2>1, GotoMoves DEF TakeForAnalysis, TakeLock, DInv, Typed, Elsewhere
    <2>3. QED
      BY <1>1, <2>2, OutsideStep DEF Elsewhere
  <1>4. QED
    BY <1>2, <1>3

\* An export takes the dataset, or finds it busy.
LEMMA TakeForExportStep == ASSUME DInv, NEW q \in Process, TakeForExport(q) PROVE DInv'
  <1>1. /\ Kept /\ UNCHANGED <<commands, stops>> /\ proc[q].at \in {"h5", "csv"}
        /\ bench' \in Process \cup {Nobody}
    BY DEF TakeForExport, At, DInv, Typed, Kept, history
  <1>2. CASE lock = Nobody
    <2>1. PICK p \in {"h5write", "csvwrite"} : Goto(q, p)
      BY <1>2 DEF TakeForExport, TakeLock
    <2>2. Moved(q) /\ proc'[q].at = p /\ lock' = q
      BY <1>2, <2>1, GotoMoves DEF TakeForExport, TakeLock, DInv, Typed, Holding
    <2>3. QED
      BY <1>1, <1>2, <2>2, TakenStep
  <1>3. CASE lock # Nobody
    <2>1. Moved(q) /\ proc'[q].at = "busy" /\ lock' = lock
      BY <1>3, GotoMoves DEF TakeForExport, TakeLock, DInv, Typed, Elsewhere
    <2>2. QED
      BY <1>1, <2>1, OutsideStep DEF Elsewhere
  <1>4. QED
    BY <1>2, <1>3

-----------------------------------------------------------------------------
(* The session: creation, migration, rows.                                 *)

\* The sidecars are the fields in their order, each once.
LEMMA FieldsAndSides ==
  /\ Len(Fields) \in Nat /\ Len(Fields) > 0
  /\ \A k \in 1 .. Len(Fields) : Fields[k] \in Sides
  /\ \A f \in Sides : \E k \in 1 .. Len(Fields) : f = Fields[k]
  /\ \A j, k \in 1 .. Len(Fields) : Fields[j] = Fields[k] => j = k
  BY DatasetAssumption DEF DatasetAssumption, Sides

\* A new file has all its rows, empty.
LEMMA BlankFile == Blank \in [1 .. N -> Seeds \cup {0}] /\ Blank \in Files /\ Blank # Absent
  <1>1. Blank \in [1 .. N -> Seeds \cup {0}]
    BY DEF Blank
  <1>2. QED
    BY <1>1, PresentFiles DEF Files

\* A step under the lock, or the one that gives it back.
LEMMA HolderStep ==
  ASSUME DInv, NEW q \in Process, lock = q, Typed', OthersStay(q),
         \/ lock' = q /\ proc'[q].at \in Holding
         \/ lock' = Nobody /\ proc'[q].at \notin Holding,
         SeedStays, MetaSound', CertificatesAreTrue',
         KnowsTheFiles(q)', KnowsTheMarkers(q)', KnowsItsStart(q)'
  PROVE  DInv'
  <1>1. LockHeld'
    BY LockStep DEF DInv, LockHeld
  <1>2. QED
    BY <1>1, Together

\* Who is at a step of the session has the lock.
LEMMA HasTheLock ==
  ASSUME DInv, NEW q \in Process, proc[q].at \in Holding
  PROVE  /\ lock = q /\ proc[q] \in Commands
         /\ KnowsTheFiles(q) /\ KnowsTheMarkers(q) /\ KnowsItsStart(q)
  BY DEF DInv, LockHeld, Typed

\* The session settles its seed.
LEMMA ResolveSeedStep == ASSUME DInv, NEW q \in Process, ResolveSeed(q) PROVE DInv'
  <1> DEFINE s == IF proc[q].seed # Default THEN proc[q].seed
                  ELSE IF meta.schema = "none" THEN RandomSeed(q) ELSE meta.seed
             r == [proc[q] EXCEPT !.at = "alloc", !.seed = s]
  <1>1. /\ proc[q].at = "session" /\ lock = q /\ proc[q] \in Commands
        /\ KnowsTheMarkers(q) /\ KnowsItsStart(q)
    BY HasTheLock DEF ResolveSeed, At, Holding
  <1>2. s \in Seeds
    BY <1>1, Numbers DEF Commands, DInv, MetaSound, Default
  <1>3. r \in Commands /\ proc' = [proc EXCEPT ![q] = r]
    BY <1>1, <1>2 DEF ResolveSeed, Commands, Holding
  <1>4. proc' \in [Process -> Commands] /\ OthersStay(q) /\ proc'[q] = r
    BY <1>3, ResetMoves DEF DInv, Typed
  <1>5. /\ r.at = "alloc" /\ r.seed = s /\ r.asked = proc[q].asked /\ r.done = proc[q].done
        /\ r.gen = proc[q].gen
    BY <1>1 DEF Commands
  <1>6. Kept /\ UNCHANGED <<locks, history>>
    BY DEF ResolveSeed, Kept
  <1>7. Typed' /\ MetaSound' /\ CertificatesAreTrue' /\ SeedStays
    BY <1>4, <1>6, FilesKept DEF DInv, Typed, locks, history
  <1> HIDE DEF r
  <1>8. KnowsTheFiles(q)' /\ KnowsTheMarkers(q)'
    BY <1>1, <1>2, <1>4, <1>5, Numbers DEF KnowsTheFiles, KnowsTheMarkers, Generating
  <1>9. KnowsItsStart(q)'
    BY <1>1, <1>4, <1>5, <1>6 DEF KnowsItsStart, Kept, native
  <1>10. QED
    BY <1>1, <1>4, <1>5, <1>6, <1>7, <1>8, <1>9, HolderStep DEF Holding, locks

\* The session looks at what is there.
LEMMA AllocStep == ASSUME DInv, NEW q \in Process, Alloc(q) PROVE DInv'
  <1>1. /\ proc[q].at = "alloc" /\ lock = q /\ proc[q] \in Commands
        /\ KnowsTheFiles(q) /\ KnowsTheMarkers(q) /\ KnowsItsStart(q)
    BY HasTheLock DEF Alloc, At, Holding
  <1>2. Kept /\ UNCHANGED <<locks, history>>
    BY DEF Alloc, Kept
  <1>3. meta.done \in 0 .. N /\ proc[q].done = 0 /\ proc[q].gen = 0 /\ proc[q].seed \in Seeds
    BY <1>1 DEF DInv, Typed, KnowsItsStart, KnowsTheMarkers, KnowsTheFiles, Generating
  <1>4. PICK p \in Holding, n \in 0 .. N, t \in Nat :
          /\ proc' = [proc EXCEPT ![q] = [proc[q] EXCEPT !.at = p, !.done = n, !.todo = t]]
          /\ p \in {"release", "mismatched", "fresh", "capture", "migrate"}
          /\ p = "fresh" => n = 0 /\ trace = Absent /\ meta.schema = "none" /\ NoOrphans
          /\ p = "mismatched" => meta.schema # "none" /\ ~SettingsMatch(q)
          /\ p = "capture" => SettingsMatch(q) /\ meta.schema = "v2" /\ n = meta.done
          /\ p = "migrate" => /\ SettingsMatch(q) /\ meta.schema = "legacy" /\ n = meta.done
                              /\ trace # Absent /\ t = 1
    <2>1. CASE \E p \in {"release", "mismatched", "fresh"} : Goto(q, p)
               /\ (p = "fresh" => trace = Absent /\ meta.schema = "none" /\ NoOrphans)
               /\ (p = "mismatched" => meta.schema # "none" /\ ~SettingsMatch(q))
      <3>1. PICK p \in {"release", "mismatched", "fresh"} :
              /\ Goto(q, p)
              /\ p = "fresh" => trace = Absent /\ meta.schema = "none" /\ NoOrphans
              /\ p = "mismatched" => meta.schema # "none" /\ ~SettingsMatch(q)
        BY <2>1
      <3>2. proc' = [proc EXCEPT ![q] = [proc[q] EXCEPT !.at = p, !.done = proc[q].done,
                                                        !.todo = proc[q].todo]]
        BY <1>1, <3>1 DEF Goto, Commands
      <3>3. p \in Holding /\ proc[q].done \in 0 .. N /\ proc[q].todo \in Nat
        BY <1>1 DEF Commands, Holding
      <3>4. QED
        BY <1>3, <3>1, <3>2, <3>3
    <2>2. CASE /\ SettingsMatch(q) /\ meta.schema = "v2"
               /\ proc' = [proc EXCEPT ![q].at = "capture", ![q].done = ResumeIndex]
      <3>1. proc' = [proc EXCEPT ![q] = [proc[q] EXCEPT !.at = "capture", !.done = meta.done,
                                                        !.todo = proc[q].todo]]
        BY <1>1, <2>2 DEF Commands, ResumeIndex
      <3>2. "capture" \in Holding /\ proc[q].todo \in Nat
        BY <1>1 DEF Commands, Holding
      <3>3. \E n \in 0 .. N, t \in Nat :
              /\ proc' = [proc EXCEPT ![q] = [proc[q] EXCEPT !.at = "capture", !.done = n,
                                                             !.todo = t]]
              /\ n = meta.done
        BY <1>3, <3>1, <3>2
      <3>4. QED
        BY <2>2, <3>2, <3>3
    <2>3. CASE /\ SettingsMatch(q) /\ meta.schema = "legacy" /\ trace # Absent
               /\ proc' = [proc EXCEPT ![q].at = "migrate", ![q].done = meta.done, ![q].todo = 1]
      <3>1. proc' = [proc EXCEPT ![q] = [proc[q] EXCEPT !.at = "migrate", !.done = meta.done,
                                                        !.todo = 1]]
        BY <1>1, <2>3 DEF Commands
      <3>2. "migrate" \in Holding
        BY DEF Holding
      <3>3. QED
        BY <1>3, <2>3, <3>1, <3>2
    <2>4. QED
      BY <2>1, <2>2, <2>3 DEF Alloc
  <1> DEFINE r == [proc[q] EXCEPT !.at = p, !.done = n, !.todo = t]
  <1>5. /\ r \in Commands /\ r.at = p /\ r.done = n /\ r.todo = t /\ r.seed = proc[q].seed
        /\ r.gen = 0 /\ r.asked = proc[q].asked
    BY <1>1, <1>3 DEF Commands
  <1>6. proc' \in [Process -> Commands] /\ OthersStay(q) /\ proc'[q] = r
    BY <1>4, <1>5, ResetMoves DEF DInv, Typed
  <1>7. Typed' /\ MetaSound' /\ CertificatesAreTrue' /\ SeedStays
    BY <1>2, <1>6, FilesKept DEF DInv, Typed, locks, history
  <1> HIDE DEF r
  <1>8. KnowsTheFiles(q)'
    <2>1. CASE p = "fresh"
      BY <1>2, <1>3, <1>4, <1>5, <1>6, <2>1 DEF KnowsTheFiles, Kept, native, NoOrphans
    <2>2. CASE p = "capture"
      BY <1>2, <1>3, <1>4, <1>5, <1>6, <2>2
      DEF KnowsTheFiles, Kept, native, SettingsMatch, DInv, MetaSound
    <2>3. CASE p = "migrate"
      BY <1>2, <1>3, <1>4, <1>5, <1>6, <2>3, FieldsAndSides
      DEF KnowsTheFiles, Kept, native, SettingsMatch
    <2>4. CASE p \in {"release", "mismatched"}
      BY <1>5, <1>6, <2>4 DEF KnowsTheFiles
    <2>5. QED
      BY <1>4, <2>1, <2>2, <2>3, <2>4
  <1>9. KnowsTheMarkers(q)' /\ KnowsItsStart(q)'
    BY <1>1, <1>3, <1>4, <1>5, <1>6
    DEF KnowsTheMarkers, Generating, KnowsItsStart, SettingsMatch
  <1>10. QED
    BY <1>1, <1>2, <1>5, <1>6, <1>7, <1>8, <1>9, HolderStep DEF locks

\* A step of the session changes the native files only, and never takes rows back.
LEMMA SessionStep ==
  ASSUME DInv, NEW q \in Process, UNCHANGED <<exports, analysis, locks, history>>,
         proc[q].at \in {"fresh", "create", "migrate", "publish", "capture", "checkpoint"},
         proc' \in [Process -> Commands], OthersStay(q), proc'[q].gen = proc[q].gen,
         proc'[q].at \in {"create", "migrate", "publish", "capture", "checkpoint", "release"},
         trace' \in Files, side' \in [Sides -> Files], meta.done <= meta'.done,
         meta' \in [schema : {"none", "legacy", "v2"}, done : 0 .. N, seed : Seeds \cup {0}],
         SeedStays, MetaSound', KnowsTheFiles(q)'
  PROVE  DInv'
  <1>1. lock = q /\ lock' = q /\ KnowsTheMarkers(q)
    BY HasTheLock DEF Holding, locks
  <1>2. Typed'
    BY DEF DInv, Typed, exports, analysis, locks, history
  <1>3. CertificatesAreTrue'
    BY DEF DInv, exports, analysis, CertificatesAreTrue, MarkerCertifies, CsvAccepted,
           ReportBindsArtifacts, ComparisonBindsReports
  <1>4. KnowsTheMarkers(q)' /\ KnowsItsStart(q)'
    BY <1>1 DEF KnowsTheMarkers, KnowsItsStart, Generating
  <1>5. proc'[q].at \in Holding
    BY DEF Holding
  <1>6. QED
    BY <1>1, <1>2, <1>3, <1>4, <1>5, HolderStep

\* A creation writes the traces.
LEMMA WriteTraceStep == ASSUME DInv, NEW q \in Process, WriteTrace(q) PROVE DInv'
  <1> DEFINE r == [proc[q] EXCEPT !.at = "create", !.todo = 1]
  <1>1. /\ proc[q].at = "fresh" /\ proc[q] \in Commands /\ KnowsTheFiles(q)
    BY HasTheLock DEF WriteTrace, At, Holding
  <1>2. /\ r \in Commands /\ r.at = "create" /\ r.todo = 1 /\ r.done = proc[q].done
        /\ r.seed = proc[q].seed /\ r.gen = proc[q].gen
    BY <1>1 DEF Commands, Holding
  <1>3. proc' = [proc EXCEPT ![q] = r]
    BY <1>1 DEF WriteTrace, Commands
  <1> HIDE DEF r
  <1>4. proc' \in [Process -> Commands] /\ OthersStay(q) /\ proc'[q] = r
    BY <1>2, <1>3, ResetMoves DEF DInv, Typed
  <1>5. trace' = Blank /\ UNCHANGED <<side, meta, exports, analysis, locks, history>>
    BY DEF WriteTrace
  <1>6. KnowsTheFiles(q)'
    BY <1>1, <1>2, <1>4, <1>5, BlankFile, FieldsAndSides DEF KnowsTheFiles, DInv, MetaSound
  <1>7. SeedStays /\ MetaSound'
    BY <1>1, <1>5 DEF SeedStays, DInv, MetaSound, KnowsTheFiles
  <1>8. QED
    BY <1>1, <1>2, <1>4, <1>5, <1>6, <1>7, BlankFile, SessionStep DEF DInv, Typed

\* A creation or a migration writes the next sidecar.
LEMMA WriteSidecarStep == ASSUME DInv, NEW q \in Process, WriteSidecar(q) PROVE DInv'
  <1> DEFINE n == proc[q].done
             s == proc[q].seed
             k == proc[q].todo
             file == IF At(q, "create") THEN Blank
                     ELSE [j \in 1 .. N |-> IF j <= n THEN meta.seed ELSE 0]
             r == [proc[q] EXCEPT !.at = AfterSidecar(q), !.todo = k + 1]
  <1>1. /\ proc[q].at \in {"create", "migrate"} /\ proc[q] \in Commands /\ KnowsTheFiles(q)
    BY HasTheLock DEF WriteSidecar, Holding
  <1>2. /\ k \in 1 .. Len(Fields) /\ k \in Nat /\ n \in 0 .. N /\ s \in Seeds
        /\ AfterSidecar(q) \in {"create", "migrate", "publish"}
        /\ AfterSidecar(q) = IF k < Len(Fields) THEN proc[q].at ELSE "publish"
    BY <1>1 DEF KnowsTheFiles, AfterSidecar, Commands
  <1>3. /\ r \in Commands /\ r.at = AfterSidecar(q) /\ r.todo = k + 1 /\ r.done = n /\ r.seed = s
        /\ r.gen = proc[q].gen
    <2>1. AfterSidecar(q) \in Holding /\ k + 1 \in Nat
      BY <1>2 DEF Holding
    <2>2. QED
      BY <1>1, <2>1 DEF Commands
  <1>4. proc' = [proc EXCEPT ![q] = r]
    BY <1>1 DEF WriteSidecar, Commands
  <1>5. proc' \in [Process -> Commands] /\ OthersStay(q) /\ proc'[q] = r
    <2> HIDE DEF r
    <2>1. QED
      BY <1>3, <1>4, ResetMoves DEF DInv, Typed
  <1>6. /\ side' = [side EXCEPT ![Fields[k]] = file]
        /\ UNCHANGED <<trace, meta, exports, analysis, locks, history>>
    BY DEF WriteSidecar
  <1>7. file \in [1 .. N -> Seeds \cup {0}] /\ Holds(file, n, s)
    <2>1. CASE At(q, "create")
      BY <1>1, <2>1, BlankFile DEF At, Holds, KnowsTheFiles
    <2>2. CASE ~At(q, "create")
      <3>1. meta.seed = s
        BY <1>1, <2>2 DEF At, KnowsTheFiles
      <3>2. file \in [1 .. N -> Seeds \cup {0}]
        BY <1>2, <2>2, <3>1
      <3>3. \A j \in 1 .. n : file[j] = s
        BY <1>2, <2>2, <3>1, Numbers
      <3>4. QED
        BY <3>2, <3>3, PresentFiles DEF Holds
    <2>3. QED
      BY <2>1, <2>2
  <1> HIDE DEF r, file
  <1>8. /\ side' \in [Sides -> Files] /\ side'[Fields[k]] = file
        /\ \A f \in Sides : f # Fields[k] => side'[f] = side[f]
    BY <1>2, <1>6, <1>7, FieldsAndSides DEF DInv, Typed, Files
  <1>9. KnowsTheFiles(q)'
    <2>1. \A j \in 1 .. k : Holds(side'[Fields[j]], n, s)
      BY <1>1, <1>2, <1>7, <1>8, FieldsAndSides DEF KnowsTheFiles
    <2>2. proc[q].at = "create" => \A j \in k + 1 .. Len(Fields) : side'[Fields[j]] = Absent
      BY <1>1, <1>2, <1>8, FieldsAndSides DEF KnowsTheFiles
    <2>3. CASE k < Len(Fields)
      <3>1. r.at = proc[q].at /\ k + 1 \in 1 .. Len(Fields) /\ k + 1 - 1 = k
        BY <1>2, <1>3, <2>3, FieldsAndSides
      <3>2. QED
        BY <1>1, <1>3, <1>5, <1>6, <2>1, <2>2, <3>1 DEF KnowsTheFiles
    <2>4. CASE ~(k < Len(Fields))
      <3>1. r.at = "publish" /\ k = Len(Fields)
        BY <1>2, <1>3, <2>4, FieldsAndSides
      <3>2. QED
        BY <1>1, <1>3, <1>5, <1>6, <2>1, <3>1 DEF KnowsTheFiles
    <2>5. QED
      BY <2>3, <2>4
  <1>10. SeedStays /\ MetaSound'
    BY <1>1, <1>6 DEF SeedStays, DInv, MetaSound, KnowsTheFiles
  <1>11. meta.done <= meta'.done /\ trace' \in Files
         /\ meta' \in [schema : {"none", "legacy", "v2"}, done : 0 .. N, seed : Seeds \cup {0}]
    BY <1>6 DEF DInv, Typed
  <1>12. QED
    BY <1>1, <1>2, <1>3, <1>5, <1>6, <1>8, <1>9, <1>10, <1>11, SessionStep

\* The metadata is the last file of a creation and of a migration.
LEMMA PublishMetaStep == ASSUME DInv, NEW q \in Process, PublishMeta(q) PROVE DInv'
  <1> DEFINE n == proc[q].done
             s == proc[q].seed
  <1>1. /\ proc[q].at = "publish" /\ proc[q] \in Commands /\ KnowsTheFiles(q)
    BY HasTheLock DEF PublishMeta, At, Holding
  <1>2. Moved(q) /\ proc'[q].at = "capture"
    BY GotoMoves DEF PublishMeta, DInv, Typed, Holding
  <1>3. /\ meta' = [schema |-> "v2", done |-> n, seed |-> s]
        /\ UNCHANGED <<trace, side, exports, analysis, locks, history>>
    BY DEF PublishMeta
  <1>4. n \in 0 .. N /\ s \in Seeds /\ n = meta.done /\ meta.done \in 0 .. N
    BY <1>1 DEF KnowsTheFiles, Commands
  <1>5. Holds(trace, n, s)
    <2>1. CASE meta.schema = "legacy"
      BY <1>1, <1>4, <2>1 DEF KnowsTheFiles, DInv, MetaSound
    <2>2. CASE meta.schema = "none"
      BY <1>1, <1>4, <2>2 DEF KnowsTheFiles, DInv, MetaSound, Holds
    <2>3. QED
      BY <1>1, <2>1, <2>2 DEF KnowsTheFiles, DInv, Typed
  <1>6. \A f \in Sides : Holds(side[f], n, s)
    BY <1>1, FieldsAndSides DEF KnowsTheFiles
  <1>7. KnowsTheFiles(q)'
    BY <1>2, <1>3, <1>4, <1>5, <1>6 DEF KnowsTheFiles, Moved
  <1>8. MetaSound'
    BY <1>3, <1>4, <1>5, <1>6 DEF MetaSound
  <1>9. SeedStays
    BY <1>1, <1>3 DEF SeedStays, KnowsTheFiles, DInv, Typed
  <1>10. /\ trace' \in Files /\ side' \in [Sides -> Files] /\ meta.done <= meta'.done
         /\ meta' \in [schema : {"none", "legacy", "v2"}, done : 0 .. N, seed : Seeds \cup {0}]
    BY <1>3, <1>4 DEF DInv, Typed
  <1>11. QED
    BY <1>1, <1>2, <1>3, <1>7, <1>8, <1>9, <1>10, SessionStep DEF Moved

\* What a recording session has under its hands.
LEMMA RecordingFacts ==
  ASSUME DInv, NEW q \in Process, proc[q].at \in Recording
  PROVE  LET n == proc[q].done
             s == proc[q].seed
         IN /\ lock = q /\ proc[q] \in Commands /\ n \in 0 .. N /\ s \in Seeds
            /\ meta.schema = "v2" /\ meta.seed = s /\ meta.done \in 0 .. n
            /\ trace \in [1 .. N -> Seeds \cup {0}]
            /\ side \in [Sides -> [1 .. N -> Seeds \cup {0}]]
            /\ Holds(trace, n, s) /\ \A f \in Sides : Holds(side[f], n, s)
  <1>1. lock = q /\ proc[q] \in Commands /\ KnowsTheFiles(q)
    BY HasTheLock DEF Recording, Holding
  <1>2. Holds(trace, proc[q].done, proc[q].seed)
        /\ \A f \in Sides : Holds(side[f], proc[q].done, proc[q].seed)
    BY <1>1 DEF KnowsTheFiles, Recording
  <1>3. trace \in [1 .. N -> Seeds \cup {0}] /\ side \in [Sides -> [1 .. N -> Seeds \cup {0}]]
    BY <1>2 DEF DInv, Typed, Files, Holds
  <1>4. QED
    BY <1>1, <1>2, <1>3 DEF KnowsTheFiles, Recording, Commands, DInv, Typed

\* One more row of the same seed.
LEMMA OneMoreRow ==
  ASSUME NEW f \in [1 .. N -> Seeds \cup {0}], NEW n \in 0 .. N, n < N, NEW s \in Seeds,
         Holds(f, n, s)
  PROVE  /\ [f EXCEPT ![n + 1] = s] \in [1 .. N -> Seeds \cup {0}]
         /\ Holds([f EXCEPT ![n + 1] = s], n + 1, s)
  <1> DEFINE g == [f EXCEPT ![n + 1] = s]
  <1>1. g \in [1 .. N -> Seeds \cup {0}]
    OBVIOUS
  <1>2. \A k \in 1 .. n + 1 : g[k] = s
    BY Numbers DEF Holds
  <1>3. QED
    BY <1>1, <1>2, PresentFiles DEF Holds

\* A row is captured.
LEMMA AppendRowStep == ASSUME DInv, NEW q \in Process, AppendRow(q) PROVE DInv'
  <1> DEFINE n == proc[q].done
             s == proc[q].seed
  <1>1. proc[q].at = "capture" /\ n < N
    BY DEF AppendRow, At
  <1>2. /\ lock = q /\ proc[q] \in Commands /\ n \in 0 .. N /\ s \in Seeds
        /\ meta.schema = "v2" /\ meta.seed = s /\ meta.done \in 0 .. n
        /\ trace \in [1 .. N -> Seeds \cup {0}] /\ side \in [Sides -> [1 .. N -> Seeds \cup {0}]]
        /\ Holds(trace, n, s) /\ \A f \in Sides : Holds(side[f], n, s)
    BY <1>1, RecordingFacts DEF Recording
  <1>3. /\ trace' = [trace EXCEPT ![n + 1] = s]
        /\ side' = [f \in Sides |-> [side[f] EXCEPT ![n + 1] = s]]
        /\ UNCHANGED <<meta, exports, analysis, locks, history>>
    BY DEF AppendRow
  <1>4. PICK p \in {"capture", "checkpoint"} :
          proc' = [proc EXCEPT ![q] = [proc[q] EXCEPT !.done = n + 1, !.at = p]]
    BY ZenonT(60), <1>2 DEF AppendRow, Commands
  <1> DEFINE r == [proc[q] EXCEPT !.done = n + 1, !.at = p]
  <1>5. r \in Commands /\ r.at = p /\ r.done = n + 1 /\ r.seed = s /\ r.gen = proc[q].gen
    <2>1. p \in Holding /\ n + 1 \in 0 .. N
      BY <1>1, <1>2, Numbers DEF Holding
    <2>2. QED
      BY <1>2, <2>1 DEF Commands
  <1>6. proc' \in [Process -> Commands] /\ OthersStay(q) /\ proc'[q] = r
    <2> HIDE DEF r
    <2>1. QED
      BY <1>4, <1>5, ResetMoves DEF DInv, Typed, r
  <1> HIDE DEF r
  <1>7. trace' \in [1 .. N -> Seeds \cup {0}] /\ Holds(trace', n + 1, s)
    BY <1>1, <1>2, <1>3, OneMoreRow
  <1>8. \A f \in Sides : side'[f] \in [1 .. N -> Seeds \cup {0}] /\ Holds(side'[f], n + 1, s)
    BY <1>1, <1>2, <1>3, OneMoreRow
  <1>9. side' \in [Sides -> Files] /\ trace' \in Files
    BY <1>3, <1>7, <1>8 DEF Files
  <1>10. KnowsTheFiles(q)'
    BY <1>2, <1>3, <1>4, <1>5, <1>6, <1>7, <1>8 DEF KnowsTheFiles
  <1>11. MetaSound'
    BY <1>2, <1>3, <1>7, <1>8 DEF MetaSound, Holds
  <1>12. SeedStays /\ meta.done <= meta'.done
         /\ meta' \in [schema : {"none", "legacy", "v2"}, done : 0 .. N, seed : Seeds \cup {0}]
    BY <1>3 DEF SeedStays, DInv, Typed
  <1>13. QED
    BY <1>1, <1>3, <1>4, <1>5, <1>6, <1>9, <1>10, <1>11, <1>12, SessionStep

\* The rows so far are published.
LEMMA CheckpointStep == ASSUME DInv, NEW q \in Process, Checkpoint(q) PROVE DInv'
  <1>1. proc[q].at \in Recording
    BY DEF Checkpoint, At, Recording
  <1>2. /\ proc[q].done \in 0 .. N /\ meta.schema = "v2" /\ meta.seed = proc[q].seed
        /\ meta.done \in 0 .. proc[q].done /\ proc[q].seed \in Seeds
        /\ Holds(trace, proc[q].done, proc[q].seed)
        /\ \A f \in Sides : Holds(side[f], proc[q].done, proc[q].seed)
    BY <1>1, RecordingFacts
  <1>3. PICK p \in {"capture", "release"} : Goto(q, p)
    BY DEF Checkpoint
  <1>4. Moved(q) /\ proc'[q].at = p
    BY <1>3, GotoMoves DEF DInv, Typed, Holding
  <1>5. /\ meta' = [meta EXCEPT !.done = proc[q].done]
        /\ UNCHANGED <<trace, side, exports, analysis, locks, history>>
    BY DEF Checkpoint
  <1>6. /\ meta'.schema = "v2" /\ meta'.seed = proc[q].seed /\ meta'.done = proc[q].done
        /\ meta' \in [schema : {"none", "legacy", "v2"}, done : 0 .. N, seed : Seeds \cup {0}]
    BY <1>2, <1>5 DEF DInv, Typed
  <1>7. KnowsTheFiles(q)'
    BY <1>2, <1>3, <1>4, <1>5, <1>6 DEF KnowsTheFiles, Moved
  <1>8. MetaSound' /\ SeedStays
    BY <1>2, <1>5, <1>6 DEF MetaSound, SeedStays
  <1>9. trace' \in Files /\ side' \in [Sides -> Files] /\ meta.done <= meta'.done
    BY <1>2, <1>5, <1>6 DEF DInv, Typed
  <1>10. QED
    BY <1>1, <1>3, <1>4, <1>5, <1>6, <1>7, <1>8, <1>9, SessionStep DEF Moved, Recording

\* The session gives the dataset back.
LEMMA ReleaseStep == ASSUME DInv, NEW q \in Process, Release(q) PROVE DInv'
  <1>1. /\ proc[q].at \in {"release", "mismatched"} /\ lock = q
        /\ KnowsTheMarkers(q) /\ KnowsItsStart(q)
    BY HasTheLock DEF Release, Holding
  <1>2. PICK p \in {"unbench", "mismatch"} :
          Goto(q, p) /\ (p = "mismatch" => proc[q].at = "mismatched")
    BY <1>1 DEF Release, At
  <1>3. Moved(q) /\ proc'[q].at = p
    BY <1>2, GotoMoves DEF DInv, Typed, Elsewhere
  <1>4. Kept /\ lock' = Nobody /\ UNCHANGED <<bench, history>>
    BY DEF Release, Kept
  <1>5. Typed' /\ MetaSound' /\ CertificatesAreTrue' /\ SeedStays
    BY <1>3, <1>4, FilesKept DEF DInv, Typed, history, Moved
  <1>6. KnowsTheFiles(q)' /\ KnowsTheMarkers(q)' /\ KnowsItsStart(q)'
    BY <1>1, <1>2, <1>3 DEF Moved, KnowsTheFiles, KnowsTheMarkers, KnowsItsStart, Generating
  <1>7. proc'[q].at \notin Holding
    BY <1>3 DEF Holding
  <1>8. QED
    BY <1>1, <1>3, <1>4, <1>5, <1>6, <1>7, HolderStep DEF Moved

-----------------------------------------------------------------------------
(* The analyses and the exports.                                           *)

Publishing ==
  {"invalidate", "read", "arrays", "table", "report", "compare", "unlock", "h5write", "h5done",
   "csvwrite", "csvfile", "csvmarker", "exported"}

\* A step of an analysis or of an export leaves the native files alone.
LEMMA PublicationStep ==
  ASSUME DInv, NEW q \in Process, UNCHANGED <<native, locks, history>>,
         proc[q].at \in Publishing, proc'[q].at \in Publishing,
         proc' \in [Process -> Commands], OthersStay(q),
         h5' \in -1 .. meta.done, csv' \in Generations \cup {0}, marker' \in Generations \cup {0},
         artifact' \in [Variants -> [Items -> Generations \cup {0}]],
         report' \in [Variants -> [gen : Generations \cup {0}, rows : 0 .. N]],
         \A v \in Variants : report'[v].rows <= meta.done,
         comparison' \in [Variants -> Generations \cup {0}],
         CertificatesAreTrue', KnowsTheMarkers(q)'
  PROVE  DInv'
  <1> USE DEF native, locks, history
  <1>1. lock = q /\ lock' = q
    BY HasTheLock DEF Publishing, Holding
  <1>2. Typed'
    BY DEF DInv, Typed
  <1>3. MetaSound' /\ SeedStays
    BY DEF DInv, MetaSound, Holds, SeedStays
  <1>4. KnowsTheFiles(q)' /\ KnowsItsStart(q)'
    BY DEF KnowsTheFiles, KnowsItsStart, Publishing
  <1>5. proc'[q].at \in Holding
    BY DEF Publishing, Holding
  <1>6. QED
    BY <1>1, <1>2, <1>3, <1>4, <1>5, HolderStep

\* What has to be shown of a step of an analysis.
LEMMA AnalysisStep ==
  ASSUME DInv, NEW q \in Process, UNCHANGED <<native, exports, locks, history>>,
         proc[q].at \in Publishing, proc'[q].at \in Publishing,
         proc' \in [Process -> Commands], OthersStay(q),
         artifact' \in [Variants -> [Items -> Generations \cup {0}]],
         report' \in [Variants -> [gen : Generations \cup {0}, rows : 0 .. N]],
         \A v \in Variants : report'[v].rows <= meta.done,
         comparison' \in [Variants -> Generations \cup {0}],
         ReportBindsArtifacts', ComparisonBindsReports', KnowsTheMarkers(q)'
  PROVE  DInv'
  <1>1. CertificatesAreTrue'
    BY DEF DInv, CertificatesAreTrue, MarkerCertifies, CsvAccepted, exports
  <1>2. h5' \in -1 .. meta.done /\ csv' \in Generations \cup {0} /\ marker' \in Generations \cup {0}
    BY DEF DInv, Typed, exports
  <1>3. QED
    BY <1>1, <1>2, PublicationStep

\* What has to be shown of a step of an export.
LEMMA ExportStep ==
  ASSUME DInv, NEW q \in Process, UNCHANGED <<native, analysis, locks, history>>,
         proc[q].at \in Publishing, proc'[q].at \in Publishing,
         proc' \in [Process -> Commands], OthersStay(q),
         h5' \in -1 .. meta.done, csv' \in Generations \cup {0}, marker' \in Generations \cup {0},
         MarkerCertifies', KnowsTheMarkers(q)'
  PROVE  DInv'
  <1> USE DEF analysis
  <1>1. CertificatesAreTrue'
    BY DEF DInv, CertificatesAreTrue, ReportBindsArtifacts, ComparisonBindsReports
  <1>2. /\ artifact' \in [Variants -> [Items -> Generations \cup {0}]]
        /\ report' \in [Variants -> [gen : Generations \cup {0}, rows : 0 .. N]]
        /\ \A v \in Variants : report'[v].rows <= meta.done
        /\ comparison' \in [Variants -> Generations \cup {0}]
    BY DEF DInv, Typed
  <1>3. QED
    BY <1>1, <1>2, PublicationStep

\* No comparison is of the type of one.
LEMMA NoComparisonTyped == NoComparison \in [Variants -> Generations \cup {0}]
  BY DEF NoComparison

\* The comparison goes before its reports do.
LEMMA InvalidateComparisonStep ==
  ASSUME DInv, NEW q \in Process, InvalidateComparison(q) PROVE DInv'
  <1>1. proc[q].at = "invalidate" /\ KnowsTheMarkers(q)
    BY HasTheLock DEF InvalidateComparison, At, Holding
  <1>2. Moved(q) /\ proc'[q].at = "read"
    BY GotoMoves DEF InvalidateComparison, DInv, Typed, Holding
  <1>3. /\ comparison' = NoComparison
        /\ UNCHANGED <<native, exports, artifact, report, locks, history>>
    BY DEF InvalidateComparison, ComparisonDropped
  <1>4. ReportBindsArtifacts' /\ ComparisonBindsReports'
    BY <1>3 DEF DInv, CertificatesAreTrue, ReportBindsArtifacts, ComparisonBindsReports
  <1>5. KnowsTheMarkers(q)'
    BY <1>1, <1>2, <1>3 DEF KnowsTheMarkers, Generating, Moved
  <1>6. QED
    BY <1>1, <1>2, <1>3, <1>4, <1>5, NoComparisonTyped, AnalysisStep
    DEF Publishing, DInv, Typed, Moved

\* The report goes before its artifacts do.
LEMMA StartPublicationStep == ASSUME DInv, NEW q \in Process, StartPublication(q) PROVE DInv'
  <1>1. /\ proc[q].at = "read" /\ proc[q] \in Commands /\ KnowsTheMarkers(q)
    BY HasTheLock DEF StartPublication, At, Holding
  <1>2. proc[q].gen = 0 /\ comparison = NoComparison /\ proc[q].variant \in Variants
    BY <1>1 DEF KnowsTheMarkers, Generating, Commands
  <1>3. UNCHANGED <<native, exports, artifact, comparison, locks, history>>
    BY DEF StartPublication
  <1>4. CASE Readable
    <2> DEFINE g == FreshGeneration
               n == meta.done
               v == proc[q].variant
               r == [proc[q] EXCEPT !.at = "arrays", !.gen = g, !.done = n]
    <2>1. g \in Generations
      BY <1>2, FreshExists DEF DInv
    <2> HIDE DEF g
    <2>2. n \in 0 .. N
      BY DEF DInv, Typed
    <2>3. /\ r \in Commands /\ r.at = "arrays" /\ r.gen = g /\ r.done = n /\ r.variant = v
      BY <1>1, <2>1, <2>2 DEF Commands, Holding
    <2>4. proc' = [proc EXCEPT ![q] = r] /\ report' = [report EXCEPT ![v] = NoReport]
      BY <1>1, <1>4 DEF StartPublication, ReportDropped, Commands, g
    <2> HIDE DEF r
    <2>5. proc' \in [Process -> Commands] /\ OthersStay(q) /\ proc'[q] = r
      BY <2>3, <2>4, ResetMoves DEF DInv, Typed
    <2>6. /\ report' \in [Variants -> [gen : Generations \cup {0}, rows : 0 .. N]]
          /\ report'[v] = NoReport
          /\ \A w \in Variants : w # v => report'[w] = report[w]
      BY <1>2, <2>4, Numbers DEF DInv, Typed, NoReport
    <2>7. \A w \in Variants : report'[w].rows <= meta.done
      BY <2>2, <2>6 DEF DInv, Typed, NoReport
    <2>8. ReportBindsArtifacts' /\ ComparisonBindsReports'
      BY <1>2, <1>3, <2>6
      DEF DInv, CertificatesAreTrue, ReportBindsArtifacts, ComparisonBindsReports, NoReport
    <2>9. KnowsTheMarkers(q)'
      <3>1. meta' = meta /\ n <= meta.done
        BY <1>3, <2>2 DEF native
      <3>2. QED
        BY <1>2, <1>3, <2>3, <2>5, <2>6, <3>1 DEF KnowsTheMarkers, Generating
    <2>10. QED
      BY <1>1, <1>3, <2>3, <2>5, <2>6, <2>7, <2>8, <2>9, AnalysisStep DEF Publishing, DInv, Typed
  <1>5. CASE ~Readable
    <2>1. Moved(q) /\ proc'[q].at = "unlock" /\ UNCHANGED report
      BY <1>5, GotoMoves DEF StartPublication, DInv, Typed, Holding
    <2>2. ReportBindsArtifacts' /\ ComparisonBindsReports'
      BY <1>3, <2>1
      DEF DInv, CertificatesAreTrue, ReportBindsArtifacts, ComparisonBindsReports
    <2>3. KnowsTheMarkers(q)'
      BY <2>1 DEF KnowsTheMarkers, Generating
    <2>4. QED
      BY <1>1, <1>3, <2>1, <2>2, <2>3, AnalysisStep DEF Publishing, DInv, Typed, Moved
  <1>6. QED
    BY <1>4, <1>5

\* An artifact of the new generation is written.
LEMMA WriteArtifactStep == ASSUME DInv, NEW q \in Process, WriteArtifact(q) PROVE DInv'
  <1> DEFINE v == proc[q].variant
             a == proc[q].at
             g == proc[q].gen
  <1>1. /\ a \in {"arrays", "table"} /\ proc[q] \in Commands /\ KnowsTheMarkers(q)
    BY HasTheLock DEF WriteArtifact, Items, Holding
  <1>2. v \in Variants /\ a \in Items /\ g \in Generations \cup {0} /\ report[v].gen = 0
        /\ comparison = NoComparison
    BY <1>1 DEF KnowsTheMarkers, Commands, Items, NoReport
  <1>3. Moved(q) /\ proc'[q].at = IF a = "arrays" THEN "table" ELSE "report"
    BY GotoMoves DEF WriteArtifact, At, DInv, Typed, Holding
  <1>4. /\ artifact' = [artifact EXCEPT ![v][a] = g]
        /\ UNCHANGED <<native, exports, report, comparison, locks, history>>
    BY DEF WriteArtifact
  <1>5. /\ artifact' \in [Variants -> [Items -> Generations \cup {0}]]
        /\ artifact'[v][a] = g
        /\ \A w \in Variants, b \in Items : w # v \/ b # a => artifact'[w][b] = artifact[w][b]
    BY <1>2, <1>4 DEF DInv, Typed
  <1>6. ReportBindsArtifacts'
    BY <1>2, <1>4, <1>5 DEF DInv, CertificatesAreTrue, ReportBindsArtifacts
  <1>7. ComparisonBindsReports'
    BY <1>4 DEF DInv, CertificatesAreTrue, ComparisonBindsReports
  <1>8. KnowsTheMarkers(q)'
    BY <1>1, <1>2, <1>3, <1>4, <1>5 DEF KnowsTheMarkers, Moved, native, Items, Generating
  <1>9. QED
    BY <1>1, <1>3, <1>4, <1>5, <1>6, <1>7, <1>8, AnalysisStep DEF Publishing, DInv, Typed, Moved

\* The report follows the last of its artifacts.
LEMMA WriteReportStep == ASSUME DInv, NEW q \in Process, WriteReport(q) PROVE DInv'
  <1> DEFINE v == proc[q].variant
             made == [gen |-> proc[q].gen, rows |-> proc[q].done]
             then == IF proc[q].alone THEN "unlock" ELSE IF v = "raw" THEN "read" ELSE "compare"
             r == [proc[q] EXCEPT !.made[v] = made, !.gen = 0, !.variant = "aligned", !.at = then]
  <1>1. /\ proc[q].at = "report" /\ proc[q] \in Commands /\ KnowsTheMarkers(q)
    BY HasTheLock DEF WriteReport, At, Holding
  <1>2. /\ v \in Variants /\ comparison = NoComparison /\ proc[q].done <= meta.done
        /\ artifact[v]["arrays"] = proc[q].gen /\ artifact[v]["table"] = proc[q].gen
        /\ made \in [gen : Generations \cup {0}, rows : 0 .. N]
    BY <1>1 DEF KnowsTheMarkers, Commands
  <1>3. report' = [report EXCEPT ![v] = made] /\ proc' = [proc EXCEPT ![q] = r]
        /\ UNCHANGED <<native, exports, artifact, comparison, locks, history>>
    BY <1>1 DEF WriteReport, Commands
  <1>4. then \in {"unlock", "read", "compare"}
    OBVIOUS
  <1> HIDE DEF then
  <1>5. r \in Commands /\ r.at = then /\ r.gen = 0
    BY <1>1, <1>2, <1>4 DEF Commands, Holding, Variants
  <1> HIDE DEF r
  <1>6. proc' \in [Process -> Commands] /\ OthersStay(q) /\ proc'[q] = r
    BY <1>3, <1>5, ResetMoves DEF DInv, Typed
  <1>7. /\ report' \in [Variants -> [gen : Generations \cup {0}, rows : 0 .. N]]
        /\ report'[v] = made /\ \A w \in Variants : w # v => report'[w] = report[w]
    BY <1>2, <1>3 DEF DInv, Typed
  <1>8. \A w \in Variants : report'[w].rows <= meta.done
    BY SMTT(30), <1>2, <1>7 DEF DInv, Typed
  <1>9. ReportBindsArtifacts' /\ ComparisonBindsReports'
    BY <1>2, <1>3, <1>7
    DEF DInv, CertificatesAreTrue, ReportBindsArtifacts, ComparisonBindsReports, Items
  <1>10. KnowsTheMarkers(q)'
    BY <1>2, <1>3, <1>4, <1>5, <1>6 DEF KnowsTheMarkers, Generating
  <1>11. QED
    BY <1>1, <1>3, <1>4, <1>5, <1>6, <1>7, <1>8, <1>9, <1>10, AnalysisStep
    DEF Publishing, DInv, Typed

\* The comparison binds the reports if they are still the ones just made.
LEMMA WriteComparisonStep == ASSUME DInv, NEW q \in Process, WriteComparison(q) PROVE DInv'
  <1> DEFINE r == [proc[q] EXCEPT !.at = "unlock", !.made = Idle.made]
  <1>1. proc[q].at = "compare" /\ proc[q] \in Commands /\ KnowsTheMarkers(q)
    BY HasTheLock DEF WriteComparison, At, Holding
  <1>2. Idle.made \in [Variants -> [gen : Generations \cup {0}, rows : 0 .. N]]
    BY IdleIsCommand DEF Commands
  <1>3. r \in Commands /\ r.at = "unlock" /\ proc' = [proc EXCEPT ![q] = r]
    BY <1>1, <1>2 DEF WriteComparison, Commands, Holding
  <1> HIDE DEF r
  <1>4. proc' \in [Process -> Commands] /\ OthersStay(q) /\ proc'[q] = r
    BY <1>3, ResetMoves DEF DInv, Typed
  <1>5. UNCHANGED <<native, exports, artifact, report, locks, history>>
    BY DEF WriteComparison
  <1>6. \/ UNCHANGED comparison
        \/ /\ comparison' = [v \in Variants |-> report[v].gen]
           /\ report["raw"].rows = report["aligned"].rows
    BY DEF WriteComparison
  <1>7. comparison' \in [Variants -> Generations \cup {0}]
    BY <1>6 DEF DInv, Typed
  <1>8. ReportBindsArtifacts'
    BY <1>5 DEF DInv, CertificatesAreTrue, ReportBindsArtifacts
  <1>9. ComparisonBindsReports'
    BY <1>5, <1>6 DEF DInv, CertificatesAreTrue, ComparisonBindsReports
  <1>10. KnowsTheMarkers(q)'
    BY <1>3, <1>4 DEF KnowsTheMarkers, Generating
  <1>11. QED
    BY <1>1, <1>3, <1>4, <1>5, <1>7, <1>8, <1>9, <1>10, AnalysisStep
    DEF Publishing, DInv, Typed

\* A process that gives the lock back and leaves all files alone.
LEMMA FreedStep ==
  ASSUME DInv, NEW q \in Process, Kept, lock = q, lock' = Nobody, UNCHANGED commands,
         bench' \in Process \cup {Nobody}, stops' \in 0 .. MaxStops,
         proc' \in [Process -> Commands], OthersStay(q), proc'[q].gen = 0,
         proc'[q].at \in {"end", "h5", "csv"}
  PROVE  DInv'
  <1>1. Typed' /\ MetaSound' /\ CertificatesAreTrue' /\ SeedStays
    BY FilesKept DEF DInv, Typed
  <1>2. KnowsTheFiles(q)' /\ KnowsTheMarkers(q)' /\ KnowsItsStart(q)'
    BY DEF KnowsTheFiles, KnowsTheMarkers, KnowsItsStart
  <1>3. proc'[q].at \notin Holding
    BY DEF Holding
  <1>4. QED
    BY <1>1, <1>2, <1>3, HolderStep

\* The analysis gives the dataset back.
LEMMA EndAnalysisStep == ASSUME DInv, NEW q \in Process, EndAnalysis(q) PROVE DInv'
  <1> DEFINE then == IF proc[q].alone THEN "end" ELSE "h5"
             r == [proc[q] EXCEPT !.at = then, !.gen = 0, !.made = Idle.made]
  <1>1. lock = q /\ proc[q] \in Commands
    BY HasTheLock DEF EndAnalysis, At, Holding
  <1>2. Idle.made \in [Variants -> [gen : Generations \cup {0}, rows : 0 .. N]]
    BY IdleIsCommand DEF Commands
  <1>3. then \in {"end", "h5"} /\ proc' = [proc EXCEPT ![q] = r]
    BY <1>1 DEF EndAnalysis, Commands
  <1> HIDE DEF then
  <1>4. r \in Commands /\ r.at = then /\ r.gen = 0
    BY <1>1, <1>2, <1>3 DEF Commands, Elsewhere
  <1> HIDE DEF r
  <1>5. proc' \in [Process -> Commands] /\ OthersStay(q) /\ proc'[q] = r
    BY <1>3, <1>4, ResetMoves DEF DInv, Typed
  <1>6. Kept /\ lock' = Nobody /\ UNCHANGED <<bench, history>>
    BY DEF EndAnalysis, LockFreed, Kept
  <1>7. QED
    BY <1>1, <1>3, <1>4, <1>5, <1>6, FreedStep DEF DInv, Typed, history

\* The HDF5 copy is replaced.
LEMMA ExportH5Step == ASSUME DInv, NEW q \in Process, ExportH5(q) PROVE DInv'
  <1>1. proc[q].at = "h5write" /\ KnowsTheMarkers(q)
    BY HasTheLock DEF ExportH5, At, Holding
  <1>2. PICK p \in {"h5done", "exported"} : Goto(q, p)
    BY DEF ExportH5
  <1>3. Moved(q) /\ proc'[q].at = p
    BY <1>2, GotoMoves DEF DInv, Typed, Holding
  <1>4. h5' \in -1 .. meta.done
    BY DEF ExportH5, ValidRows, DInv, Typed
  <1>5. UNCHANGED <<native, csv, marker, analysis, locks, history>>
    BY DEF ExportH5
  <1>6. MarkerCertifies' /\ KnowsTheMarkers(q)'
    BY <1>1, <1>3, <1>5 DEF DInv, CertificatesAreTrue, MarkerCertifies, CsvAccepted,
                            KnowsTheMarkers, Generating, Moved
  <1>7. QED
    BY <1>1, <1>3, <1>4, <1>5, <1>6, ExportStep DEF Publishing, Moved, DInv, Typed

\* The HDF5 export gives the dataset back.
LEMMA EndH5Step == ASSUME DInv, NEW q \in Process, EndH5(q) PROVE DInv'
  <1>1. proc[q].at = "h5done" /\ lock = q /\ KnowsTheMarkers(q)
    BY HasTheLock DEF EndH5, At, Holding
  <1>2. PICK p \in {"end", "csv"} : Goto(q, p)
    BY DEF EndH5
  <1>3. Moved(q) /\ proc'[q].at = p
    BY <1>2, GotoMoves DEF DInv, Typed, Elsewhere
  <1>4. Kept /\ lock' = Nobody /\ UNCHANGED <<bench, history>>
    BY DEF EndH5, Kept
  <1>5. QED
    BY <1>1, <1>3, <1>4, FreedStep DEF DInv, Typed, history, Moved, KnowsTheMarkers, Generating

\* The old marker goes before the old CSV file does.
LEMMA DropMarkerStep == ASSUME DInv, NEW q \in Process, DropMarker(q) PROVE DInv'
  <1>1. proc[q].at = "csvwrite" /\ proc[q] \in Commands /\ KnowsTheMarkers(q)
    BY HasTheLock DEF DropMarker, At, Holding
  <1>2. UNCHANGED <<native, h5, csv, analysis, locks, history>>
    BY DEF DropMarker
  <1>3. CASE Readable
    <2> DEFINE g == FreshGeneration
               r == [proc[q] EXCEPT !.at = "csvfile", !.gen = g]
    <2>1. g \in Generations
      BY <1>1, FreshExists DEF DInv, KnowsTheMarkers, Generating
    <2> HIDE DEF g
    <2>2. r \in Commands /\ r.at = "csvfile" /\ r.gen = g
      BY <1>1, <2>1 DEF Commands, Holding
    <2>3. proc' = [proc EXCEPT ![q] = r] /\ marker' = 0
      BY <1>1, <1>3 DEF DropMarker, MarkerDropped, Commands, g
    <2> HIDE DEF r
    <2>4. proc' \in [Process -> Commands] /\ OthersStay(q) /\ proc'[q] = r
      BY <2>2, <2>3, ResetMoves DEF DInv, Typed
    <2>5. MarkerCertifies' /\ KnowsTheMarkers(q)'
      BY <2>2, <2>3, <2>4 DEF MarkerCertifies, KnowsTheMarkers, Generating
    <2>6. QED
      BY <1>1, <1>2, <2>2, <2>3, <2>4, <2>5, ExportStep DEF Publishing, DInv, Typed
  <1>4. CASE ~Readable
    <2>1. Moved(q) /\ proc'[q].at = "exported" /\ UNCHANGED marker
      BY <1>4, GotoMoves DEF DropMarker, DInv, Typed, Holding
    <2>2. MarkerCertifies' /\ KnowsTheMarkers(q)'
      BY <1>2, <2>1 DEF DInv, CertificatesAreTrue, MarkerCertifies, CsvAccepted,
                        KnowsTheMarkers, Generating
    <2>3. QED
      BY <1>1, <1>2, <2>1, <2>2, ExportStep DEF Publishing, DInv, Typed, Moved
  <1>5. QED
    BY <1>3, <1>4

\* The new CSV file is put in place.
LEMMA ReplaceCsvStep == ASSUME DInv, NEW q \in Process, ReplaceCsv(q) PROVE DInv'
  <1>1. proc[q].at = "csvfile" /\ proc[q] \in Commands /\ KnowsTheMarkers(q)
    BY HasTheLock DEF ReplaceCsv, At, Holding
  <1>2. Moved(q) /\ proc'[q].at = "csvmarker"
    BY GotoMoves DEF ReplaceCsv, DInv, Typed, Holding
  <1>3. csv' = proc[q].gen /\ UNCHANGED <<native, h5, marker, analysis, locks, history>>
    BY DEF ReplaceCsv
  <1>4. marker = 0 /\ proc[q].gen \in Generations \cup {0}
    BY <1>1 DEF KnowsTheMarkers, Commands
  <1>5. MarkerCertifies' /\ KnowsTheMarkers(q)'
    BY <1>2, <1>3, <1>4 DEF MarkerCertifies, KnowsTheMarkers, Generating, Moved
  <1>6. QED
    BY <1>1, <1>2, <1>3, <1>4, <1>5, ExportStep DEF Publishing, DInv, Typed, Moved

\* Its marker follows.
LEMMA ReplaceMarkerStep == ASSUME DInv, NEW q \in Process, ReplaceMarker(q) PROVE DInv'
  <1>1. proc[q].at = "csvmarker" /\ proc[q] \in Commands /\ KnowsTheMarkers(q)
    BY HasTheLock DEF ReplaceMarker, At, Holding
  <1>2. Moved(q) /\ proc'[q].at = "exported"
    BY GotoMoves DEF ReplaceMarker, DInv, Typed, Holding
  <1>3. marker' = proc[q].gen /\ UNCHANGED <<native, h5, csv, analysis, locks, history>>
    BY DEF ReplaceMarker
  <1>4. csv = proc[q].gen /\ proc[q].gen \in Generations \cup {0}
    BY <1>1 DEF KnowsTheMarkers, Commands
  <1>5. MarkerCertifies' /\ KnowsTheMarkers(q)'
    BY <1>2, <1>3, <1>4 DEF MarkerCertifies, CsvAccepted, KnowsTheMarkers, Generating
  <1>6. QED
    BY <1>1, <1>2, <1>3, <1>4, <1>5, ExportStep DEF Publishing, DInv, Typed, Moved

\* The CSV export gives the dataset back.
LEMMA EndExportStep == ASSUME DInv, NEW q \in Process, EndExport(q) PROVE DInv'
  <1> DEFINE r == [proc[q] EXCEPT !.at = "end", !.gen = 0]
  <1>1. lock = q /\ proc[q] \in Commands
    BY HasTheLock DEF EndExport, At, Holding
  <1>2. r \in Commands /\ r.at = "end" /\ r.gen = 0 /\ proc' = [proc EXCEPT ![q] = r]
    BY <1>1 DEF EndExport, Commands, Elsewhere
  <1> HIDE DEF r
  <1>3. proc' \in [Process -> Commands] /\ OthersStay(q) /\ proc'[q] = r
    BY <1>2, ResetMoves DEF DInv, Typed
  <1>4. Kept /\ lock' = Nobody /\ UNCHANGED <<bench, history>>
    BY DEF EndExport, Kept
  <1>5. QED
    BY <1>1, <1>2, <1>3, <1>4, FreedStep DEF DInv, Typed, history

-----------------------------------------------------------------------------
(* Exceptions.                                                             *)

\* A session that raises: what was recorded is published, the locks are given back.
LEMMA SessionRaises ==
  ASSUME DInv, NEW q \in Process, proc[q].at \in Acquiring,
         meta' = IF proc[q].at \in Recording THEN [meta EXCEPT !.done = proc[q].done] ELSE meta,
         lock' = Nobody, bench' = Nobody, stops' \in 0 .. MaxStops,
         proc' = [proc EXCEPT ![q] = [Idle EXCEPT !.at = "end"]],
         UNCHANGED <<trace, side, exports, analysis, commands>>
  PROVE  DInv'
  <1> DEFINE r == [Idle EXCEPT !.at = "end"]
  <1>1. r \in Commands /\ r.at = "end" /\ r.gen = 0
    BY IdleIsCommand DEF Commands, Elsewhere, Idle
  <1> HIDE DEF r
  <1>2. proc' \in [Process -> Commands] /\ OthersStay(q) /\ proc'[q] = r
    BY <1>1, ResetMoves DEF DInv, Typed, r
  <1>3. lock = q
    BY HasTheLock DEF Acquiring, Recording, Holding
  <1>4. /\ meta' \in [schema : {"none", "legacy", "v2"}, done : 0 .. N, seed : Seeds \cup {0}]
        /\ meta.done <= meta'.done /\ meta'.schema = meta.schema /\ meta'.seed = meta.seed
        /\ MetaSound'
    <2>1. CASE proc[q].at \in Recording
      <3>1. /\ proc[q].done \in 0 .. N /\ meta.schema = "v2" /\ meta.seed = proc[q].seed
            /\ meta.done \in 0 .. proc[q].done /\ proc[q].seed \in Seeds
            /\ Holds(trace, proc[q].done, proc[q].seed)
            /\ \A f \in Sides : Holds(side[f], proc[q].done, proc[q].seed)
        BY <2>1, RecordingFacts
      <3>2. /\ meta'.schema = "v2" /\ meta'.seed = meta.seed /\ meta'.done = proc[q].done
            /\ meta' \in [schema : {"none", "legacy", "v2"}, done : 0 .. N, seed : Seeds \cup {0}]
        BY <2>1, <3>1 DEF DInv, Typed
      <3>3. QED
        BY <3>1, <3>2 DEF MetaSound
    <2>2. CASE proc[q].at \notin Recording
      BY <2>2 DEF DInv, Typed, MetaSound, Holds
    <2>3. QED
      BY <2>1, <2>2
  <1>5. Typed'
    BY <1>2, <1>4 DEF DInv, Typed, exports, analysis
  <1>6. CertificatesAreTrue'
    BY DEF DInv, exports, analysis, CertificatesAreTrue, MarkerCertifies, CsvAccepted,
           ReportBindsArtifacts, ComparisonBindsReports
  <1>7. KnowsTheFiles(q)' /\ KnowsTheMarkers(q)' /\ KnowsItsStart(q)'
    BY <1>1, <1>2 DEF KnowsTheFiles, KnowsTheMarkers, KnowsItsStart
  <1>8. SeedStays /\ proc'[q].at \notin Holding
    BY <1>1, <1>2, <1>4 DEF SeedStays, Holding
  <1>9. QED
    BY <1>2, <1>3, <1>4, <1>5, <1>6, <1>7, <1>8, HolderStep

\* An analysis or an export that raises only gives up.
LEMMA PublicationRaises ==
  ASSUME DInv, NEW q \in Process, proc[q].at \in Analysing \cup Exporting,
         Goto(q, "unlock") \/ Goto(q, "exported"), stops' \in 0 .. MaxStops,
         UNCHANGED <<native, exports, analysis, locks, commands>>
  PROVE  DInv'
  <1>1. lock = q
    BY HasTheLock DEF Analysing, Exporting, Items, Holding
  <1>2. Moved(q) /\ proc'[q].at \in {"unlock", "exported"}
    BY GotoMoves DEF DInv, Typed, Holding
  <1>3. Typed' /\ MetaSound' /\ CertificatesAreTrue' /\ SeedStays
    BY <1>2, FilesKept DEF Kept, DInv, Typed, Moved, locks
  <1>4. KnowsTheFiles(q)' /\ KnowsTheMarkers(q)' /\ KnowsItsStart(q)'
    BY <1>2 DEF KnowsTheFiles, KnowsTheMarkers, KnowsItsStart, Generating
  <1>5. proc'[q].at \in Holding
    BY <1>2 DEF Holding
  <1>6. QED
    BY <1>1, <1>2, <1>3, <1>4, <1>5, HolderStep DEF Moved, locks

\* An exception on the way.
LEMMA RaisesStep == ASSUME DInv, NEW q \in Process, Raises(q) PROVE DInv'
  <1>1. stops' \in 0 .. MaxStops
    BY DatasetAssumption DEF DatasetAssumption, Raises, Stopped, DInv, Typed
  <1>2. CASE proc[q].at \in Acquiring
    BY <1>1, <1>2, SessionRaises DEF Raises, Acquiring, Analysing, Exporting, Items, Recording
  <1>3. CASE proc[q].at \in Analysing \cup Exporting
    <2>1. /\ UNCHANGED <<native, exports, analysis, locks, commands>>
          /\ Goto(q, "unlock") \/ Goto(q, "exported")
      BY <1>3
      DEF Raises, Acquiring, Analysing, Exporting, Items, Recording, native
    <2>2. QED
      BY <1>1, <1>3, <2>1, PublicationRaises
  <1>4. QED
    BY <1>2, <1>3 DEF Raises

-----------------------------------------------------------------------------
\* The invariant holds in the states a campaign starts from.
LEMMA InitDInv == Init => DInv
  <1> SUFFICES ASSUME Init PROVE DInv
    OBVIOUS
  <1>1. Typed
    <2>1. trace \in Files
      <3>1. CASE trace = Absent
        BY <3>1 DEF Files
      <3>2. CASE \E n \in 1 .. N : trace = [k \in 1 .. N |-> IF k <= n THEN 1 ELSE 0]
        BY <3>2, Numbers DEF Files
      <3>3. QED
        BY <3>1, <3>2 DEF Init
    <2>2. side \in [Sides -> Files]
      <3>1. Absent \in Files /\ [k \in 1 .. N |-> 1] \in Files
        BY Numbers DEF Files
      <3>2. QED
        BY <3>1 DEF Init
    <2>3. /\ meta \in [schema : {"none", "legacy", "v2"}, done : 0 .. N, seed : Seeds \cup {0}]
          /\ meta.done \in 0 .. N
      <3>1. NoMeta \in [schema : {"none", "legacy", "v2"}, done : 0 .. N, seed : Seeds \cup {0}]
        BY Numbers DEF NoMeta
      <3>2. \A n \in 1 .. N : [schema |-> "legacy", done |-> n, seed |-> 1]
              \in [schema : {"none", "legacy", "v2"}, done : 0 .. N, seed : Seeds \cup {0}]
        BY Numbers
      <3>3. QED
        BY <3>1, <3>2 DEF Init
    <2>4. /\ h5 \in -1 .. meta.done /\ csv \in Generations \cup {0}
          /\ marker \in Generations \cup {0}
          /\ artifact \in [Variants -> [Items -> Generations \cup {0}]]
          /\ comparison \in [Variants -> Generations \cup {0}]
      BY <2>3, NoComparisonTyped DEF Init
    <2>5. /\ report \in [Variants -> [gen : Generations \cup {0}, rows : 0 .. N]]
          /\ \A v \in Variants : report[v].rows <= meta.done
      BY <2>3, Numbers DEF Init, NoReport
    <2>6. proc \in [Process -> Commands]
      BY IdleIsCommand DEF Init
    <2>7. commands \in 0 .. MaxCommands /\ stops \in 0 .. MaxStops
      BY DatasetAssumption DEF DatasetAssumption, Init
    <2>8. QED
      BY <2>1, <2>2, <2>3, <2>4, <2>5, <2>6, <2>7 DEF Typed, Init
  <1>2. LockHeld
    BY Numbers DEF Init, LockHeld, Idle, Holding
  <1>3. MetaSound
    <2>1. CASE meta = NoMeta
      BY <2>1 DEF MetaSound, NoMeta
    <2>2. ASSUME NEW n \in 1 .. N, meta = [schema |-> "legacy", done |-> n, seed |-> 1],
                 trace = [k \in 1 .. N |-> IF k <= n THEN 1 ELSE 0]
          PROVE  MetaSound
      <3>1. \A k \in 1 .. n : trace[k] = 1
        BY <2>2, Numbers
      <3>2. trace # Absent
        <4>1. trace \in [1 .. N -> Seeds \cup {0}]
          BY <2>2, Numbers
        <4>2. QED
          BY <4>1, PresentFiles
      <3>3. QED
        BY <2>2, <3>1, <3>2, Numbers DEF MetaSound, Holds
    <2>3. QED
      BY <2>1, <2>2 DEF Init
  <1>4. CertificatesAreTrue
    BY DEF Init, CertificatesAreTrue, MarkerCertifies, ReportBindsArtifacts, NoReport,
           ComparisonBindsReports
  <1>5. ASSUME NEW q \in Process
        PROVE  KnowsTheFiles(q) /\ KnowsTheMarkers(q) /\ KnowsItsStart(q)
    BY DEF Init, Idle, KnowsTheFiles, KnowsTheMarkers, KnowsItsStart
  <1>6. QED
    BY <1>1, <1>2, <1>3, <1>4, <1>5 DEF DInv

\* It survives every step of a command.
LEMMA WorksStep == ASSUME DInv, NEW q \in Process, Works(q) PROVE DInv'
  <1>1. CASE Peek(q) \/ Finalise(q) \/ TakeBench(q) \/ TakeDataset(q) \/ ResolveSeed(q) \/ Alloc(q)
    BY <1>1, PeekStep, FinaliseStep, TakeBenchStep, TakeDatasetStep, ResolveSeedStep, AllocStep
  <1>2. CASE WriteTrace(q) \/ WriteSidecar(q) \/ PublishMeta(q) \/ AppendRow(q) \/ Checkpoint(q)
    BY <1>2, WriteTraceStep, WriteSidecarStep, PublishMetaStep, AppendRowStep, CheckpointStep
  <1>3. CASE Release(q) \/ Unbench(q) \/ TakeForAnalysis(q) \/ InvalidateComparison(q)
    BY <1>3, ReleaseStep, UnbenchStep, TakeForAnalysisStep, InvalidateComparisonStep
  <1>4. CASE StartPublication(q) \/ WriteArtifact(q) \/ WriteReport(q) \/ WriteComparison(q)
             \/ EndAnalysis(q)
    BY <1>4, StartPublicationStep, WriteArtifactStep, WriteReportStep, WriteComparisonStep,
       EndAnalysisStep
  <1>5. CASE TakeForExport(q) \/ ExportH5(q) \/ EndH5(q) \/ DropMarker(q) \/ ReplaceCsv(q)
             \/ ReplaceMarker(q) \/ EndExport(q) \/ End(q)
    BY <1>5, TakeForExportStep, ExportH5Step, EndH5Step, DropMarkerStep, ReplaceCsvStep,
       ReplaceMarkerStep, EndExportStep, EndStep
  <1>6. QED
    BY <1>1, <1>2, <1>3, <1>4, <1>5 DEF Works

\* It survives every step.
LEMMA NextDInv == DInv /\ [Next]_vars => DInv'
  <1> SUFFICES ASSUME DInv, [Next]_vars PROVE DInv'
    OBVIOUS
  <1>1. CASE Next
    BY <1>1, BeginStep, WorksStep, RaisesStep, KillStep DEF Next
  <1>2. CASE UNCHANGED vars
    <2> USE <1>2 DEF vars, native, exports, analysis, locks, history
    <2>1. Typed' /\ LockHeld' /\ MetaSound' /\ CertificatesAreTrue'
      BY FilesKept DEF Kept, DInv, Typed, LockHeld
    <2>2. ASSUME NEW p \in Process
          PROVE  KnowsTheFiles(p)' /\ KnowsTheMarkers(p)' /\ KnowsItsStart(p)'
      BY DEF DInv, KnowsTheFiles, KnowsTheMarkers, KnowsItsStart, Holds
    <2>3. QED
      BY <2>1, <2>2 DEF DInv
  <1>3. QED
    BY <1>1, <1>2

\* It holds in every state that can be reached.
LEMMA SpecDInv == Spec => []DInv
  BY InitDInv, NextDInv, PTL DEF Spec

\* Whoever reads the metadata finds the experiment that it describes: every row below
\* done in every file, all of the recorded seed, however many commands of however many
\* processes have raced for the dataset and wherever they were stopped.
THEOREM MetadataTellsTheTruth == Spec => []DatasetIsTrue
  <1>1. DInv => DatasetIsTrue
    <2> SUFFICES ASSUME DInv PROVE DatasetIsTrue
      OBVIOUS
    <2>1. TypeOK
      BY DEF DInv, Typed, TypeOK, Commands
    <2>2. MetadataIsTrue
      BY DEF DInv, MetaSound, Holds, MetadataIsTrue, Readable, Complete
    <2>3. OneExperiment
      BY DEF DInv, Typed, MetaSound, Holds, OneExperiment
    <2>4. QED
      BY <2>1, <2>2, <2>3 DEF DatasetIsTrue
  <1>2. QED
    BY <1>1, SpecDInv, PTL

\* A marker certifies the CSV file that is there, a report the artifacts that are
\* there, and a comparison the two reports that are there.
THEOREM MarkersTellTheTruth == Spec => []CertificatesAreTrue
  <1>1. DInv => CertificatesAreTrue
    BY DEF DInv
  <1>2. QED
    BY <1>1, SpecDInv, PTL

-----------------------------------------------------------------------------
(* What a step may do.                                                     *)

\* The look at the metadata sends the command on, perhaps with the recorded seed.
LEMMA PeekMoves ==
  ASSUME DInv, NEW q \in Process, Peek(q)
  PROVE  \E p \in {"mismatch", "finalise", "bench", "end"}, s \in Seeds \cup {Default} :
           proc' = [proc EXCEPT ![q].at = p, ![q].seed = s]
  <1> DEFINE seed == IF proc[q].seed = Default THEN PeekedSeed(q) ELSE proc[q].seed
  <1>1. seed \in Seeds \cup {Default}
    BY DEF DInv, Typed, Commands, PeekedSeed, Default
  <1>2. \E p \in {"mismatch", "finalise", "bench", "end"} :
          proc' = [proc EXCEPT ![q].at = p, ![q].seed = seed]
    BY DEF Peek
  <1> HIDE DEF seed
  <1>3. QED
    BY <1>1, <1>2

\* Every step is of one process, and busy is only who finds the lock taken.
LEMMA StepOfOne ==
  ASSUME DInv, NEW q \in Process, Begin(q) \/ Works(q) \/ Raises(q) \/ Kill(q)
  PROVE  /\ OthersStay(q)
         /\ proc'[q].at = "busy" => lock # Nobody /\ proc[q].at \in Elsewhere
  <1>1. proc[q] \in Commands /\ proc \in [Process -> Commands]
    BY DEF DInv, Typed
  <1> USE <1>1 DEF OthersStay, Commands, Goto, At
  <1>2. CASE Begin(q)
    BY ZenonT(60), <1>2 DEF Begin, Idle
  <1>3. CASE Peek(q)
    <2>1. PICK p \in {"mismatch", "finalise", "bench", "end"}, s \in Seeds \cup {Default} :
            proc' = [proc EXCEPT ![q].at = p, ![q].seed = s]
      BY <1>3, PeekMoves
    <2>2. proc'[q].at = p /\ OthersStay(q)
      BY <2>1 DEF OthersStay
    <2>3. QED
      BY <1>3, <2>1, <2>2 DEF Peek
  <1>4. CASE Finalise(q) \/ TakeBench(q) \/ ResolveSeed(q)
    BY <1>4 DEF Finalise, TakeBench, ResolveSeed
  <1>5. CASE Alloc(q)
    BY <1>5 DEF Alloc
  <1>6. CASE WriteTrace(q) \/ WriteSidecar(q) \/ PublishMeta(q)
    BY <1>6 DEF WriteTrace, WriteSidecar, PublishMeta, AfterSidecar
  <1>7. CASE AppendRow(q) \/ Checkpoint(q) \/ Release(q) \/ Unbench(q)
    BY <1>7 DEF AppendRow, Checkpoint, Release, Unbench
  <1>8. CASE TakeDataset(q) \/ TakeForAnalysis(q) \/ TakeForExport(q)
    BY <1>8 DEF TakeDataset, TakeForAnalysis, TakeForExport, TakeLock, Elsewhere
  <1>9. CASE InvalidateComparison(q) \/ StartPublication(q) \/ WriteArtifact(q)
    BY <1>9 DEF InvalidateComparison, StartPublication, WriteArtifact
  <1>10. CASE WriteReport(q) \/ WriteComparison(q) \/ EndAnalysis(q)
    BY <1>10 DEF WriteReport, WriteComparison, EndAnalysis
  <1>11. CASE ExportH5(q) \/ EndH5(q) \/ DropMarker(q) \/ ReplaceCsv(q) \/ ReplaceMarker(q)
              \/ EndExport(q)
    BY <1>11 DEF ExportH5, EndH5, DropMarker, ReplaceCsv, ReplaceMarker, EndExport
  <1>12. CASE End(q) \/ Kill(q)
    BY <1>12 DEF End, Kill, Idle
  <1>13. CASE Raises(q)
    BY <1>13 DEF Raises, Idle
  <1>14. QED
    BY <1>2, <1>3, <1>5, <1>6, <1>7, <1>8, <1>9, <1>10, <1>11, <1>12, <1>13, <1>4 DEF Works

\* The other steps of a command neither are of a recording session nor begin one, and
\* they touch neither the traces nor the metadata.
LEMMA StepsBesideTheLog ==
  ASSUME DInv, NEW q \in Process, Begin(q) \/ Works(q) \/ Raises(q) \/ Kill(q),
         ~ Alloc(q), ~ WriteTrace(q), ~ PublishMeta(q), ~ AppendRow(q), ~ Checkpoint(q),
         proc[q].at \notin Recording
  PROVE  UNCHANGED <<trace, meta>> /\ proc'[q].at \notin Recording
  <1>1. proc[q] \in Commands /\ proc \in [Process -> Commands]
    BY DEF DInv, Typed
  <1> USE <1>1 DEF Commands, Goto, At, Recording, native
  <1>2. CASE Begin(q)
    <2>1. UNCHANGED <<trace, meta>>
      BY <1>2 DEF Begin
    <2>2. \/ \E s \in {Default, 1} : proc'[q] = [Idle EXCEPT !.at = "peek", !.asked = s, !.seed = s]
          \/ \E v \in Variants : proc'[q] = [Idle EXCEPT !.at = "analyse", !.alone = TRUE,
                                                        !.variant = v]
          \/ \E e \in {"h5", "csv"} : proc'[q] = [Idle EXCEPT !.at = e, !.alone = TRUE]
      BY <1>2 DEF Begin
    <2>3. proc'[q].at \in {"peek", "analyse", "h5", "csv"}
      BY <2>2 DEF Idle
    <2>4. QED
      BY <2>1, <2>3
  <1>3. CASE Peek(q)
    <2>1. PICK p \in {"mismatch", "finalise", "bench", "end"}, s \in Seeds \cup {Default} :
            proc' = [proc EXCEPT ![q].at = p, ![q].seed = s]
      BY <1>3, PeekMoves
    <2>2. proc'[q].at = p
      BY <2>1
    <2>3. QED
      BY <1>3, <2>1, <2>2 DEF Peek
  <1>4. CASE Finalise(q) \/ TakeBench(q) \/ ResolveSeed(q)
    BY <1>4 DEF Finalise, TakeBench, ResolveSeed
  <1>5. CASE WriteSidecar(q) \/ Release(q) \/ Unbench(q)
    BY <1>5 DEF WriteSidecar, AfterSidecar, Release, Unbench
  <1>6. CASE TakeDataset(q) \/ TakeForAnalysis(q) \/ TakeForExport(q)
    BY <1>6 DEF TakeDataset, TakeForAnalysis, TakeForExport, TakeLock
  <1>7. CASE InvalidateComparison(q) \/ StartPublication(q) \/ WriteArtifact(q)
    BY <1>7 DEF InvalidateComparison, StartPublication, WriteArtifact
  <1>8. CASE WriteReport(q) \/ WriteComparison(q) \/ EndAnalysis(q)
    BY <1>8 DEF WriteReport, WriteComparison, EndAnalysis
  <1>9. CASE ExportH5(q) \/ EndH5(q) \/ DropMarker(q) \/ ReplaceCsv(q) \/ ReplaceMarker(q)
             \/ EndExport(q)
    BY <1>9 DEF ExportH5, EndH5, DropMarker, ReplaceCsv, ReplaceMarker, EndExport
  <1>10. CASE End(q) \/ Kill(q)
    BY <1>10 DEF End, Kill, Idle
  <1>11. CASE Raises(q)
    BY <1>11 DEF Raises, Idle
  <1>12. QED
    BY <1>2, <1>3, <1>5, <1>6, <1>7, <1>8, <1>9, <1>10, <1>11, <1>4 DEF Works

\* A command is told that the dataset is busy only while another process has it, and
\* refused for its seed only when its user has named one: no command is in its own way,
\* and none loses a race for the seed.
THEOREM RefusalsHaveACause == Spec => RefusalsAreEarned
  <1>1. ASSUME DInv, [Next]_vars PROVE [BusyMeansAnother]_vars
    <2>1. CASE UNCHANGED vars
      BY <2>1
    <2>2. ASSUME NEW q \in Process, Begin(q) \/ Works(q) \/ Raises(q) \/ Kill(q)
          PROVE  BusyMeansAnother
      <3> SUFFICES ASSUME NEW p \in Process, proc'[p].at = "busy", ~ At(p, "busy")
                   PROVE  lock \notin {p, Nobody}
        BY DEF BusyMeansAnother
      <3>1. p = q
        BY <1>1, <2>2, StepOfOne DEF OthersStay, At
      <3>2. lock # Nobody /\ proc[q].at \in Elsewhere
        BY <1>1, <2>2, <3>1, StepOfOne
      <3>3. proc[q].at \notin Holding
        BY <3>2 DEF Elsewhere, Holding
      <3>4. lock # q
        BY <1>1, <3>3 DEF DInv, LockHeld
      <3>5. QED
        BY <3>1, <3>2, <3>4
    <2>3. QED
      BY <1>1, <2>1, <2>2 DEF Next
  <1>2. DInv' => DefaultSeedAccepted'
    BY DEF DInv, KnowsItsStart, DefaultSeedAccepted
  <1>3. QED
    BY <1>1, <1>2, SpecDInv, NextDInv, PTL DEF Spec, RefusalsAreEarned

-----------------------------------------------------------------------------
(* The sessions implement the checkpointed log.                            *)

\* Sequences of the same elements are the same.
LEMMA SeqEqual ==
  ASSUME NEW S, NEW s \in Seq(S), NEW t \in Seq(S), Len(s) = Len(t),
         \A k \in 1 .. Len(s) : s[k] = t[k]
  PROVE  s = t
  OBVIOUS

\* Rows of recorded seeds are a sequence of them.
LEMMA RowsType ==
  ASSUME NEW t, NEW n \in Nat, \A k \in 1 .. n : t[k] \in Seeds
  PROVE  LET r == [k \in 1 .. n |-> t[k]]
         IN r \in Seq(Seeds) /\ Len(r) = n /\ \A k \in 1 .. n : r[k] = t[k]
  OBVIOUS

\* The first rows of a file are a prefix of more of them.
LEMMA RowsPrefix ==
  ASSUME NEW t, NEW n \in Nat, NEW m \in 0 .. n, \A k \in 1 .. n : t[k] \in Seeds
  PROVE  [k \in 1 .. m |-> t[k]] = Log!Prefix([k \in 1 .. n |-> t[k]], m)
  <1> DEFINE r == [k \in 1 .. n |-> t[k]]
             p == [k \in 1 .. m |-> t[k]]
  <1>1. r \in Seq(Seeds) /\ Len(r) = n /\ \A k \in 1 .. n : r[k] = t[k]
    BY RowsType
  <1>2. m \in Nat /\ \A k \in 1 .. m : t[k] \in Seeds /\ k \in 1 .. n
    OBVIOUS
  <1>3. p \in Seq(Seeds) /\ Len(p) = m /\ \A k \in 1 .. m : p[k] = t[k]
    BY <1>2, RowsType
  <1> HIDE DEF r, p
  <1>4. /\ SubSeq(r, 1, m) \in Seq(Seeds) /\ Len(SubSeq(r, 1, m)) = m
        /\ \A k \in 1 .. m : SubSeq(r, 1, m)[k] = r[k]
    BY <1>1, <1>2
  <1>5. p = SubSeq(r, 1, m)
    BY <1>1, <1>2, <1>3, <1>4, SeqEqual
  <1>6. QED
    BY <1>5 DEF Log!Prefix, r, p

\* One row more is one row at the end.
LEMMA RowsAppend ==
  ASSUME NEW t, NEW u, NEW n \in Nat, \A k \in 1 .. n : t[k] \in Seeds /\ u[k] = t[k],
         u[n + 1] \in Seeds
  PROVE  [k \in 1 .. n + 1 |-> u[k]] = Append([k \in 1 .. n |-> t[k]], u[n + 1])
  <1> DEFINE r == [k \in 1 .. n |-> t[k]]
             s == [k \in 1 .. n + 1 |-> u[k]]
             a == Append(r, u[n + 1])
  <1>1. r \in Seq(Seeds) /\ Len(r) = n /\ \A k \in 1 .. n : r[k] = t[k]
    BY RowsType
  <1>2. \A k \in 1 .. n + 1 : u[k] \in Seeds
    <2>1. \A k \in 1 .. n + 1 : k \in 1 .. n \/ k = n + 1
      OBVIOUS
    <2>2. QED
      BY <2>1
  <1>3. s \in Seq(Seeds) /\ Len(s) = n + 1 /\ \A k \in 1 .. n + 1 : s[k] = u[k]
    BY <1>2, RowsType
  <1> HIDE DEF r, s
  <1>4. /\ a \in Seq(Seeds) /\ Len(a) = n + 1 /\ \A k \in 1 .. n : a[k] = r[k]
        /\ a[n + 1] = u[n + 1]
    BY <1>1
  <1> HIDE DEF a
  <1>5. \A k \in 1 .. n + 1 : s[k] = a[k]
    BY <1>1, <1>3, <1>4
  <1>6. s = a
    BY <1>3, <1>4, <1>5, SeqEqual
  <1>7. QED
    BY <1>6 DEF r, s, a

\* What the log sees: the rows of the recording session, or those of the metadata.
Accepted == IF Session = {} THEN meta.done ELSE proc[lock].done

Seen ==
  /\ meta.done \in Nat /\ Accepted \in Nat /\ meta.done <= Accepted
  /\ \A k \in 1 .. Accepted : trace[k] \in Seeds
  /\ \A q \in Process : proc[q].at \in Recording => Accepted = proc[q].done
  /\ (\A q \in Process : proc[q].at \notin Recording) => Accepted = meta.done

\* The log never has fewer rows accepted than committed.
LEMMA LogView == DInv => Seen
  <1> SUFFICES ASSUME DInv PROVE Seen
    OBVIOUS
  <1>1. meta.done \in Nat
    BY DEF DInv, Typed
  <1>2. ASSUME NEW q \in Process, proc[q].at \in Recording
        PROVE  /\ Accepted = proc[q].done /\ Accepted \in Nat /\ meta.done <= Accepted
               /\ \A k \in 1 .. Accepted : trace[k] \in Seeds
    <2>1. /\ lock = q /\ proc[q].done \in 0 .. N /\ proc[q].seed \in Seeds
          /\ meta.done \in 0 .. proc[q].done /\ Holds(trace, proc[q].done, proc[q].seed)
      BY <1>2, RecordingFacts
    <2>2. Session # {}
      BY <1>2, <2>1 DEF Session
    <2>3. Accepted = proc[q].done
      BY <2>1, <2>2 DEF Accepted
    <2>4. QED
      BY <2>1, <2>3 DEF Holds
  <1>3. ASSUME \A q \in Process : proc[q].at \notin Recording
        PROVE  /\ Accepted = meta.done
               /\ \A k \in 1 .. Accepted : trace[k] \in Seeds
    <2>1. Session = {}
      BY <1>3 DEF Session
    <2>2. \A k \in 1 .. meta.done : trace[k] \in Seeds
      BY <1>1 DEF DInv, MetaSound, Holds
    <2>3. QED
      BY <2>1, <2>2 DEF Accepted
  <1>4. QED
    BY <1>1, <1>2, <1>3 DEF Seen

\* And after a step.
LEMMA LogViewAfter == DInv' => Seen'
  BY LogView, PTL

\* Only the session with the lock records.
LEMMA OneRecorder ==
  ASSUME DInv, NEW q \in Process, proc[q].at \in Holding
  PROVE  \A p \in Process : p # q => proc[p].at \notin Recording
  BY DEF DInv, LockHeld, Recording, Holding

\* A step of the session that has the lock and ends with all its rows in the metadata.
LEMMA LogIsWithTheHolder ==
  ASSUME DInv, DInv', NEW q \in Process, OthersStay(q), proc[q].at \in Holding
  PROVE  /\ Accepted = IF proc[q].at \in Recording THEN proc[q].done ELSE meta.done
         /\ Accepted' = IF proc'[q].at \in Recording THEN proc'[q].done ELSE meta'.done
  <1>1. \A p \in Process : p # q => proc[p].at \notin Recording /\ proc'[p].at \notin Recording
    BY OneRecorder DEF OthersStay
  <1>2. \A p \in Process : proc[p].at \in Recording => Accepted = proc[p].done
    BY LogView DEF Seen
  <1>3. (\A p \in Process : proc[p].at \notin Recording) => Accepted = meta.done
    BY LogView DEF Seen
  <1>4. \A p \in Process : proc'[p].at \in Recording => Accepted' = proc'[p].done
    BY LogViewAfter DEF Seen
  <1>5. (\A p \in Process : proc'[p].at \notin Recording) => Accepted' = meta'.done
    BY LogViewAfter DEF Seen
  <1>6. QED
    BY <1>1, <1>2, <1>3, <1>4, <1>5

\* A step of a process that does not record and changes neither traces nor metadata.
LEMMA BesideTheLog ==
  ASSUME DInv, DInv', NEW q \in Process, OthersStay(q), UNCHANGED <<trace, meta>>,
         proc[q].at \notin Recording, proc'[q].at \notin Recording
  PROVE  UNCHANGED Log!vars
  <1>1. Accepted' = Accepted
    <2>1. CASE \E p \in Process : proc[p].at \in Recording
      <3>1. PICK p \in Process : proc[p].at \in Recording
        BY <2>1
      <3>2. proc'[p] = proc[p]
        BY <3>1 DEF OthersStay
      <3>3. Accepted = proc[p].done
        BY <3>1, LogView DEF Seen
      <3>4. Accepted' = proc'[p].done
        BY <3>1, <3>2, LogViewAfter DEF Seen
      <3>5. QED
        BY <3>2, <3>3, <3>4
    <2>2. CASE \A p \in Process : proc[p].at \notin Recording
      <3>1. \A p \in Process : proc'[p].at \notin Recording
        BY <2>2 DEF OthersStay
      <3>2. Accepted = meta.done
        BY <2>2, LogView DEF Seen
      <3>3. Accepted' = meta'.done
        BY <3>1, LogViewAfter DEF Seen
      <3>4. QED
        BY <3>2, <3>3
    <2>3. QED
      BY <2>1, <2>2
  <1>2. QED
    BY <1>1 DEF Log!vars, Rows, Accepted

\* A step of the holder of the lock before it records.
LEMMA BeforeTheLog ==
  ASSUME DInv, DInv', NEW q \in Process, OthersStay(q),
         proc[q].at \in Holding, proc[q].at \notin Recording,
         meta'.done = meta.done, meta.done = 0 \/ UNCHANGED trace,
         proc'[q].at \in Recording => proc'[q].done = meta.done
  PROVE  UNCHANGED Log!vars
  <1>1. Accepted = meta.done /\ Accepted' = meta.done
    BY LogIsWithTheHolder
  <1>2. Rows(meta.done)' = Rows(meta.done)
    BY DEF Rows
  <1>3. QED
    BY <1>1, <1>2 DEF Log!vars, Rows, Accepted

\* A checkpoint commits all rows that the session has.
LEMMA CheckpointCommits ==
  ASSUME DInv, DInv', NEW q \in Process, OthersStay(q), proc[q].at \in Recording,
         UNCHANGED trace, meta'.done = proc[q].done,
         proc'[q].at \in Recording => proc'[q].done = proc[q].done
  PROVE  Log!Commit
  <1>1. Accepted = proc[q].done /\ Accepted' = Accepted
    BY LogIsWithTheHolder DEF Recording, Holding
  <1>2. /\ Accepted \in Nat /\ meta.done \in 0 .. Accepted
        /\ \A k \in 1 .. Accepted : trace[k] \in Seeds
    BY LogView DEF Seen
  <1>3. Rows(meta.done)' = Rows(Accepted) /\ Rows(Accepted)' = Rows(Accepted)
    BY <1>1 DEF Rows
  <1>4. /\ Len(Rows(Accepted)) = Accepted /\ Len(Rows(meta.done)) = meta.done
    <2>1. meta.done \in Nat /\ \A k \in 1 .. meta.done : trace[k] \in Seeds
      BY <1>2
    <2>2. QED
      BY <1>2, <2>1, RowsType DEF Rows
  <1>5. Rows(Accepted) = Log!Prefix(Rows(Accepted), Accepted)
    BY <1>2, RowsPrefix DEF Rows
  <1>6. Accepted \in Len(Rows(meta.done)) .. Len(Rows(Accepted))
    BY <1>2, <1>4
  <1>7. QED
    BY <1>3, <1>5, <1>6 DEF Log!Commit, Accepted

\* The session that is killed loses the rows after its last checkpoint.
LEMMA KillLoses ==
  ASSUME DInv, DInv', NEW q \in Process, OthersStay(q), proc[q].at \in Recording,
         UNCHANGED <<trace, meta>>, proc'[q].at \notin Recording
  PROVE  Log!Lose
  <1>1. Accepted = proc[q].done /\ Accepted' = meta.done
    BY LogIsWithTheHolder DEF Recording, Holding
  <1>2. /\ Accepted \in Nat /\ meta.done \in 0 .. Accepted
        /\ \A k \in 1 .. Accepted : trace[k] \in Seeds
    BY LogView DEF Seen
  <1>3. Rows(meta.done)' = Rows(meta.done) /\ Rows(Accepted)' = Rows(meta.done)
    BY <1>1 DEF Rows
  <1>4. /\ Len(Rows(Accepted)) = Accepted /\ Len(Rows(meta.done)) = meta.done
    <2>1. meta.done \in Nat /\ \A k \in 1 .. meta.done : trace[k] \in Seeds
      BY <1>2
    <2>2. QED
      BY <1>2, <2>1, RowsType DEF Rows
  <1>5. Rows(meta.done) = Log!Prefix(Rows(Accepted), meta.done)
    BY <1>2, RowsPrefix DEF Rows
  <1>6. meta.done \in Len(Rows(meta.done)) .. Len(Rows(Accepted))
    BY <1>2, <1>4
  <1>7. QED
    BY <1>3, <1>5, <1>6 DEF Log!Lose, Accepted

\* A captured row is accepted.
LEMMA AppendAccepts ==
  ASSUME DInv, DInv', NEW q \in Process, OthersStay(q), AppendRow(q)
  PROVE  Log!Accept
  <1> DEFINE n == proc[q].done
             s == proc[q].seed
  <1>1. proc[q].at = "capture" /\ n < N /\ UNCHANGED meta
        /\ trace' = [trace EXCEPT ![n + 1] = s]
    BY DEF AppendRow, At
  <1>2. /\ proc[q] \in Commands /\ n \in 0 .. N /\ s \in Seeds /\ meta.done \in 0 .. n
        /\ trace \in [1 .. N -> Seeds \cup {0}]
    BY <1>1, RecordingFacts DEF Recording
  <1>3. proc'[q].at \in Recording /\ proc'[q].done = n + 1
    BY <1>2 DEF AppendRow, Recording, Commands, DInv, Typed
  <1>4. Accepted = n /\ Accepted' = n + 1
    BY <1>1, <1>3, LogIsWithTheHolder DEF Recording, Holding
  <1>5. \A k \in 1 .. n : trace[k] \in Seeds /\ trace'[k] = trace[k]
    BY <1>1, <1>2, <1>4, LogView DEF Seen
  <1>6. trace'[n + 1] = s
    BY <1>1, <1>2, Numbers
  <1>7. Rows(Accepted)' = Append(Rows(Accepted), s)
    <2>1. n \in Nat
      BY <1>2
    <2>2. [k \in 1 .. n + 1 |-> trace'[k]] = Append([k \in 1 .. n |-> trace[k]], trace'[n + 1])
      BY <1>2, <1>5, <1>6, <2>1, RowsAppend
    <2>3. QED
      BY <1>4, <1>6, <2>2 DEF Rows
  <1>8. Rows(meta.done)' = Rows(meta.done)
    <2>1. \A k \in 1 .. meta.done : trace'[k] = trace[k]
      BY <1>2, <1>5
    <2>2. QED
      BY <1>1, <2>1 DEF Rows
  <1>9. QED
    BY <1>2, <1>7, <1>8 DEF Log!Accept, Accepted

\* Every step of a command is a step of the log, or invisible in it.
LEMMA LogStep ==
  ASSUME DInv, DInv', NEW q \in Process, Begin(q) \/ Works(q) \/ Raises(q) \/ Kill(q)
  PROVE  [Log!Next]_<<Log!vars>>
  <1>1. OthersStay(q) /\ proc[q] \in Commands /\ proc \in [Process -> Commands]
    BY StepOfOne DEF DInv, Typed
  <1>2. CASE proc[q].at \in Recording
    <2>1. AppendRow(q) \/ Checkpoint(q) \/ Raises(q) \/ Kill(q)
      BY <1>2 DEF Recording, Begin, Works, At, Peek, Finalise, TakeBench, TakeDataset,
         ResolveSeed, Alloc, WriteTrace, WriteSidecar, PublishMeta, Release, Unbench,
         TakeForAnalysis, InvalidateComparison, StartPublication, WriteArtifact, Items,
         WriteReport, WriteComparison, EndAnalysis, TakeForExport, ExportH5, EndH5,
         DropMarker, ReplaceCsv, ReplaceMarker, EndExport, End
    <2>2. /\ proc[q].done \in 0 .. N /\ meta \in [schema : {"none", "legacy", "v2"}, done : 0 .. N,
                                                 seed : Seeds \cup {0}]
      BY <1>1 DEF Commands, DInv, Typed
    <2>3. CASE AppendRow(q)
      BY <1>1, <2>3, AppendAccepts DEF Log!Next
    <2>4. CASE Checkpoint(q)
      <3>1. UNCHANGED trace /\ meta'.done = proc[q].done /\ proc'[q].done = proc[q].done
        BY <1>1, <2>2, <2>4 DEF Checkpoint, Goto, Commands
      <3>2. QED
        BY <1>1, <1>2, <3>1, CheckpointCommits DEF Log!Next
    <2>5. CASE Raises(q)
      <3>1. UNCHANGED trace /\ meta'.done = proc[q].done /\ proc'[q].at = "end"
        BY <1>1, <1>2, <2>2, <2>5 DEF Raises, Recording, Analysing, Exporting, Items, Idle
      <3>2. QED
        BY <1>1, <1>2, <3>1, CheckpointCommits DEF Log!Next, Recording
    <2>6. CASE Kill(q)
      <3>1. UNCHANGED <<trace, meta>> /\ proc'[q].at = "idle"
        BY <1>1, <2>6 DEF Kill, native, Idle
      <3>2. QED
        BY <1>1, <1>2, <3>1, KillLoses DEF Log!Next, Recording
    <2>7. QED
      BY <2>1, <2>3, <2>4, <2>5, <2>6
  <1>3. CASE proc[q].at \notin Recording
    <2>1. ~ AppendRow(q) /\ ~ Checkpoint(q)
      BY <1>3 DEF AppendRow, Checkpoint, At, Recording
    <2>2. CASE Alloc(q)
      <3>1. /\ proc[q].at = "alloc" /\ UNCHANGED <<trace, meta>>
            /\ proc'[q].at \in Recording => proc'[q].done = meta.done
        BY <1>1, <2>2 DEF Alloc, At, Goto, native, Recording, Commands, ResumeIndex
      <3>2. QED
        BY <1>1, <3>1, BeforeTheLog DEF Recording, Holding
    <2>3. CASE WriteTrace(q)
      <3>1. proc[q].at = "fresh" /\ UNCHANGED meta /\ proc'[q].at = "create"
        BY <1>1, <2>3 DEF WriteTrace, At, Commands
      <3>2. meta.done = 0
        BY <3>1 DEF DInv, KnowsTheFiles, MetaSound
      <3>3. QED
        BY <1>1, <3>1, <3>2, BeforeTheLog DEF Recording, Holding
    <2>4. CASE PublishMeta(q)
      <3>1. /\ proc[q].at = "publish" /\ UNCHANGED trace /\ meta'.done = proc[q].done
            /\ proc'[q].done = proc[q].done
        BY <1>1, <2>4 DEF PublishMeta, At, Goto, Commands
      <3>2. proc[q].done = meta.done
        BY <3>1 DEF DInv, KnowsTheFiles
      <3>3. QED
        BY <1>1, <3>1, <3>2, BeforeTheLog DEF Recording, Holding
    <2>5. CASE ~ Alloc(q) /\ ~ WriteTrace(q) /\ ~ PublishMeta(q)
      <3>1. UNCHANGED <<trace, meta>> /\ proc'[q].at \notin Recording
        BY <1>3, <2>1, <2>5, StepsBesideTheLog
      <3>2. QED
        BY <1>1, <1>3, <3>1, BesideTheLog
    <2>6. QED
      BY <2>2, <2>3, <2>4, <2>5
  <1>4. QED
    BY <1>2, <1>3

\* Sessions of any number of processes, one after the other or racing, are one log: a
\* published row never changes and never goes, a row is lost only with the session that
\* had not checkpointed it, and no creation writes over a file of an earlier campaign.
THEOREM PublishedRowsStay == Spec => CapturedRowsStay
  <1>1. ASSUME DInv, DInv', [Next]_vars PROVE [[Log!Next]_<<Log!vars>>]_vars
    <2>1. CASE UNCHANGED vars
      BY <2>1
    <2>2. CASE Next
      BY <1>1, <2>2, LogStep DEF Next
    <2>3. QED
      BY <1>1, <2>1, <2>2
  <1>2. DInv => NothingOverwritten
    BY DEF DInv, KnowsTheFiles, NothingOverwritten, At
  <1>3. QED
    BY <1>1, <1>2, SpecDInv, NextDInv, PTL DEF Spec, CapturedRowsStay
===============================================================================
