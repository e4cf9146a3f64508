----------------------------- MODULE PruneProofs ----------------------------
(***************************************************************************)
(* Proofs about what Prune leaves in the cache of FileCache, for any       *)
(* bodies, quotas, ingestions and readers: however many files there are.   *)
(***************************************************************************)
EXTENDS FileCacheProofs, FiniteSetTheorems, WellFoundedInduction

-----------------------------------------------------------------------------
(* The inductive invariant, of a Prune that nobody disturbs.               *)

SizeOf(S) == MapThenSumSet(Blocks, S)
ListedFiles == {e.file : e \in prune.listed}

\* What is listed is there, as old as listed, and is counted.
Tallied ==
    prune.st \in {"list", "evict", "remove"} =>
        /\ \A e \in prune.listed : mtime[e.file] = e.ts
        /\ prune.total = SizeOf(ListedFiles)

\* Every file is listed once, or is still to come.
Covered ==
    /\ prune.st = "list" =>
         /\ prune.removed = {}
         /\ \A f \in prune.pend : Exists(f) /\ f \notin ListedFiles
         /\ \A f \in prune.pend \cup ListedFiles : DirOf[f[1]] \notin prune.dirs
         /\ \A f \in Cached : DirOf[f[1]] \in prune.dirs \/ f \in prune.pend \/ f \in ListedFiles
    /\ prune.st \in {"evict", "remove"} => Cached = ListedFiles

\* The oldest were removed, and none without need.
Ordered ==
    /\ prune.st \in {"evict", "remove"} =>
         /\ \A e \in prune.removed, o \in prune.listed : e.ts <= o.ts
         /\ prune.removed # {} => \E e \in prune.removed : prune.total + Blocks(e.file) > QuotaLow
    /\ prune.st = "remove" =>
         prune.total > QuotaLow /\ \A o \in prune.listed : prune.cur.ts <= o.ts

Outcome ==
    prune.st = "ended" /\ prune.result = "ok" =>
        /\ SizeOf(Cached) <= QuotaLow
        /\ prune.removed # {} => \E e \in prune.removed : SizeOf(Cached) + Blocks(e.file) > QuotaLow
        /\ \A e \in prune.removed, f \in Cached : e.ts <= mtime[f]

PruneInv ==
    /\ IsFiniteSet(Cached)
    /\ ~disturbed => Tallied /\ Covered /\ Ordered /\ Outcome

-----------------------------------------------------------------------------
(* The size of a set of files, which is a fold over the set.               *)

Pick(S) == CHOOSE x \in S : TRUE

\* MapThenSumSet as a function of the sets in D.
Summing(g, D) == g = [s \in D |-> IF s = {} THEN 0 ELSE Blocks(Pick(s)) + g[s \ {Pick(s)}]]

SumsUp(g, S) == Summing(g, SUBSET S)

\* The subsets of S with at most n elements.
UpTo(S, n) == {s \in SUBSET S : Cardinality(s) <= n}

LEMMA LeastExists ==
    ASSUME NEW S \in SUBSET Nat, S # {}
    PROVE  \E i \in S : \A j \in S : i <= j
<1>1. PICK i \in S : \A j \in S : ~(<<j, i>> \in OpToRel(<, Nat))
  BY NatLessThanWellFounded, WFMin
<1>2. \A j \in S : ~(j < i)
  BY <1>1 DEF OpToRel
<1> QED
  BY <1>2

\* Of some finite sets, one has the fewest elements.
LEMMA SmallestExists ==
    ASSUME NEW D, D # {}, \A s \in D : IsFiniteSet(s)
    PROVE  \E s \in D : \A t \in D : Cardinality(s) <= Cardinality(t)
<1>1. \A s \in D : Cardinality(s) \in Nat
  BY FS_CardinalityType
<1>2. {Cardinality(s) : s \in D} \in SUBSET Nat /\ {Cardinality(s) : s \in D} # {}
  BY <1>1
<1>3. PICK i \in {Cardinality(s) : s \in D} : \A j \in {Cardinality(s) : s \in D} : i <= j
  BY <1>2, LeastExists
<1> QED
  BY <1>3

LEMMA PickIsIn ==
    ASSUME NEW S, S # {}
    PROVE  Pick(S) \in S
BY DEF Pick

\* Without one of its elements a finite set is smaller.
LEMMA Smaller ==
    ASSUME NEW S, IsFiniteSet(S), NEW x \in S
    PROVE  /\ IsFiniteSet(S \ {x}) /\ Cardinality(S) \in Nat /\ Cardinality(S \ {x}) \in Nat
           /\ Cardinality(S \ {x}) = Cardinality(S) - 1
BY FS_RemoveElement, FS_CardinalityType

LEMMA SummingExtends ==
    ASSUME NEW S, IsFiniteSet(S), NEW n \in Nat,
           NEW g, Summing(g, UpTo(S, n))
    PROVE  \E h : Summing(h, UpTo(S, n + 1))
<1> DEFINE D == UpTo(S, n)
           E == UpTo(S, n + 1)
           h == [s \in E |-> IF s \in D THEN g[s] ELSE Blocks(Pick(s)) + g[s \ {Pick(s)}]]
           step(f, s) == IF s = {} THEN 0 ELSE Blocks(Pick(s)) + f[s \ {Pick(s)}]
<1>0. \A s \in SUBSET S : IsFiniteSet(s) /\ Cardinality(s) \in Nat
  BY FS_Subset, FS_CardinalityType
<1>1. D \subseteq E
  BY <1>0 DEF UpTo
<1>2. ASSUME NEW s \in E, s # {}
      PROVE  s \ {Pick(s)} \in D /\ s \ {Pick(s)} \in E
  <2>1. Cardinality(s \ {Pick(s)}) = Cardinality(s) - 1 /\ Cardinality(s) \in Nat
    BY <1>0, <1>2, PickIsIn, Smaller DEF UpTo
  <2> QED
    BY <1>1, <2>1 DEF UpTo
<1>3. ASSUME NEW s \in E PROVE h[s] = step(h, s)
  <2>1. CASE s = {}
    <3>1. s \in D
      BY <2>1, FS_EmptySet DEF UpTo
    <3>2. g[s] = 0
      BY <2>1, <3>1 DEF Summing
    <3> QED
      BY <2>1, <3>1, <3>2
  <2>2. CASE s # {}
    <3>1. PICK t : t = s \ {Pick(s)} /\ t \in D /\ t \in E
      BY <1>2, <2>2
    <3>2. h[t] = g[t]
      BY <3>1
    <3>3. step(h, s) = Blocks(Pick(s)) + g[t]
      BY <2>2, <3>1, <3>2
    <3>4. s \in D => g[s] = Blocks(Pick(s)) + g[t]
      BY <2>2, <3>1 DEF Summing
    <3>5. h[s] = Blocks(Pick(s)) + g[t]
      BY <3>1, <3>4
    <3> QED
      BY <3>3, <3>5
  <2> QED
    BY <2>1, <2>2
<1>4. h = [s \in E |-> step(h, s)]
  <2> HIDE DEF step
  <2>1. h = [s \in E |-> h[s]]
    OBVIOUS
  <2> HIDE DEF h
  <2> QED
    BY <1>3, <2>1
<1> HIDE DEF h
<1> QED
  BY <1>4 DEF Summing

LEMMA SummingExists ==
    ASSUME NEW S, IsFiniteSet(S)
    PROVE  \E g : Summing(g, SUBSET S)
<1> DEFINE Fails == {n \in Nat : ~\E g : Summing(g, UpTo(S, n))}
<1>1. \E g : Summing(g, UpTo(S, 0))
  <2>1. \A s \in UpTo(S, 0) : s = {}
    <3> SUFFICES ASSUME NEW s \in UpTo(S, 0) PROVE s = {}
      OBVIOUS
    <3>1. IsFiniteSet(s) /\ Cardinality(s) \in Nat
      BY FS_Subset, FS_CardinalityType DEF UpTo
    <3>2. Cardinality(s) = 0
      BY <3>1 DEF UpTo
    <3> QED
      BY <3>1, <3>2, FS_EmptySet
  <2>2. Summing([s \in UpTo(S, 0) |-> 0], UpTo(S, 0))
    BY <2>1 DEF Summing
  <2> QED
    BY <2>2
<1>2. Fails = {}
  <2> SUFFICES ASSUME Fails # {} PROVE FALSE
    OBVIOUS
  <2>1. PICK m \in Fails : \A j \in Fails : m <= j
    BY LeastExists
  <2>2. m # 0
    BY <1>1, <2>1
  <2>3. m - 1 \in Nat /\ m - 1 \notin Fails
    BY <2>1, <2>2
  <2>4. PICK n \in Nat : n = m - 1
    BY <2>3
  <2>5. PICK g : Summing(g, UpTo(S, n))
    BY <2>3, <2>4
  <2>6. \E h : Summing(h, UpTo(S, n + 1))
    BY <2>5, SummingExtends
  <2>7. n + 1 = m
    BY <2>1, <2>4
  <2> QED
    BY <2>1, <2>6, <2>7
<1>3. Cardinality(S) \in Nat /\ UpTo(S, Cardinality(S)) = SUBSET S
  BY FS_CardinalityType, FS_Subset DEF UpTo
<1>4. Cardinality(S) \notin Fails
  BY <1>2
<1>5. \E g : Summing(g, UpTo(S, Cardinality(S)))
  BY <1>3, <1>4
<1> QED
  BY <1>3, <1>5

\* The fold does not depend on the set it is taken within.
LEMMA SummingAgrees ==
    ASSUME NEW S, IsFiniteSet(S), NEW g, SumsUp(g, S),
           NEW T, T \subseteq S, NEW h, SumsUp(h, T)
    PROVE  g[T] = h[T]
<1> DEFINE Differ == {s \in SUBSET T : g[s] # h[s]}
<1> SUFFICES ASSUME Differ # {} PROVE FALSE
  OBVIOUS
<1>1. \A s \in SUBSET S : IsFiniteSet(s)
  BY FS_Subset
<1>2. PICK s \in Differ : \A t \in Differ : Cardinality(s) <= Cardinality(t)
  BY <1>1, SmallestExists
<1>3. s \in SUBSET S /\ s \in SUBSET T /\ IsFiniteSet(s)
  BY <1>1, <1>2
<1>4. CASE s = {}
  <2>1. g[s] = 0 /\ h[s] = 0
    BY <1>3, <1>4 DEF SumsUp, Summing
  <2> QED
    BY <1>2, <2>1
<1>5. CASE s # {}
  <2>1. PICK t : t = s \ {Pick(s)}
    OBVIOUS
  <2>2. Cardinality(t) = Cardinality(s) - 1 /\ Cardinality(s) \in Nat
    BY <1>3, <1>5, <2>1, PickIsIn, Smaller
  <2>3. t \in SUBSET T /\ t \notin Differ
    BY <1>2, <1>3, <2>1, <2>2
  <2>4. g[s] = Blocks(Pick(s)) + g[t] /\ h[s] = Blocks(Pick(s)) + h[t]
    BY <1>3, <1>5, <2>1 DEF SumsUp, Summing
  <2> QED
    BY <1>2, <2>3, <2>4
<1> QED
  BY <1>4, <1>5

LEMMA SizeIsSum ==
    ASSUME NEW S, IsFiniteSet(S)
    PROVE  \E g : SumsUp(g, S) /\ SizeOf(S) = g[S]
<1>1. SizeOf(S) = (CHOOSE g : SumsUp(g, S))[S]
  BY DEF SizeOf, MapThenSumSet, MapThenFoldSet, SumsUp, Summing, Pick
<1> QED
  BY <1>1, SummingExists DEF SumsUp

LEMMA SizeStep ==
    ASSUME NEW S, IsFiniteSet(S)
    PROVE  SizeOf(S) = IF S = {} THEN 0 ELSE Blocks(Pick(S)) + SizeOf(S \ {Pick(S)})
<1>1. PICK g : SumsUp(g, S) /\ SizeOf(S) = g[S]
  BY SizeIsSum
<1>2. PICK T : T = S \ {Pick(S)}
  OBVIOUS
<1>2a. T \subseteq S
  BY <1>2
<1>3. IsFiniteSet(T)
  BY <1>2a, FS_Subset
<1>4. PICK h : SumsUp(h, T) /\ SizeOf(T) = h[T]
  BY <1>3, SizeIsSum
<1>5. g[T] = h[T]
  BY <1>1, <1>2a, <1>4, SummingAgrees
<1>6. g[S] = IF S = {} THEN 0 ELSE Blocks(Pick(S)) + g[T]
  BY <1>1, <1>2, <1>2a DEF SumsUp, Summing
<1> QED
  BY <1>1, <1>2, <1>4, <1>5, <1>6

LEMMA BlocksType ==
    ASSUME NEW f \in Files
    PROVE  Blocks(f) \in Nat /\ f[1] \in Contents
<1>1. PICK c \in Contents : \E n \in 0 .. Size[c] : f = <<c, n>>
  BY FileShape
<1>2. Size[c] \in Nat
  BY FileCacheAssumption
<1> QED
  BY <1>1, <1>2 DEF Blocks

\* The size of a set of files without one of them, whichever one.
LEMMA SizeRemove ==
    ASSUME NEW S, S \subseteq Files, IsFiniteSet(S)
    PROVE  SizeOf(S) \in Nat /\ \A x \in S : SizeOf(S) = Blocks(x) + SizeOf(S \ {x})
<1> DEFINE Good(s) == SizeOf(s) \in Nat /\ \A x \in s : SizeOf(s) = Blocks(x) + SizeOf(s \ {x})
           Wrong == {s \in SUBSET S : ~Good(s)}
<1> SUFFICES ASSUME Wrong # {} PROVE FALSE
  OBVIOUS
<1>0. \A t \in SUBSET S : t \notin Wrong => Good(t)
  OBVIOUS
<1>1. \A s \in SUBSET S : IsFiniteSet(s) /\ Cardinality(s) \in Nat
  BY FS_Subset, FS_CardinalityType
<1>2. PICK s \in Wrong : \A t \in Wrong : Cardinality(s) <= Cardinality(t)
  <2>1. \A t \in Wrong : IsFiniteSet(t)
    BY <1>1
  <2> HIDE DEF Wrong
  <2> QED
    BY <2>1, SmallestExists
<1>3. s \in SUBSET S /\ IsFiniteSet(s)
  BY <1>1, <1>2
<1>4. ASSUME NEW x \in s
      PROVE  Good(s \ {x}) /\ Blocks(x) \in Nat /\ IsFiniteSet(s \ {x})
  <2>1. Cardinality(s \ {x}) = Cardinality(s) - 1 /\ Cardinality(s) \in Nat /\ IsFiniteSet(s \ {x})
    BY <1>3, Smaller
  <2>2. s \ {x} \in SUBSET S /\ s \ {x} \notin Wrong
    <3>1. s \ {x} \in SUBSET S
      BY <1>3
    <3>2. ~(Cardinality(s) <= Cardinality(s \ {x}))
      BY <2>1
    <3> HIDE DEF Wrong
    <3> QED
      BY <1>2, <3>1, <3>2
  <2>3. Blocks(x) \in Nat
    BY <1>3, BlocksType
  <2>4. Good(s \ {x})
    <3> HIDE DEF Good, Wrong
    <3> QED
      BY <1>0, <2>2
  <2> QED
    BY <2>1, <2>3, <2>4
<1>5. CASE s = {}
  <2>1. SizeOf(s) = 0
    BY <1>3, <1>5, SizeStep
  <2>2. Good(s)
    BY <1>5, <2>1
  <2> HIDE DEF Good
  <2> QED
    BY <1>2, <2>2
<1>6. CASE s # {}
  <2>1. PICK c \in s : c = Pick(s) /\ SizeOf(s) = Blocks(c) + SizeOf(s \ {c})
    BY <1>3, <1>6, PickIsIn, SizeStep
  <2>2. SizeOf(s \ {c}) \in Nat /\ Blocks(c) \in Nat
    BY <1>4
  <2>3. ASSUME NEW x \in s PROVE SizeOf(s) = Blocks(x) + SizeOf(s \ {x})
    <3>1. CASE x = c
      BY <2>1, <3>1
    <3>2. CASE x # c
      <4>1. PICK r : r = (s \ {c}) \ {x}
        OBVIOUS
      <4>2. (s \ {x}) \ {c} = r /\ x \in s \ {c} /\ c \in s \ {x}
        BY <3>2, <4>1
      <4>3. SizeOf(s \ {c}) = Blocks(x) + SizeOf(r)
        <5>1. \A y \in s \ {c} : SizeOf(s \ {c}) = Blocks(y) + SizeOf((s \ {c}) \ {y})
          BY <1>4
        <5> QED
          BY <4>1, <4>2, <5>1
      <4>4. SizeOf(s \ {x}) = Blocks(c) + SizeOf(r)
        <5>1. \A y \in s \ {x} : SizeOf(s \ {x}) = Blocks(y) + SizeOf((s \ {x}) \ {y})
          BY <1>4
        <5> QED
          BY <4>2, <5>1
      <4>5. SizeOf(r) \in Nat /\ Blocks(x) \in Nat /\ Blocks(c) \in Nat
        <5>1. IsFiniteSet(r) /\ r \in SUBSET S /\ Cardinality(r) \in Nat
          BY <1>1, <1>3, <4>1
        <5>2. Cardinality(r) < Cardinality(s)
          <6>1. Cardinality(s \ {c}) = Cardinality(s) - 1 /\ Cardinality(s) \in Nat /\ IsFiniteSet(s \ {c})
            BY <1>3, Smaller
          <6>2. Cardinality(r) = Cardinality(s \ {c}) - 1
            BY <4>1, <4>2, <6>1, Smaller
          <6> QED
            BY <6>1, <6>2
        <5>3. r \notin Wrong
          BY <1>1, <1>2, <1>3, <5>1, <5>2
        <5> QED
          BY <1>4, <5>1, <5>3
      <4> QED
        BY <2>1, <4>3, <4>4, <4>5
    <3> QED
      BY <3>1, <3>2
  <2>4. SizeOf(s) \in Nat
    BY <2>1, <2>2
  <2> QED
    BY <1>2, <2>3, <2>4
<1> QED
  BY <1>5, <1>6

LEMMA SizeOfNone == SizeOf({}) = 0
BY SizeStep, FS_EmptySet

LEMMA SizeAdd ==
    ASSUME NEW S, S \subseteq Files, IsFiniteSet(S), NEW f \in Files, f \notin S
    PROVE  SizeOf(S \cup {f}) = SizeOf(S) + Blocks(f)
<1>1. PICK T : T = S \cup {f}
  OBVIOUS
<1>2. T \subseteq Files /\ IsFiniteSet(T) /\ T \ {f} = S /\ f \in T
  BY <1>1, FS_AddElement
<1>3. SizeOf(T) = Blocks(f) + SizeOf(S)
  BY <1>2, SizeRemove
<1>4. SizeOf(S) \in Nat /\ Blocks(f) \in Nat
  BY SizeRemove, BlocksType
<1> QED
  BY <1>1, <1>3, <1>4

-----------------------------------------------------------------------------
(* How steps change the files and what Prune knows of them.                *)

\* What was left by an earlier run is finite.
LEMMA InitPrune == Init => PruneInv
<1> SUFFICES ASSUME Init PROVE PruneInv
  OBVIOUS
<1>1. PICK kept \in SUBSET Kept :
          mtime = [f \in Files |-> IF \E c \in kept : f = Whole(c) THEN 0 ELSE NoFile]
  BY DEF Init
<1>2. IsFiniteSet(kept)
  BY FS_Subset, FileCacheAssumption
<1>3. \A c \in kept : c \in Contents
  BY FileCacheAssumption
<1>4. \A f : f \in Cached <=> \E c \in kept : f = Whole(c)
  BY <1>1, <1>3, WholeIsFile DEF Cached, Exists, NoFile
<1>5. PICK g : g = [c \in kept |-> Whole(c)]
  OBVIOUS
<1>6. g \in Surjection(kept, Cached)
  BY <1>4, <1>5 DEF Surjection
<1>7. IsFiniteSet(Cached)
  BY <1>2, <1>6, FS_Surjection
<1>8. prune.st = "idle"
  BY IdlePruneType DEF Init
<1> QED
  BY <1>7, <1>8 DEF PruneInv, Tallied, Covered, Ordered, Outcome

\* A Prune that somebody disturbs promises nothing.
LEMMA DisturbedStep ==
    ASSUME PruneInv, disturbed', NEW f, Cached' \subseteq Cached \cup {f}
    PROVE  PruneInv'
<1>1. IsFiniteSet(Cached \cup {f})
  BY FS_AddElement DEF PruneInv
<1>2. IsFiniteSet(Cached')
  BY <1>1, FS_Subset
<1> QED
  BY <1>2 DEF PruneInv

\* Nothing that Prune is about changes.
LEMMA ElsewhereStep ==
    ASSUME PruneInv, UNCHANGED <<mtime, prune, disturbed>>
    PROVE  PruneInv'
BY DEF PruneInv, Tallied, Covered, Ordered, Outcome, ListedFiles, Cached, Exists

\* What Prune lists are cached files, each listed once.
LEMMA ListedAreCached ==
    ASSUME FCInv, Tallied, prune.st \in {"list", "evict", "remove"}
    PROVE  /\ ListedFiles \subseteq Cached /\ Cached \subseteq Files
           /\ \A e \in prune.listed : e \in Listing /\ e.file \in Cached /\ e.ts = mtime[e.file]
           /\ \A e, o \in prune.listed : e.file = o.file => e = o
<1>1. \A e \in prune.listed : e \in Listing /\ e.file \in Files /\ e.ts \in Nat /\ mtime[e.file] = e.ts
  BY DEF FCInv, TypeOK, PruneRecords, Listing, Tallied
<1>2. \A e \in prune.listed : e.file \in Cached
  BY <1>1 DEF Cached, Exists, NoFile
<1>3. \A e, o \in prune.listed : e.file = o.file => e = o
  BY <1>1 DEF Listing
<1>4. ListedFiles \subseteq Cached /\ Cached \subseteq Files
  BY <1>2 DEF ListedFiles, Cached
<1> QED
  BY <1>1, <1>2, <1>3, <1>4

-----------------------------------------------------------------------------
(* The steps of Prune.                                                     *)

LEMMA StartStep ==
    ASSUME FCInv, PruneInv, PruneStart
    PROVE  PruneInv'
<1>1. /\ prune'.st = "list" /\ prune'.dirs = {DirOf[c] : c \in Contents} /\ prune'.pend = {}
      /\ prune'.listed = {} /\ prune'.total = 0 /\ prune'.removed = {} /\ mtime' = mtime
  BY DEF PruneStart, IdlePrune
<1>2. ListedFiles' = {} /\ Cached' = Cached /\ Cached \subseteq Files
  BY <1>1 DEF ListedFiles, Cached, Exists
<1>3. Tallied'
  BY <1>1, <1>2, SizeOfNone DEF Tallied
<1>4. \A f \in Cached : DirOf[f[1]] \in {DirOf[c] : c \in Contents}
  BY <1>2, BlocksType
<1>5. Covered'
  BY <1>1, <1>2, <1>4 DEF Covered
<1>6. Ordered' /\ Outcome'
  BY <1>1 DEF Ordered, Outcome
<1> QED
  BY <1>2, <1>3, <1>5, <1>6 DEF PruneInv

LEMMA ReadDirStep ==
    ASSUME FCInv, PruneInv, NEW d \in prune.dirs, PruneReadDir(d)
    PROVE  PruneInv'
<1>0. prune \in PruneRecords
  BY DEF FCInv, TypeOK
<1>1. /\ prune.st = "list" /\ prune'.st = "list" /\ prune'.dirs = prune.dirs \ {d}
      /\ prune.pend = {} /\ prune'.pend = FilesIn(d) /\ prune'.listed = prune.listed
      /\ prune'.total = prune.total /\ prune'.removed = prune.removed
      /\ mtime' = mtime /\ disturbed' = disturbed
  BY <1>0 DEF PruneReadDir, PruneRecords
<1>2. ListedFiles' = ListedFiles /\ Cached' = Cached /\ \A f : Exists(f)' <=> Exists(f)
  BY <1>1 DEF ListedFiles, Cached, Exists
<1>3. IsFiniteSet(Cached')
  BY <1>2 DEF PruneInv
<1> SUFFICES ASSUME ~disturbed PROVE Tallied' /\ Covered' /\ Ordered' /\ Outcome'
  BY <1>1, <1>3 DEF PruneInv
<1>4. Tallied /\ Covered
  BY DEF PruneInv
<1>5. Tallied'
  BY <1>1, <1>2, <1>4 DEF Tallied
<1>6. \A f : f \in FilesIn(d) <=> f \in Cached /\ DirOf[f[1]] = d
  BY DEF FilesIn, Cached
<1>7. \A f \in FilesIn(d) : Exists(f) /\ f \notin ListedFiles
  BY <1>1, <1>4, <1>6 DEF Covered, Cached
<1>8. \A f \in FilesIn(d) \cup ListedFiles : DirOf[f[1]] \notin prune.dirs \ {d}
  BY <1>1, <1>4, <1>6 DEF Covered
<1>9. \A f \in Cached : DirOf[f[1]] \in prune.dirs \ {d} \/ f \in FilesIn(d) \/ f \in ListedFiles
  BY <1>1, <1>4, <1>6 DEF Covered
<1>10. Covered'
  BY <1>1, <1>2, <1>4, <1>7, <1>8, <1>9 DEF Covered
<1> QED
  BY <1>1, <1>5, <1>10 DEF Ordered, Outcome

LEMMA InfoStep ==
    ASSUME FCInv, PruneInv, NEW f \in prune.pend, PruneInfo(f)
    PROVE  PruneInv'
<1>0. prune \in PruneRecords /\ mtime \in [Files -> Nat \cup {NoFile}]
  BY DEF FCInv, TypeOK
<1>1. prune.st = "list" /\ mtime' = mtime /\ disturbed' = disturbed
  BY DEF PruneInfo
<1>2. Cached' = Cached /\ \A g : Exists(g)' <=> Exists(g)
  BY <1>1 DEF Cached, Exists
<1>3. IsFiniteSet(Cached')
  BY <1>2 DEF PruneInv
<1> SUFFICES ASSUME ~disturbed PROVE Tallied' /\ Covered' /\ Ordered' /\ Outcome'
  BY <1>1, <1>3 DEF PruneInv
<1>4. Tallied /\ Covered /\ f \in Files
  BY <1>0 DEF PruneInv, PruneRecords
<1>5. Exists(f) /\ f \notin ListedFiles
  BY <1>1, <1>4 DEF Covered
<1>6. PICK e : e = [file |-> f, ts |-> mtime[f]]
  OBVIOUS
<1>7. /\ prune'.st = "list" /\ prune'.dirs = prune.dirs /\ prune'.pend = prune.pend \ {f}
      /\ prune'.listed = prune.listed \cup {e} /\ prune'.total = prune.total + Blocks(f)
      /\ prune'.removed = prune.removed
  BY <1>0, <1>5, <1>6 DEF PruneInfo, PruneRecords
<1>8. ListedFiles' = ListedFiles \cup {f}
  BY <1>6, <1>7 DEF ListedFiles
<1>9. IsFiniteSet(ListedFiles) /\ ListedFiles \subseteq Files
  BY <1>1, <1>4, ListedAreCached, FS_Subset DEF PruneInv
<1>10. SizeOf(ListedFiles \cup {f}) = SizeOf(ListedFiles) + Blocks(f)
  BY <1>4, <1>5, <1>9, SizeAdd
<1>11. Tallied'
  BY <1>1, <1>4, <1>6, <1>7, <1>8, <1>10 DEF Tallied
<1>12. Covered'
  BY <1>1, <1>2, <1>4, <1>7, <1>8 DEF Covered
<1> QED
  BY <1>7, <1>11, <1>12 DEF Ordered, Outcome

LEMMA DecideStep ==
    ASSUME FCInv, PruneInv, PruneDecide
    PROVE  PruneInv'
<1>0. prune \in PruneRecords
  BY DEF FCInv, TypeOK
<1>1. /\ prune.st = "list" /\ prune.dirs = {} /\ prune.pend = {}
      /\ mtime' = mtime /\ disturbed' = disturbed
  BY DEF PruneDecide
<1>2. Cached' = Cached
  BY <1>1 DEF Cached, Exists
<1>3. IsFiniteSet(Cached')
  BY <1>2 DEF PruneInv
<1> SUFFICES ASSUME ~disturbed PROVE Tallied' /\ Covered' /\ Ordered' /\ Outcome'
  BY <1>1, <1>3 DEF PruneInv
<1>4. CASE prune.total < QuotaHigh
  <2>1. prune'.st = "ended" /\ prune'.result = "notrequired"
    BY <1>4 DEF PruneDecide, IdlePrune
  <2> QED
    BY <2>1 DEF Tallied, Covered, Ordered, Outcome
<1>5. CASE ~(prune.total < QuotaHigh)
  <2>1. /\ prune'.st = "evict" /\ prune'.listed = prune.listed /\ prune'.total = prune.total
        /\ prune'.removed = prune.removed
    BY <1>0, <1>5 DEF PruneDecide, PruneRecords
  <2>2. Tallied /\ Covered /\ prune.removed = {} /\ ListedFiles' = ListedFiles
    BY <1>1, <2>1 DEF PruneInv, Covered, ListedFiles
  <2>3. Tallied'
    BY <1>1, <2>1, <2>2 DEF Tallied
  <2>4. Cached \subseteq ListedFiles
    BY <1>1, <2>2 DEF Covered
  <2>5. Cached = ListedFiles
    BY <1>1, <2>2, <2>4, ListedAreCached
  <2>6. Covered' /\ Ordered' /\ Outcome'
    BY <1>2, <2>1, <2>2, <2>5 DEF Covered, Ordered, Outcome
  <2> QED
    BY <2>3, <2>6
<1> QED
  BY <1>4, <1>5

LEMMA StatStep ==
    ASSUME FCInv, PruneInv, NEW e \in prune.listed, PruneStat(e)
    PROVE  PruneInv'
<1>0. prune \in PruneRecords
  BY DEF FCInv, TypeOK
<1>1. /\ prune.st = "evict" /\ mtime' = mtime /\ disturbed' = disturbed
      /\ prune.total > QuotaLow /\ \A o \in prune.listed : e.ts <= o.ts
  BY <1>0, FileCacheAssumption DEF PruneStat, LowReached, Oldest, PruneRecords
<1>2. Cached' = Cached
  BY <1>1 DEF Cached, Exists
<1>3. IsFiniteSet(Cached')
  BY <1>2 DEF PruneInv
<1> SUFFICES ASSUME ~disturbed PROVE Tallied' /\ Covered' /\ Ordered' /\ Outcome'
  BY <1>1, <1>3 DEF PruneInv
<1>4. Tallied /\ Covered /\ Ordered
  BY DEF PruneInv
<1>5. Exists(e.file) /\ mtime[e.file] = e.ts
  BY <1>1, <1>4, ListedAreCached DEF Cached
<1>6. /\ prune'.st = "remove" /\ prune'.listed = prune.listed /\ prune'.total = prune.total
      /\ prune'.removed = prune.removed /\ prune'.cur = e
  BY <1>0, <1>5 DEF PruneStat, PruneRecords
<1>7. ListedFiles' = ListedFiles
  BY <1>6 DEF ListedFiles
<1>8. Tallied'
  BY <1>1, <1>4, <1>6, <1>7 DEF Tallied
<1>9. Covered' /\ Outcome'
  BY <1>1, <1>2, <1>4, <1>6, <1>7 DEF Covered, Outcome
<1>10. Ordered'
  BY <1>1, <1>4, <1>6 DEF Ordered
<1> QED
  BY <1>8, <1>9, <1>10

LEMMA RemoveStep ==
    ASSUME FCInv, PruneInv, PruneRemove
    PROVE  PruneInv'
<1>0. prune \in PruneRecords /\ mtime \in [Files -> Nat \cup {NoFile}] /\ prune.st = "remove"
      /\ prune.cur \in prune.listed
  BY DEF FCInv, TypeOK, PruneRemove
<1>1. CASE disturbed' /\ mtime' = mtime
  <2>1. \A f : Cached' \subseteq Cached \cup {f}
    BY <1>1 DEF Cached, Exists
  <2> QED
    BY <1>1, <2>1, DisturbedStep
<1>2. CASE /\ mtime' = [mtime EXCEPT ![prune.cur.file] = NoFile]
           /\ prune' = PruneRemoved(Blocks(prune.cur.file)) /\ disturbed' = disturbed
  <2>1. PICK c \in prune.listed : c = prune.cur
    BY <1>0
  <2>2. /\ prune'.st = "evict" /\ prune'.listed = prune.listed \ {c}
        /\ prune'.total = prune.total - Blocks(c.file) /\ prune'.removed = prune.removed \cup {c}
    BY <1>0, <1>2, <2>1 DEF PruneRemoved, PruneRecords
  <2>3. c \in Listing /\ c.file \in Files /\ c.ts \in Nat
    BY <1>0 DEF PruneRecords, Listing
  <2>4. \A f \in Files : mtime'[f] = IF f = c.file THEN NoFile ELSE mtime[f]
    BY <1>0, <1>2, <2>1, <2>3
  <2>5. Cached' = Cached \ {c.file}
    BY <2>4 DEF Cached, Exists, NoFile
  <2>6. IsFiniteSet(Cached) /\ IsFiniteSet(Cached')
    BY <2>5, FS_Subset DEF PruneInv
  <2> SUFFICES ASSUME ~disturbed PROVE Tallied' /\ Covered' /\ Ordered' /\ Outcome'
    BY <1>2, <2>6 DEF PruneInv
  <2>7. Tallied /\ Covered /\ Ordered
    BY DEF PruneInv
  <2>8. /\ ListedFiles = Cached /\ Cached \subseteq Files /\ c.file \in Cached
        /\ \A o \in prune.listed : o.file \in Files /\ (o.file = c.file => o = c)
    BY <1>0, <2>7, ListedAreCached DEF Covered
  <2>9. ListedFiles' = ListedFiles \ {c.file}
    BY <2>2, <2>8 DEF ListedFiles
  <2>10. prune.total = SizeOf(Cached) /\ SizeOf(Cached) = Blocks(c.file) + SizeOf(Cached \ {c.file})
    BY <1>0, <2>6, <2>7, <2>8, SizeRemove DEF Tallied
  <2>11. Blocks(c.file) \in Nat /\ SizeOf(Cached) \in Nat /\ SizeOf(Cached \ {c.file}) \in Nat
    <3>1. Cached \ {c.file} \subseteq Files /\ IsFiniteSet(Cached \ {c.file})
      BY <2>5, <2>6, <2>8
    <3> QED
      BY <2>3, <2>6, <2>8, <3>1, BlocksType, SizeRemove
  <2>12. prune'.total = SizeOf(Cached \ {c.file})
    BY <2>2, <2>10, <2>11
  <2>13. \A o \in prune'.listed : mtime'[o.file] = o.ts
    BY <1>0, <2>2, <2>4, <2>7, <2>8 DEF Tallied
  <2>14. Tallied'
    BY <2>8, <2>9, <2>12, <2>13 DEF Tallied
  <2>15. Covered' /\ Outcome'
    BY <2>2, <2>5, <2>8, <2>9 DEF Covered, Outcome
  <2>16. \A o \in prune.listed : c.ts <= o.ts
    BY <1>0, <2>1, <2>7 DEF Ordered
  <2>17. prune'.total + Blocks(c.file) > QuotaLow
    BY <1>0, <2>2, <2>7, <2>10, <2>11 DEF Ordered
  <2>18. Ordered'
    BY <1>0, <2>2, <2>7, <2>16, <2>17 DEF Ordered
  <2> QED
    BY <2>14, <2>15, <2>18
<1> QED
  BY <1>1, <1>2 DEF PruneRemove

LEMMA EndStep ==
    ASSUME FCInv, PruneInv, PruneEnd
    PROVE  PruneInv'
<1>0. prune \in PruneRecords
  BY DEF FCInv, TypeOK
<1>1. /\ prune.st = "evict" /\ prune'.st = "ended" /\ prune'.removed = prune.removed
      /\ mtime' = mtime /\ disturbed' = disturbed
      /\ prune.total <= QuotaLow \/ prune.listed = {}
  BY <1>0 DEF PruneEnd, PruneRecords, LowReached
<1>2. Cached' = Cached
  BY <1>1 DEF Cached, Exists
<1>3. IsFiniteSet(Cached')
  BY <1>2 DEF PruneInv
<1> SUFFICES ASSUME ~disturbed PROVE Tallied' /\ Covered' /\ Ordered' /\ Outcome'
  BY <1>1, <1>3 DEF PruneInv
<1>4. Tallied /\ Covered /\ Ordered
  BY DEF PruneInv
<1>5. Cached = ListedFiles /\ prune.total = SizeOf(Cached)
  BY <1>1, <1>4 DEF Tallied, Covered
<1>6. SizeOf(Cached) <= QuotaLow
  <2>1. CASE prune.listed = {}
    <3>1. Cached = {}
      BY <1>5, <2>1 DEF ListedFiles
    <3> QED
      BY <3>1, SizeOfNone, FileCacheAssumption
  <2> QED
    BY <1>1, <1>5, <2>1
<1>7. ASSUME NEW e \in prune.removed, NEW f \in Cached PROVE e.ts <= mtime[f]
  <2>1. PICK o \in prune.listed : o.file = f
    BY <1>5 DEF ListedFiles
  <2> QED
    BY <1>1, <1>4, <2>1 DEF Ordered, Tallied
<1>8. prune.removed # {} => \E e \in prune.removed : SizeOf(Cached) + Blocks(e.file) > QuotaLow
  BY <1>1, <1>4, <1>5 DEF Ordered
<1>9. Outcome'
  BY <1>1, <1>2, <1>6, <1>7, <1>8 DEF Outcome
<1> QED
  BY <1>1, <1>9 DEF Tallied, Covered, Ordered

-----------------------------------------------------------------------------
(* The other steps, and all of them.                                       *)

LEMMA NextPrune == FCInv /\ PruneInv /\ [Next]_vars => PruneInv'
<1> SUFFICES ASSUME FCInv, PruneInv, [Next]_vars PROVE PruneInv'
  OBVIOUS
<1>0. mtime \in [Files -> Nat \cup {NoFile}]
  BY DEF FCInv, TypeOK
<1>1. CASE UNCHANGED <<mtime, prune, disturbed>>
  BY <1>1, ElsewhereStep
<1>2. ASSUME NEW i \in Ingests, CloseRename(i) PROVE PruneInv'
  <2>1. Cached' \subseteq Cached \cup {<<ing[i].c, ing[i].written>>}
    BY <1>0, <1>2 DEF CloseRename, Cached, Exists
  <2> QED
    BY <1>2, <2>1, DisturbedStep DEF CloseRename
<1>3. ASSUME NEW r \in Readers, OpenTouch(r) PROVE PruneInv'
  <2>1. Cached' \subseteq Cached \cup {rd[r]}
    BY <1>0, <1>3 DEF OpenTouch, Cached, Exists
  <2> QED
    BY <1>3, <2>1, DisturbedStep DEF OpenTouch
<1>4. ASSUME NEW c \in Contents, Delete(c) PROVE PruneInv'
  <2>1. Cached' \subseteq Cached \cup {Whole(c)}
    BY <1>0, <1>4 DEF Delete, Cached, Exists
  <2> QED
    BY <1>4, <2>1, DisturbedStep DEF Delete
<1>5. CASE Restart
  <2>1. prune'.st = "idle" /\ Cached' = Cached
    BY <1>5, IdlePruneType DEF Restart, Cached, Exists
  <2> QED
    BY <2>1 DEF PruneInv, Tallied, Covered, Ordered, Outcome
<1>6. CASE PruneStart \/ PruneStep
  BY <1>6, StartStep, ReadDirStep, InfoStep, DecideStep, StatStep, RemoveStep, EndStep DEF PruneStep
<1>7. CASE Tick
  BY <1>1, <1>7 DEF Tick
<1>8. ASSUME NEW i \in Ingests, NEW c \in Contents, SetupIngestion(i, c) PROVE PruneInv'
  BY <1>1, <1>8 DEF SetupIngestion
<1>9. ASSUME NEW i \in Ingests, Read(i) PROVE PruneInv'
  BY <1>1, <1>9 DEF Read
<1>10. ASSUME NEW i \in Ingests, CloseDiscard(i) \/ CloseNotify(i) PROVE PruneInv'
  BY <1>1, <1>10 DEF CloseDiscard, CloseNotify
<1>11. ASSUME NEW r \in Readers, NEW c \in Contents, Open(r, c) PROVE PruneInv'
  BY <1>1, <1>11 DEF Open
<1>12. CASE UNCHANGED vars
  BY <1>1, <1>12 DEF vars
<1> QED
  BY <1>2, <1>3, <1>4, <1>5, <1>6, <1>7, <1>8, <1>9, <1>10, <1>11, <1>12 DEF Next, Close

LEMMA PruneInvariant == Spec => []PruneInv
<1>1. Init => PruneInv
  BY InitPrune
<1>2. FCInv /\ PruneInv /\ [Next]_vars => PruneInv'
  BY NextPrune
<1> QED
  BY <1>1, <1>2, Invariant, PTL DEF Spec

\* Prune (filecache.go), in any cache: when nobody else changes the cache while
\* it lists and removes files, what is left fits the low quota, and the last
\* file removed was needed for that.
THEOREM PruneReaches == Spec => []PruneReachesLow
<1>1. PruneInv => PruneReachesLow
  BY DEF PruneInv, Outcome, PruneReachesLow, Undisturbed, CacheSize, SizeOf
<1> QED
  BY <1>1, PruneInvariant, PTL

\* Prune (filecache.go), in any cache: when nobody else changes the cache while
\* it lists and removes files, no file it removed had been used after one that
\* it keeps.
THEOREM OldestGoFirst == Spec => []PruneEvictsOldest
<1>1. PruneInv => PruneEvictsOldest
  BY DEF PruneInv, Outcome, PruneEvictsOldest, Undisturbed
<1> QED
  BY <1>1, PruneInvariant, PTL

=============================================================================
