--------------------------- MODULE FileCacheProofs --------------------------
(* Proofs about FileCache, for any bodies, quotas, ingestions and readers. *)
EXTENDS FileCache, TLAPS

-----------------------------------------------------------------------------
(* The inductive invariant.                                                *)

\* What an ingestion has copied so far, by the step it has reached.
CopyOK(r) ==
    /\ IF r.st = "none" THEN r.c = NoContent ELSE r.c \in Contents
    /\ r.st = "reading" => r.pos <= Size[r.c] /\ (~r.failed => r.written = r.pos)
    /\ r.st = "renamed" => r.written = Size[r.c] /\ Size[r.c] <= FileLimit

CopiesOK == \A i \in Ingests : CopyOK(ing[i])

\* onIngest has run only for ingestions that are over.
NotifiedAtEnd == \A i \in Ingests : notified[i] # NoContent => ing[i].st = "closed"

FCInv == TypeOK /\ CopiesOK /\ NotifiedAtEnd /\ OnlyWholeFiles /\ CleanupExactlyOnce

-----------------------------------------------------------------------------
(* Files and records.                                                      *)

\* The first n blocks of a body, and all of it, are files.
LEMMA FileOfBlocks ==
    ASSUME NEW c \in Contents, NEW n \in 0 .. Size[c]
    PROVE  <<c, n>> \in Files /\ Whole(c) \in Files
BY FileCacheAssumption DEF Files, Whole

LEMMA WholeIsFile ==
    ASSUME NEW c \in Contents
    PROVE  Whole(c) \in Files
<1>1. Size[c] \in 0 .. Size[c]
    BY FileCacheAssumption
<1> QED BY <1>1, FileOfBlocks

\* Two bodies are two files.
LEMMA WholeInjective ==
    ASSUME NEW c \in Contents, NEW e \in Contents, Whole(c) = Whole(e)
    PROVE  c = e
BY DEF Whole

\* A file is the beginning of some body.
LEMMA FileShape ==
    ASSUME NEW f \in Files
    PROVE  \E c \in Contents : \E n \in 0 .. Size[c] : f = <<c, n>>
BY DEF Files

LEMMA NoIngestType == NoIngest \in IngestRecords /\ CopyOK(NoIngest)
BY DEF NoIngest, Ingestion, IngestRecords, CopyOK

\* The record of an ingestion after a block was read, and after one was lost.
LEMMA CopiedType ==
    ASSUME NEW r \in IngestRecords, NEW p \in Nat, NEW w \in Nat, NEW t \in Nat
    PROVE  /\ [r EXCEPT !.pos = p, !.written = w, !.mt = t] \in IngestRecords
           /\ [r EXCEPT !.pos = p, !.failed = TRUE] \in IngestRecords
BY DEF IngestRecords

LEMMA IdlePruneType == IdlePrune \in PruneRecords /\ IdlePrune.cur = NoEntry
                       /\ IdlePrune.st = "idle"
BY DEF IdlePrune, PruneRecords

-----------------------------------------------------------------------------
(* Ingestion.                                                              *)

\* The record of an ingestion that is over.
LEMMA OverType ==
    ASSUME TypeOK, CopiesOK, NEW i \in Ingests, NEW st \in {"closed", "lost"},
           ing[i].st # "none"
    PROVE  /\ Over(i, st) \in IngestRecords /\ CopyOK(Over(i, st))
           /\ Over(i, st).c = ing[i].c /\ Over(i, st).st = st
<1>1. ing[i].c \in Contents
    BY DEF CopiesOK, CopyOK
<1> QED BY <1>1 DEF Over, Ingestion, IngestRecords, CopyOK

\* Setting up an ingestion.
LEMMA SetupRecord ==
    ASSUME FCInv, NEW i \in Ingests, NEW c \in Contents, SetupIngestion(i, c)
    PROVE  \E r \in IngestRecords :
              /\ ing' = [ing EXCEPT ![i] = r] /\ CopyOK(r)
              /\ r.st \in {"reading", "bypass"} /\ r.c = c
<1>1. ASSUME NEW st \in {"reading", "bypass"}, NEW mt \in Nat
      PROVE  /\ Ingestion(c, st, mt) \in IngestRecords /\ CopyOK(Ingestion(c, st, mt))
             /\ Ingestion(c, st, mt).st = st /\ Ingestion(c, st, mt).c = c
    <2>1. Size[c] \in Nat
        BY FileCacheAssumption
    <2> QED BY <2>1 DEF IngestRecords, CopyOK, Ingestion
<1>2. now \in Nat
    BY DEF FCInv, TypeOK
<1> QED BY <1>1, <1>2 DEF SetupIngestion

LEMMA SetupStep ==
    ASSUME FCInv, NEW i \in Ingests, NEW c \in Contents, SetupIngestion(i, c)
    PROVE  FCInv'
<1>1. PICK r \in IngestRecords :
          ing' = [ing EXCEPT ![i] = r] /\ CopyOK(r) /\ r.st \in {"reading", "bypass"}
    BY SetupRecord
<1>2. ing[i].st = "none" /\ UNCHANGED <<now, mtime, rd, prune, up, notified, cleanups, disturbed>>
    BY DEF SetupIngestion
<1>3. TypeOK'
    <2>1. tmp' \in [Ingests -> BOOLEAN]
        BY DEF SetupIngestion, FCInv, TypeOK
    <2> QED BY <1>1, <1>2, <2>1 DEF FCInv, TypeOK
<1>4. CopiesOK'
    BY <1>1 DEF FCInv, TypeOK, CopiesOK
<1>5. NotifiedAtEnd' /\ OnlyWholeFiles'
    <2>1. notified[i] = NoContent
        BY <1>2 DEF FCInv, NotifiedAtEnd
    <2> QED BY <1>1, <1>2, <2>1 DEF FCInv, TypeOK, NotifiedAtEnd, OnlyWholeFiles, Exists
<1>6. CleanupExactlyOnce'
    BY <1>1, <1>2 DEF FCInv, TypeOK, CleanupExactlyOnce
<1> QED BY <1>3, <1>4, <1>5, <1>6 DEF FCInv

\* Reading a block, or failing to.
LEMMA ReadRecord ==
    ASSUME FCInv, NEW i \in Ingests, Read(i)
    PROVE  \E r \in IngestRecords :
              /\ ing' = [ing EXCEPT ![i] = r] /\ CopyOK(r)
              /\ r.st = "reading" /\ r.st = ing[i].st /\ r.c = ing[i].c
<1>a. ing[i] \in IngestRecords /\ CopyOK(ing[i]) /\ ing[i].st = "reading" /\ now \in Nat
    BY DEF FCInv, TypeOK, CopiesOK, Read
<1>b. ing[i].c \in Contents /\ Size[ing[i].c] \in Nat
    BY <1>a, FileCacheAssumption DEF CopyOK
<1>1. CASE /\ ing[i].pos < Size[ing[i].c] /\ ~ing[i].failed
           /\ ing' = [ing EXCEPT ![i].pos = @ + 1, ![i].written = @ + 1, ![i].mt = now]
    <2> DEFINE r == [ing[i] EXCEPT !.pos = @ + 1, !.written = @ + 1, !.mt = now]
    <2>1. r \in IngestRecords /\ r.st = "reading" /\ r.c = ing[i].c
        <3>1. ing[i].pos + 1 \in Nat /\ ing[i].written + 1 \in Nat
            BY <1>a DEF IngestRecords
        <3>2. r \in IngestRecords
            BY <1>a, <3>1, CopiedType
        <3> QED BY <1>a, <3>2 DEF IngestRecords
    <2>2. CopyOK(r)
        BY <1>a, <1>b, <1>1 DEF IngestRecords, CopyOK
    <2>3. ing' = [ing EXCEPT ![i] = r]
        BY <1>1 DEF FCInv, TypeOK
    <2> QED BY <1>a, <2>1, <2>2, <2>3
<1>2. CASE /\ ing[i].pos < Size[ing[i].c]
           /\ ing' = [ing EXCEPT ![i].pos = @ + 1, ![i].failed = TRUE]
    <2> DEFINE r == [ing[i] EXCEPT !.pos = @ + 1, !.failed = TRUE]
    <2>1. r \in IngestRecords /\ r.st = "reading" /\ r.c = ing[i].c
        <3>1. ing[i].pos + 1 \in Nat
            BY <1>a DEF IngestRecords
        <3>2. r \in IngestRecords
            BY <1>a, <3>1, CopiedType
        <3> QED BY <1>a, <3>2 DEF IngestRecords
    <2>2. CopyOK(r)
        BY <1>a, <1>b, <1>2 DEF IngestRecords, CopyOK
    <2>3. ing' = [ing EXCEPT ![i] = r]
        BY <1>2 DEF FCInv, TypeOK
    <2> QED BY <1>a, <2>1, <2>2, <2>3
<1>3. CASE ing' = [ing EXCEPT ![i].failed = TRUE]
    <2> DEFINE r == [ing[i] EXCEPT !.failed = TRUE]
    <2>1. r \in IngestRecords /\ r.st = "reading" /\ r.c = ing[i].c
        BY <1>a DEF IngestRecords
    <2>2. CopyOK(r)
        BY <1>a, <1>b DEF IngestRecords, CopyOK
    <2>3. ing' = [ing EXCEPT ![i] = r]
        BY <1>3 DEF FCInv, TypeOK
    <2> QED BY <1>a, <2>1, <2>2, <2>3
<1> QED BY <1>1, <1>2, <1>3 DEF Read, ReadBlock, ReadFailure

LEMMA ReadStep ==
    ASSUME FCInv, NEW i \in Ingests, Read(i)
    PROVE  FCInv'
<1>1. ing[i].st = "reading"
    BY DEF Read
<1>2. PICK r \in IngestRecords :
          ing' = [ing EXCEPT ![i] = r] /\ CopyOK(r) /\ r.st = "reading" /\ r.c = ing[i].c
    BY ReadRecord
<1>3. UNCHANGED <<now, mtime, tmp, rd, prune, up, notified, cleanups, disturbed>>
    BY DEF Read
<1>4. TypeOK' /\ CopiesOK'
    BY <1>2, <1>3 DEF FCInv, TypeOK, CopiesOK
<1>5. NotifiedAtEnd' /\ OnlyWholeFiles' /\ CleanupExactlyOnce'
    BY <1>1, <1>2, <1>3
    DEF FCInv, TypeOK, NotifiedAtEnd, OnlyWholeFiles, CleanupExactlyOnce, Exists
<1> QED BY <1>4, <1>5 DEF FCInv

\* Close without, and with, a file in the cache.
LEMMA CloseStep ==
    ASSUME FCInv, NEW i \in Ingests, Close(i)
    PROVE  FCInv'
<1>0. ing[i] \in IngestRecords /\ CopyOK(ing[i])
    BY DEF FCInv, TypeOK, CopiesOK
<1>1. CASE CloseDiscard(i)
    <2>1. ing[i].st = "reading" /\ ing' = [ing EXCEPT ![i] = Over(i, "closed")]
        BY <1>1 DEF CloseDiscard, FirstClose
    <2>2. Over(i, "closed") \in IngestRecords /\ CopyOK(Over(i, "closed"))
          /\ Over(i, "closed").st = "closed" /\ Over(i, "closed").c = ing[i].c
        BY <2>1, OverType DEF FCInv
    <2>3. /\ UNCHANGED <<now, mtime, rd, prune, up, notified, disturbed>>
          /\ tmp' \in [Ingests -> BOOLEAN]
          /\ cleanups' = [cleanups EXCEPT ![i] = cleanups[i] + 1]
        BY <1>1 DEF CloseDiscard, FCInv, TypeOK
    <2>4. TypeOK' /\ CopiesOK'
        BY <2>1, <2>2, <2>3 DEF FCInv, TypeOK, CopiesOK
    <2>5. NotifiedAtEnd' /\ OnlyWholeFiles'
        BY <2>1, <2>2, <2>3 DEF FCInv, TypeOK, NotifiedAtEnd, OnlyWholeFiles, Exists
    <2>6. CleanupExactlyOnce'
        BY <2>1, <2>2, <2>3 DEF FCInv, TypeOK, CleanupExactlyOnce
    <2> QED BY <2>4, <2>5, <2>6 DEF FCInv
<1>2. CASE CloseRename(i)
    <2>1. ing[i].st = "reading" /\ ing[i].written = Size[ing[i].c]
          /\ ing[i].c \in Contents /\ Size[ing[i].c] <= FileLimit
        BY <1>0, <1>2 DEF CloseRename, FirstClose, Ingestible, CopyOK
    <2> DEFINE r == [ing[i] EXCEPT !.st = "renamed"]
               w == <<ing[i].c, ing[i].written>>
    <2>2. ing' = [ing EXCEPT ![i] = r] /\ r \in IngestRecords /\ r.st = "renamed"
          /\ r.c = ing[i].c
        BY <1>0, <1>2 DEF CloseRename, IngestRecords, FCInv, TypeOK
    <2>3. CopyOK(r)
        BY <1>0, <2>1 DEF CopyOK, IngestRecords
    <2>4. w \in Files /\ w = Whole(w[1]) /\ Blocks(w) <= FileLimit
        BY <2>1, FileOfBlocks, FileCacheAssumption DEF Whole, Blocks
    <2>5. /\ mtime' = [mtime EXCEPT ![w] = ing[i].mt] /\ ing[i].mt \in Nat
          /\ tmp' \in [Ingests -> BOOLEAN] /\ disturbed' = TRUE
          /\ UNCHANGED <<now, rd, prune, up, notified, cleanups>>
        BY <1>0, <1>2 DEF CloseRename, FCInv, TypeOK, IngestRecords
    <2>6. mtime' \in [Files -> Nat \cup {NoFile}]
        BY <2>5 DEF FCInv, TypeOK
    <2>7. TypeOK' /\ CopiesOK'
        BY <2>2, <2>3, <2>5, <2>6 DEF FCInv, TypeOK, CopiesOK
    <2>8. OnlyWholeFiles'
        <3>1. ASSUME NEW f \in Files, mtime'[f] # NoFile
              PROVE  f = Whole(f[1]) /\ Blocks(f) <= FileLimit
            <4>1. CASE f = w BY <4>1, <2>4
            <4>2. CASE f # w
                BY <4>2, <3>1, <2>5 DEF FCInv, TypeOK, OnlyWholeFiles, Exists
            <4> QED BY <4>1, <4>2
        <3>2. ASSUME NEW j \in Ingests, notified'[j] # NoContent
              PROVE  notified'[j] = Whole(ing'[j].c)
            BY <3>2, <2>2, <2>5 DEF FCInv, TypeOK, OnlyWholeFiles
        <3> QED BY <3>1, <3>2 DEF OnlyWholeFiles, Exists
    <2>9. NotifiedAtEnd' /\ CleanupExactlyOnce'
        BY <2>1, <2>2, <2>5 DEF FCInv, TypeOK, NotifiedAtEnd, CleanupExactlyOnce
    <2> QED BY <2>7, <2>8, <2>9 DEF FCInv
<1>3. CASE CloseNotify(i)
    <2>1. ing[i].st = "renamed" /\ ing' = [ing EXCEPT ![i] = Over(i, "closed")]
        BY <1>3 DEF CloseNotify
    <2>2. Over(i, "closed") \in IngestRecords /\ CopyOK(Over(i, "closed"))
          /\ Over(i, "closed").st = "closed" /\ Over(i, "closed").c = ing[i].c
        BY <2>1, OverType DEF FCInv
    <2>3. <<ing[i].c, ing[i].written>> = Whole(ing[i].c) /\ Whole(ing[i].c) \in Files
        BY <1>0, <2>1, FileOfBlocks, FileCacheAssumption DEF CopyOK, Whole
    <2>4. /\ notified' \in {notified, [notified EXCEPT ![i] = Whole(ing[i].c)]}
          /\ cleanups' = [cleanups EXCEPT ![i] = cleanups[i] + 1]
          /\ UNCHANGED <<now, mtime, tmp, rd, prune, up, disturbed>>
        BY <1>3, <2>3 DEF CloseNotify
    <2>5. TypeOK' /\ CopiesOK'
        BY <2>1, <2>2, <2>3, <2>4 DEF FCInv, TypeOK, CopiesOK
    <2>6. NotifiedAtEnd' /\ OnlyWholeFiles'
        BY <2>1, <2>2, <2>4 DEF FCInv, TypeOK, NotifiedAtEnd, OnlyWholeFiles, Exists
    <2>7. CleanupExactlyOnce'
        BY <2>1, <2>2, <2>4 DEF FCInv, TypeOK, CleanupExactlyOnce
    <2> QED BY <2>5, <2>6, <2>7 DEF FCInv
<1> QED BY <1>1, <1>2, <1>3 DEF Close

-----------------------------------------------------------------------------
(* Readers, Delete and Prune only touch files that are there.              *)

\* Whatever keeps the ingestions and adds no file keeps what is said of them.
LEMMA NothingAdded ==
    ASSUME FCInv, UNCHANGED <<tmp, ing, notified, cleanups>>,
           \A f \in Files : Exists(f)' => Exists(f)
    PROVE  CopiesOK' /\ NotifiedAtEnd' /\ OnlyWholeFiles' /\ CleanupExactlyOnce'
<1>1. CopiesOK' /\ NotifiedAtEnd' /\ CleanupExactlyOnce'
    BY DEF FCInv, CopiesOK, NotifiedAtEnd, CleanupExactlyOnce
<1>2. OnlyWholeFiles'
    BY DEF FCInv, OnlyWholeFiles
<1> QED BY <1>1, <1>2

LEMMA ReaderStep ==
    ASSUME FCInv, NEW r \in Readers,
           (\E c \in Contents : Open(r, c)) \/ OpenTouch(r)
    PROVE  FCInv'
<1>1. CASE \E c \in Contents : Open(r, c)
    <2>1. TypeOK'
        BY <1>1 DEF Open, FCInv, TypeOK
    <2>2. UNCHANGED <<mtime, tmp, ing, notified, cleanups>>
        BY <1>1 DEF Open
    <2> QED BY <2>1, <2>2, NothingAdded DEF FCInv, Exists
<1>2. CASE OpenTouch(r)
    <2>0. now \in Nat /\ rd[r] \in {Whole(c) : c \in Contents}
          /\ UNCHANGED <<now, tmp, ing, prune, up, notified, cleanups>>
        BY <1>2 DEF OpenTouch, FCInv, TypeOK
    <2>1. mtime' \in [Files -> Nat \cup {NoFile}]
        BY <1>2, <2>0 DEF OpenTouch, FCInv, TypeOK
    <2>2. TypeOK'
        BY <1>2, <2>0, <2>1 DEF OpenTouch, FCInv, TypeOK
    <2>3. \A f \in Files : Exists(f)' => Exists(f)
        BY <1>2, <2>0 DEF OpenTouch, FCInv, TypeOK, Exists
    <2> QED BY <2>0, <2>2, <2>3, NothingAdded DEF FCInv
<1> QED BY <1>1, <1>2

LEMMA DeleteStep ==
    ASSUME FCInv, NEW c \in Contents, Delete(c)
    PROVE  FCInv'
<1>1. TypeOK'
    BY DEF Delete, FCInv, TypeOK
<1>2. \A f \in Files : Exists(f)' => Exists(f)
    BY DEF Delete, FCInv, TypeOK, Exists
<1> QED BY <1>1, <1>2, NothingAdded DEF FCInv, Delete

\* Prune's own state.
PruneOK == /\ prune \in PruneRecords
           /\ IF prune.st = "remove" THEN prune.cur \in prune.listed ELSE prune.cur = NoEntry

LEMMA PruneType ==
    ASSUME FCInv, PruneStart \/ PruneStep
    PROVE  PruneOK' /\ up' \in BOOLEAN /\ disturbed' \in BOOLEAN
<1> USE IdlePruneType
<1>0. PruneOK /\ up \in BOOLEAN /\ disturbed \in BOOLEAN
      /\ mtime \in [Files -> Nat \cup {NoFile}]
    BY DEF FCInv, TypeOK, PruneOK
<1>1. CASE PruneStart
    BY <1>0, <1>1 DEF PruneStart, PruneOK, PruneRecords, IdlePrune
<1>2. ASSUME NEW d \in prune.dirs, PruneReadDir(d)
      PROVE  PruneOK' /\ up' \in BOOLEAN /\ disturbed' \in BOOLEAN
    <2>1. FilesIn(d) \subseteq Files
        BY DEF FilesIn
    <2> QED BY <1>0, <1>2, <2>1 DEF PruneReadDir, PruneOK, PruneRecords
<1>3. ASSUME NEW f \in prune.pend, PruneInfo(f)
      PROVE  PruneOK' /\ up' \in BOOLEAN /\ disturbed' \in BOOLEAN
    <2>1. f \in Files
        BY <1>0 DEF PruneOK, PruneRecords
    <2>2. CASE Exists(f)
        <3>1. [file |-> f, ts |-> mtime[f]] \in Listing
            BY <1>0, <2>1, <2>2 DEF Exists, Listing, NoFile
        <3>2. prune.total + Blocks(f) \in Int
            <4>1. PICK c \in Contents : \E n \in 0 .. Size[c] : f = <<c, n>>
                BY <2>1, FileShape
            <4>2. Blocks(f) \in Int
                BY <4>1, FileCacheAssumption DEF Blocks
            <4> QED BY <1>0, <4>2 DEF PruneOK, PruneRecords
        <3> HIDE DEF Blocks
        <3> QED BY <1>0, <1>3, <2>2, <3>1, <3>2 DEF PruneInfo, PruneOK, PruneRecords
    <2>3. CASE ~Exists(f)
        BY <1>0, <1>3, <2>3 DEF PruneInfo, PruneOK, PruneRecords, IdlePrune
    <2> QED BY <2>2, <2>3
<1>4. CASE PruneDecide
    <2>1. CASE prune.total < QuotaHigh
        BY <1>0, <1>4, <2>1 DEF PruneDecide, PruneOK, PruneRecords, IdlePrune
    <2>2. CASE ~(prune.total < QuotaHigh)
        BY <1>0, <1>4, <2>2 DEF PruneDecide, PruneOK, PruneRecords
    <2> QED BY <2>1, <2>2
<1>5. ASSUME NEW e \in prune.listed, PruneStat(e)
      PROVE  PruneOK' /\ up' \in BOOLEAN /\ disturbed' \in BOOLEAN
    <2>1. prune.st = "evict" /\ disturbed' = disturbed
        BY <1>5 DEF PruneStat
    <2>2. CASE prune' = prune /\ up' = FALSE
        BY <1>0, <2>1, <2>2 DEF PruneOK
    <2>3. CASE prune' = [prune EXCEPT !.listed = @ \ {e}] /\ up' = up
        BY <1>0, <2>1, <2>3 DEF PruneOK, PruneRecords
    <2>4. CASE prune' = [prune EXCEPT !.st = "remove", !.cur = e] /\ up' = up
        BY <1>0, <2>1, <2>4 DEF PruneOK, PruneRecords
    <2> QED BY <1>5, <2>2, <2>3, <2>4 DEF PruneStat
<1>6. CASE PruneRemove
    <2>1. prune.st = "remove" /\ prune.cur \in prune.listed /\ up' = up
          /\ prune.cur \in Listing /\ NoEntry \in Listing \cup {NoEntry}
        BY <1>0, <1>6 DEF PruneRemove, PruneOK, PruneRecords
    <2>2. CASE prune' = PruneRemoved(Blocks(prune.cur.file)) /\ disturbed' = disturbed
        <3>1. prune.cur.file \in Files
            BY <2>1 DEF Listing
        <3>2. PICK c \in Contents : \E n \in 0 .. Size[c] : prune.cur.file = <<c, n>>
            BY <3>1, FileShape
        <3>3. Blocks(prune.cur.file) \in Int
            BY <3>2, FileCacheAssumption DEF Blocks
        <3>4. prune.total - Blocks(prune.cur.file) \in Int
            BY <1>0, <3>3 DEF PruneOK, PruneRecords
        <3> HIDE DEF Blocks
        <3> QED BY <1>0, <2>1, <2>2, <3>4 DEF PruneRemoved, PruneOK, PruneRecords
    <2>3. CASE /\ prune' = [prune EXCEPT !.st = "evict", !.cur = NoEntry, !.listed = @ \ {prune.cur}]
               /\ disturbed' = TRUE
        BY <1>0, <2>1, <2>3 DEF PruneOK, PruneRecords
    <2> QED BY <1>6, <2>2, <2>3 DEF PruneRemove
<1>7. CASE PruneEnd
    BY <1>0, <1>7 DEF PruneEnd, PruneOK, PruneRecords
<1> QED BY <1>1, <1>2, <1>3, <1>4, <1>5, <1>6, <1>7 DEF PruneStep

\* Prune removes one file, or none.
LEMMA PruneRemovesOne ==
    ASSUME FCInv, PruneStart \/ PruneStep
    PROVE  \/ mtime' = mtime
           \/ \E f \in Files : Exists(f) /\ mtime' = [mtime EXCEPT ![f] = NoFile]
<1>1. CASE PruneRemove
    <2>1. prune.cur.file \in Files
        BY <1>1 DEF PruneRemove, FCInv, TypeOK, PruneRecords, Listing
    <2> QED BY <1>1, <2>1 DEF PruneRemove
<1>2. CASE ~PruneRemove
    BY <1>2 DEF PruneStart, PruneStep, PruneReadDir, PruneInfo, PruneDecide, PruneStat, PruneEnd
<1> QED BY <1>1, <1>2

LEMMA PruneKeeps ==
    ASSUME FCInv, PruneStart \/ PruneStep
    PROVE  FCInv'
<1>1. UNCHANGED <<now, tmp, ing, rd, notified, cleanups>>
    BY DEF PruneStart, PruneStep, PruneReadDir, PruneInfo, PruneDecide, PruneStat, PruneRemove,
           PruneEnd, PruneUnchanged
<1>2. mtime' \in [Files -> Nat \cup {NoFile}] /\ \A f \in Files : Exists(f)' => Exists(f)
    BY PruneRemovesOne DEF FCInv, TypeOK, Exists
<1>3. TypeOK'
    BY <1>1, <1>2, PruneType DEF FCInv, TypeOK, PruneOK
<1> QED BY <1>1, <1>2, <1>3, NothingAdded DEF FCInv

-----------------------------------------------------------------------------
(* Restarts, the initial state, and all of it.                             *)

LEMMA RestartStep ==
    ASSUME FCInv, Restart
    PROVE  FCInv'
<1>1. ASSUME NEW i \in Ingests
      PROVE  /\ ing'[i] \in IngestRecords /\ CopyOK(ing'[i]) /\ ing'[i].c = ing[i].c
             /\ ing'[i].st = "closed" <=> ing[i].st = "closed"
    <2>1. CASE ing[i].st \in {"reading", "renamed"}
        <3>1. ing'[i] = Over(i, "lost")
            BY <2>1 DEF Restart
        <3> QED BY <2>1, <3>1, OverType DEF FCInv
    <2>2. CASE ing[i].st \notin {"reading", "renamed"}
        <3>1. ing'[i] = ing[i]
            BY <2>2 DEF Restart
        <3> QED BY <3>1 DEF FCInv, TypeOK, CopiesOK
    <2> QED BY <2>1, <2>2
<1>2. ing' \in [Ingests -> IngestRecords]
    BY <1>1 DEF Restart
<1>3. TypeOK'
    BY <1>2, IdlePruneType DEF Restart, FCInv, TypeOK
<1>4. CopiesOK'
    BY <1>1 DEF CopiesOK
<1>5. NotifiedAtEnd' /\ CleanupExactlyOnce'
    BY <1>1 DEF Restart, FCInv, NotifiedAtEnd, CleanupExactlyOnce
<1>6. OnlyWholeFiles'
    BY <1>1 DEF Restart, FCInv, OnlyWholeFiles, Exists
<1> QED BY <1>3, <1>4, <1>5, <1>6 DEF FCInv

LEMMA InitInv == Init => FCInv
<1> SUFFICES ASSUME Init PROVE FCInv
    OBVIOUS
<1>1. PICK kept \in SUBSET Kept :
          mtime = [f \in Files |-> IF \E c \in kept : f = Whole(c) THEN 0 ELSE NoFile]
    BY DEF Init
<1>2. TypeOK
    BY <1>1, NoIngestType, IdlePruneType DEF Init, TypeOK
<1>3. CopiesOK /\ NotifiedAtEnd /\ CleanupExactlyOnce
    BY NoIngestType DEF Init, CopiesOK, NotifiedAtEnd, CleanupExactlyOnce, NoIngest, Ingestion
<1>4. OnlyWholeFiles
    <2>1. ASSUME NEW f \in Files, Exists(f)
          PROVE  f = Whole(f[1]) /\ Blocks(f) <= FileLimit
        <3>1. PICK c \in kept : f = Whole(c)
            BY <1>1, <2>1 DEF Exists, NoFile
        <3>2. Size[c] <= FileLimit
            BY FileCacheAssumption
        <3> QED BY <3>1, <3>2 DEF Whole, Blocks
    <2> QED BY <2>1 DEF OnlyWholeFiles, Init
<1> QED BY <1>2, <1>3, <1>4 DEF FCInv

LEMMA StepInv == FCInv /\ [Next]_vars => FCInv'
<1> SUFFICES ASSUME FCInv, [Next]_vars PROVE FCInv'
    OBVIOUS
<1>1. CASE Tick
    <2>1. TypeOK'
        BY <1>1 DEF Tick, FCInv, TypeOK
    <2> QED BY <1>1, <2>1, NothingAdded DEF Tick, FCInv, Exists
<1>2. CASE UNCHANGED vars
    <2>1. TypeOK'
        BY <1>2 DEF vars, FCInv, TypeOK
    <2> QED BY <1>2, <2>1, NothingAdded DEF vars, FCInv, Exists
<1> QED BY <1>1, <1>2, SetupStep, ReadStep, CloseStep, ReaderStep, DeleteStep, PruneKeeps,
           RestartStep DEF Next

\* The inductive invariant holds: files, ingestions and Prune's listing keep
\* in step through every interleaving of SetupIngestion, Open, Delete, Prune
\* and restarts.
THEOREM Invariant == Spec => []FCInv
BY InitInv, StepInv, PTL DEF Spec

\* The type invariant, for every value of the constants: in particular Prune
\* only ever removes a file that it has listed.
THEOREM TypeCorrect == Spec => []TypeOK
<1>1. FCInv => TypeOK
    BY DEF FCInv
<1> QED BY <1>1, Invariant, PTL

\* The cache directory only ever holds whole bodies of at most half the quota,
\* and onIngest is only told of whole bodies.
THEOREM FilesAreWhole == Spec => []OnlyWholeFiles
<1>1. FCInv => OnlyWholeFiles
    BY DEF FCInv
<1> QED BY <1>1, Invariant, PTL

\* The callback that gives the caller's Entry back to its pool runs exactly
\* once for every ingestion that ends, however often Close is called.
THEOREM CleanupOnce == Spec => []CleanupExactlyOnce
<1>1. FCInv => CleanupExactlyOnce
    BY DEF FCInv
<1> QED BY <1>1, Invariant, PTL

-----------------------------------------------------------------------------
(* FileCache implements BlobStore.                                         *)

Present == {c \in Contents : Exists(Whole(c))}
Offer == [i \in Ingests |-> OfferOf(ing[i])]

\* What the refinement looks at does not change with these.
LEMMA Stutters ==
    ASSUME Present' = Present, Offer' = Offer
    PROVE  [Abstract!BSNext]_Abstract!bsVars
BY DEF Abstract!bsVars, Present, Offer

\* A step that takes one file away, or none, and leaves the ingestions alone.
LEMMA Evicts ==
    ASSUME FCInv, ing' = ing,
           mtime' = mtime \/ \E f \in Files : Exists(f) /\ mtime' = [mtime EXCEPT ![f] = NoFile]
    PROVE  [Abstract!BSNext]_Abstract!bsVars
<1>0. Offer' = Offer
    BY DEF Offer
<1>1. CASE mtime' = mtime
    BY <1>0, <1>1, Stutters DEF Present, Exists
<1>2. ASSUME NEW f \in Files, Exists(f), mtime' = [mtime EXCEPT ![f] = NoFile]
      PROVE  [Abstract!BSNext]_Abstract!bsVars
    <2>1. PICK x \in Contents : f = Whole(x)
        <3>1. PICK c \in Contents : \E n \in 0 .. Size[c] : f = <<c, n>>
            BY FileShape
        <3>2. f = Whole(c)
            BY <1>2, <3>1 DEF FCInv, OnlyWholeFiles
        <3> QED BY <3>2
    <2>2. \A c \in Contents : Whole(c) \in Files
        BY WholeIsFile
    <2>3. Present' = Present \ {x}
        BY <1>2, <2>1, <2>2, WholeInjective DEF Present, Exists, FCInv, TypeOK
    <2>4. Abstract!Evict(x)
        BY <1>0, <2>3 DEF Abstract!Evict, Present, Offer
    <2> QED BY <2>4 DEF Abstract!BSNext
<1> QED BY <1>1, <1>2

LEMMA RefineSetup ==
    ASSUME FCInv, NEW i \in Ingests, NEW c \in Contents, SetupIngestion(i, c)
    PROVE  [Abstract!BSNext]_Abstract!bsVars
<1>1. Present' = Present
    BY DEF SetupIngestion, Present, Exists
<1>2. Offer[i] = Abstract!NoOffer
    BY DEF Offer, OfferOf, Abstract!NoOffer, SetupIngestion, FCInv, CopiesOK, CopyOK
<1>3. PICK st \in {"pending", "settled"} : Offer' = [Offer EXCEPT ![i] = [c |-> c, st |-> st]]
    <2>1. PICK r : ing' = [ing EXCEPT ![i] = r] /\ r.c = c /\ r.st \in {"reading", "bypass"}
        BY SetupRecord
    <2> QED BY <2>1 DEF Offer, OfferOf, FCInv, TypeOK
<1>4. Abstract!Submit(i, c)
    BY <1>1, <1>2, <1>3 DEF Abstract!Submit, Present, Offer
<1> QED BY <1>4 DEF Abstract!BSNext

LEMMA RefineClose ==
    ASSUME FCInv, NEW i \in Ingests, Close(i)
    PROVE  [Abstract!BSNext]_Abstract!bsVars
<1>1. CASE CloseDiscard(i)
    <2>1. ing[i].st = "reading" /\ ing' = [ing EXCEPT ![i] = Over(i, "closed")]
          /\ mtime' = mtime
        BY <1>1 DEF CloseDiscard, FirstClose
    <2>2. Over(i, "closed").c = ing[i].c /\ Over(i, "closed").st = "closed"
        BY <2>1, OverType DEF FCInv
    <2>3. Offer[i].st = "pending" /\ Offer' = [Offer EXCEPT ![i].st = "settled"]
        BY <2>1, <2>2 DEF Offer, OfferOf, FCInv, TypeOK
    <2>4. Abstract!Reject(i)
        BY <2>1, <2>3 DEF Abstract!Reject, Offer, Exists
    <2> QED BY <2>4 DEF Abstract!BSNext
<1>2. CASE CloseRename(i)
    <2>1. /\ ing[i].st = "reading" /\ ing[i].written = Size[ing[i].c]
          /\ ing[i].c \in Contents /\ Size[ing[i].c] <= FileLimit
        BY <1>2 DEF CloseRename, FirstClose, Ingestible, FCInv, CopiesOK, CopyOK
    <2>2. ing' = [ing EXCEPT ![i].st = "renamed"]
          /\ mtime' = [mtime EXCEPT ![Whole(ing[i].c)] = ing[i].mt] /\ ing[i].mt \in Nat
        BY <1>2, <2>1 DEF CloseRename, Whole, FCInv, TypeOK, IngestRecords
    <2>3. Offer[i] = [c |-> ing[i].c, st |-> "pending"]
          /\ Offer' = [Offer EXCEPT ![i].st = "settled"]
        BY <2>1, <2>2 DEF Offer, OfferOf, FCInv, TypeOK, IngestRecords
    <2>4. \A c \in Contents : Whole(c) \in Files
        BY WholeIsFile
    <2>5. Present' = Present \cup {ing[i].c}
        BY <2>1, <2>2, <2>4, WholeInjective DEF Present, Exists, NoFile, FCInv, TypeOK
    <2>6. Abstract!Accept(i)
        BY <2>1, <2>3, <2>5 DEF Abstract!Accept, Present, Offer
    <2> QED BY <2>6 DEF Abstract!BSNext
<1>3. CASE CloseNotify(i)
    <2>1. ing[i].st = "renamed" /\ ing' = [ing EXCEPT ![i] = Over(i, "closed")]
          /\ mtime' = mtime
        BY <1>3 DEF CloseNotify
    <2>2. Over(i, "closed").c = ing[i].c /\ Over(i, "closed").st = "closed"
        BY <2>1, OverType DEF FCInv
    <2>3. Offer' = Offer /\ Present' = Present
        BY <2>1, <2>2 DEF Offer, OfferOf, Present, Exists, FCInv, TypeOK
    <2> QED BY <2>3, Stutters
<1> QED BY <1>1, <1>2, <1>3 DEF Close

LEMMA RefineRestart ==
    ASSUME FCInv, Restart
    PROVE  [Abstract!BSNext]_Abstract!bsVars
<1>1. ASSUME NEW i \in Ingests
      PROVE  Offer'[i] = IF Offer[i].st = "pending" THEN [Offer[i] EXCEPT !.st = "settled"]
                         ELSE Offer[i]
    <2>1. CASE ing[i].st \in {"reading", "renamed"}
        <3>1. ing'[i] = Over(i, "lost") /\ Over(i, "lost").c = ing[i].c
              /\ Over(i, "lost").st = "lost"
            BY <2>1, OverType DEF Restart, FCInv
        <3> QED BY <2>1, <3>1 DEF Offer, OfferOf
    <2>2. CASE ing[i].st \notin {"reading", "renamed"}
        <3>1. ing'[i] = ing[i]
            BY <2>2 DEF Restart
        <3> QED BY <2>2, <3>1 DEF Offer, OfferOf
    <2> QED BY <2>1, <2>2
<1>2. Offer' = [i \in Ingests |-> IF Offer[i].st = "pending"
                                   THEN [Offer[i] EXCEPT !.st = "settled"] ELSE Offer[i]]
    BY <1>1 DEF Offer
<1>3. Present' = Present
    BY DEF Restart, Present, Exists
<1>4. Abstract!Stop
    BY <1>2, <1>3 DEF Abstract!Stop, Present, Offer
<1> QED BY <1>4 DEF Abstract!BSNext

LEMMA RefineInit == Init => Abstract!BSInit
<1> SUFFICES ASSUME Init PROVE Abstract!BSInit
    OBVIOUS
<1>1. FCInv
    BY InitInv
<1>2. Present \subseteq {c \in Contents : Size[c] <= FileLimit}
    <2>1. \A c \in Contents : Whole(c) \in Files
        BY WholeIsFile
    <2> QED BY <1>1, <2>1 DEF FCInv, OnlyWholeFiles, Present, Whole, Blocks
<1>3. Offer = [i \in Ingests |-> Abstract!NoOffer]
    BY DEF Init, Offer, OfferOf, NoIngest, Ingestion, Abstract!NoOffer
<1> QED BY <1>2, <1>3 DEF Abstract!BSInit, Present, Offer

LEMMA RefineStep == FCInv /\ [Next]_vars => [Abstract!BSNext]_Abstract!bsVars
<1> SUFFICES ASSUME FCInv, [Next]_vars PROVE [Abstract!BSNext]_Abstract!bsVars
    OBVIOUS
<1>1. CASE Tick \/ UNCHANGED vars
    BY <1>1, Stutters DEF Tick, vars, Present, Offer, Exists
<1>2. ASSUME NEW i \in Ingests, Read(i) PROVE [Abstract!BSNext]_Abstract!bsVars
    <2>1. mtime' = mtime /\ \A j \in Ingests : ing'[j].st = ing[j].st /\ ing'[j].c = ing[j].c
        BY <1>2, ReadRecord DEF Read, FCInv, TypeOK
    <2> QED BY <2>1, Stutters DEF Present, Offer, OfferOf, Exists
<1>3. ASSUME NEW r \in Readers, NEW c \in Contents, Open(r, c)
      PROVE  [Abstract!BSNext]_Abstract!bsVars
    BY <1>3, Stutters DEF Open, Present, Offer, Exists
<1>4. ASSUME NEW r \in Readers, OpenTouch(r) PROVE [Abstract!BSNext]_Abstract!bsVars
    <2>1. now \in Nat /\ ing' = ing
        BY <1>4 DEF OpenTouch, FCInv, TypeOK
    <2>2. \A f \in Files : Exists(f)' <=> Exists(f)
        BY <1>4, <2>1 DEF OpenTouch, Exists, NoFile, FCInv, TypeOK
    <2>3. \A c \in Contents : Whole(c) \in Files
        BY WholeIsFile
    <2>4. Present' = Present /\ Offer' = Offer
        BY <2>1, <2>2, <2>3 DEF Present, Offer
    <2> QED BY <2>4, Stutters
<1>5. ASSUME NEW c \in Contents, Delete(c) PROVE [Abstract!BSNext]_Abstract!bsVars
    <2>1. Whole(c) \in Files
        BY WholeIsFile
    <2> QED BY <1>5, <2>1, Evicts DEF Delete
<1>6. CASE PruneStart \/ PruneStep
    <2>1. ing' = ing
        BY <1>6 DEF PruneStart, PruneStep, PruneReadDir, PruneInfo, PruneDecide, PruneStat,
                    PruneRemove, PruneEnd, PruneUnchanged
    <2> QED BY <1>6, <2>1, PruneRemovesOne, Evicts
<1> QED BY <1>1, <1>2, <1>3, <1>4, <1>5, <1>6, RefineSetup, RefineClose, RefineRestart DEF Next

\* FileCache implements BlobStore: interleaved at every system call, with
\* failures and restarts, an ingestion is one atomic offer of a whole body.
THEOREM ImplementsBlobs == Spec => ImplementsBlobStore
<1>1. Spec => Abstract!BSInit /\ [][Abstract!BSNext]_Abstract!bsVars
    BY RefineInit, RefineStep, Invariant, PTL DEF Spec
<1> QED BY <1>1 DEF ImplementsBlobStore, Abstract!BSSpec
=============================================================================
