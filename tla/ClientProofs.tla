---------------------------- MODULE ClientProofs ----------------------------
(***************************************************************************)
(* Proofs about Client, for any requests, keys, variants, styles, pool     *)
(* objects and bounds.                                                     *)
(***************************************************************************)
EXTENDS Client, SequenceTheorems, FiniteSetTheorems, WellFoundedInduction, TLAPS

-----------------------------------------------------------------------------
(* The inductive invariant, in the parts that the theorems need.           *)

Holding == {"sent", "resent", "ingest", "renamed"}
Ingesting == {"ingest", "renamed"}

\* A request that holds an entry knows what it is about.
RequestOK(r) ==
    /\ r.st \in Holding => r.key \in Keys /\ r.variant \in Variants /\ r.e \in Entries
    /\ r.st \notin Holding => r.e = None
    /\ r.st \in Ingesting => r.resp \in Response

UpstreamType ==
    style \in [Keys -> Styles] /\ gen \in [Keys -> 0 .. MaxGen] /\ epoch \in 0 .. MaxEpoch

StoreType ==
    /\ style \in [Keys -> Styles]
    /\ gen \in [Keys -> 0 .. MaxGen] /\ since \in [Keys -> 0 .. MaxGen]
    /\ epoch \in 0 .. MaxEpoch /\ clock \in Nat
    /\ db \in [Keys -> Entry] /\ \A k \in Keys : EntryOK(db[k])
    /\ files \subseteq Bodies

ObjType == obj \in [Entries -> Entry] /\ \A e \in Entries : EntryOK(obj[e])

RequestType ==
    /\ pool \subseteq Entries
    /\ rq \in [Requests -> Request]
    /\ \A q \in Requests : RequestOK(rq[q])
    /\ \A q \in Requests :
         /\ rq[q].e \notin pool
         /\ \A p \in Requests \ {q} : rq[q].e # None => rq[p].e # rq[q].e

TypeInv == StoreType /\ ObjType /\ RequestType

\* What r sent along, while its entry is ent: the validators of the client, and
\* at the first attempt those of the stored responses.
EtagsOf(val) == {val[i].etag : i \in DOMAIN val} \ {None}

SentOK(r, ent) ==
    /\ r.st = "sent" /\ r.hasCond =>
         /\ r.sentInm = r.inm \cup EtagsOf(ent.val)
         /\ r.ims # None => r.sentIms = r.ims
    /\ r.st = "resent" \/ (r.st = "sent" /\ ~r.hasCond) => r.sentInm = r.inm /\ r.sentIms = r.ims
    /\ r.st \in {"sent", "resent"} /\ ~Conditional => r.inm = {} /\ r.ims = None

\* A 304 that r was answered is about the client's own validators.
ToldRightly(r) ==
    r.out.status = 304 /\ (style[r.key].etag => style[r.key].etag304) =>
        Validates(r.key, Body(r.key, r.variant, r.out.gen), r.inm, r.ims)

ValidatorInv == \A q \in Requests : SentOK(rq[q], obj[rq[q].e]) /\ ToldRightly(rq[q])

\* A 304 tells apart the stored responses of a key that is served like this: there
\* is only one; or they are never matched by Last-Modified, because there is none,
\* or because each has an Etag that the 304 repeats and that no client sent.
TellsApart(sty) == sty.vary = {} \/ ~sty.lm \/ (sty.etag /\ sty.etag304 /\ ~Conditional)

\* The header that decides is among those listed in Vary, canonically spelled.
Spelled(sty) ==
    \/ sty.vary = {} \/ AnyField \in sty.vary
    \/ [name |-> "accept", canonical |-> TRUE] \in sty.vary

VaryOf(k, v) == ExtractVaryHeaders(Header(v), style[k].vary)

\* s may be stored under k: it was made for some request, its validators are of
\* its edition, and if it counts as fresh, that was current in this epoch.
StoredOK(k, s) ==
    /\ s.body.key = k
    /\ s.body.gen <= gen[k]
    /\ s.born <= epoch
    /\ s.born = epoch => since[k] <= s.body.gen
    /\ s.lm # None => s.lm = s.body.gen
    /\ s.etag # None => s.etag.tag.gen = s.body.gen
    /\ TellsApart(style[k]) => /\ s.etag # None => s.etag = Etag(s.body)
                               /\ style[k].etag => s.etag # None
    /\ \E v \in Variants : s.vary = VaryOf(k, v) /\ s.body.variant = VariantOf(k, v)

ValOK(k, val) ==
    /\ \A i \in DOMAIN val : StoredOK(k, val[i])
    /\ AnyField \notin style[k].vary =>
         \A i, j \in DOMAIN val : val[i].vary = val[j].vary => i = j

DbOK == \A k \in Keys : ValOK(k, db[k].val) /\ (db[k].ver = 0 => db[k].val = <<>>)

\* r holds entry ent while the database has cur: what r read may be saved, is
\* what the database has if the version is the same, and is not newer than
\* what r was answered.
HolderOK(r, ent, cur) ==
    /\ ent.ver = 0 => ~r.hasCond
    /\ r.st \in Ingesting => StoredOK(r.key, r.resp) /\ r.resp.vary = VaryOf(r.key, r.variant)
    /\ ent.ver # 0 =>
         /\ ValOK(r.key, ent.val)
         /\ cur.ver = ent.ver => cur.val = ent.val
         /\ r.st \in Ingesting =>
              \A i \in DOMAIN ent.val : /\ ent.val[i].body.gen <= r.resp.body.gen
                                        /\ ent.val[i].born <= r.resp.born

HoldersOK ==
    \A q \in Requests : rq[q].e # None => HolderOK(rq[q], obj[rq[q].e], db[rq[q].key])

\* What r was served from the cache is what it asked for.
ServedOK(r) ==
    r.out.src \in {"fresh", "stale", "revalidated"} =>
        /\ r.key \in Keys /\ r.out.body.key = r.key
        /\ TellsApart(style[r.key]) =>
             /\ Spelled(style[r.key]) => r.out.body.variant = VariantOf(r.key, r.variant)
             /\ r.out.src = "revalidated" => r.out.body = Body(r.key, r.variant, r.out.gen)

StoreInv ==
    /\ \A k \in Keys : since[k] <= gen[k]
    /\ DbOK
    /\ HoldersOK
    /\ \A q \in Requests : ServedOK(rq[q])

-----------------------------------------------------------------------------
(* Numbers and sequences.                                                  *)

LEMMA LeastExists ==
    ASSUME NEW S \in SUBSET Nat, S # {}
    PROVE  \E i \in S : \A j \in S : i <= j
<1>1. PICK i \in S : \A j \in S : ~(<<j, i>> \in OpToRel(<, Nat))
  BY NatLessThanWellFounded, WFMin
<1>2. \A j \in S : ~(j < i)
  BY <1>1 DEF OpToRel
<1> QED
  BY <1>2

LEMMA LeastIsIn ==
    ASSUME NEW S \in SUBSET Nat, 0 \notin S
    PROVE  /\ S = {} => Least(S) = 0
           /\ S # {} => Least(S) \in S /\ Least(S) # 0 /\ \A j \in S : Least(S) <= j
<1>1. CASE S = {}
  BY <1>1 DEF Least
<1>2. CASE S # {}
  <2>1. \E i \in S : \A j \in S : i <= j
    BY <1>2, LeastExists
  <2>2. Least(S) \in S /\ \A j \in S : Least(S) <= j
    BY <2>1, <1>2 DEF Least
  <2> QED
    BY <2>2, <1>2
<1> QED
  BY <1>1, <1>2

LEMMA GreatestExists ==
    ASSUME NEW N \in Nat, NEW S \in SUBSET (0 .. N), S # {}
    PROVE  \E m \in S : \A o \in S : o <= m
<1> DEFINE T == {t \in Nat : \E m \in S : t = N - m}
<1>1. \A m \in S : m \in Nat /\ N - m \in Nat
  OBVIOUS
<1>2. T \in SUBSET Nat /\ T # {}
  BY <1>1
<1>3. PICK t \in T : \A u \in T : t <= u
  BY <1>2, LeastExists
<1>4. PICK m \in S : t = N - m
  BY <1>3
<1>5. ASSUME NEW o \in S PROVE o <= m
  <2>1. N - o \in T
    BY <1>1
  <2>2. N - m <= N - o
    BY <2>1, <1>3, <1>4
  <2> QED
    BY <2>2, <1>1
<1> QED
  BY <1>4, <1>5

LEMMA SeqDomain ==
    ASSUME NEW S, NEW s \in Seq(S)
    PROVE  /\ DOMAIN s = 1 .. Len(s) /\ Len(s) \in Nat
           /\ DOMAIN s \in SUBSET Nat /\ 0 \notin DOMAIN s
           /\ \A i \in DOMAIN s : s[i] \in S
           /\ s = <<>> <=> DOMAIN s = {}
<1>1. DOMAIN s = 1 .. Len(s) /\ Len(s) \in Nat
  BY LenProperties
<1>2. \A i \in DOMAIN s : s[i] \in S
  BY <1>1, ElementOfSeq
<1>3. s = <<>> => DOMAIN s = {}
  OBVIOUS
<1>4. s # <<>> => DOMAIN s # {}
  <2>1. s # <<>> => Len(s) \in Nat \ {0}
    BY EmptySeq, Zenon
  <2>2. s # <<>> => 1 \in 1 .. Len(s)
    BY <2>1
  <2> QED
    BY <2>2, <1>1
<1> QED
  BY <1>1, <1>2, <1>3, <1>4

LEMMA SeqExcept ==
    ASSUME NEW S, NEW s \in Seq(S), NEW x \in S, NEW i \in DOMAIN s
    PROVE  /\ [s EXCEPT ![i] = x] \in Seq(S)
           /\ DOMAIN [s EXCEPT ![i] = x] = DOMAIN s
           /\ [s EXCEPT ![i] = x][i] = x
           /\ \A j \in DOMAIN s : j # i => [s EXCEPT ![i] = x][j] = s[j]
<1>1. i \in 1 .. Len(s)
  BY SeqDomain
<1>2. [s EXCEPT ![i] = x] \in Seq(S)
  BY <1>1, ExceptSeq
<1> QED
  BY <1>2

LEMMA SeqAppend ==
    ASSUME NEW S, NEW s \in Seq(S), NEW x \in S
    PROVE  /\ Append(s, x) \in Seq(S)
           /\ DOMAIN Append(s, x) = DOMAIN s \cup {Len(s) + 1}
           /\ Len(s) + 1 \notin DOMAIN s
           /\ Append(s, x)[Len(s) + 1] = x
           /\ \A j \in DOMAIN s : Append(s, x)[j] = s[j]
<1>1. DOMAIN s = 1 .. Len(s) /\ Len(s) \in Nat
  BY SeqDomain
<1>2. /\ Append(s, x) \in Seq(S)
      /\ Len(Append(s, x)) = Len(s) + 1
      /\ \A j \in 1 .. Len(s) : Append(s, x)[j] = s[j]
      /\ Append(s, x)[Len(s) + 1] = x
  BY AppendProperties
<1>3. DOMAIN Append(s, x) = 1 .. (Len(s) + 1)
  BY <1>2, SeqDomain
<1> QED
  BY <1>1, <1>2, <1>3

-----------------------------------------------------------------------------
(* What the operators of Client return.                                    *)

LEMMA Constants ==
    /\ MaxGen \in Nat /\ MaxEpoch \in Nat /\ Hops \in Nat /\ MaxClock \in Nat
    /\ None \notin Entries /\ None \notin Etags /\ None \notin Int
    /\ Styles \subseteq Style
BY ClientAssumption, HttpCachingAssumption

LEMMA LookupHeader ==
    ASSUME NEW v, NEW f \in [name : {"accept", "*"}, canonical : BOOLEAN]
    PROVE  normalizeVaryHeaders(Lookup(Header(v), f)) =
             IF f.canonical /\ f.name = "accept" THEN <<<<v>>>> ELSE <<>>
<1>1. DOMAIN Header(v) = {"accept"} /\ Header(v)["accept"] = <<<<v>>>>
  BY DEF Header
<1>2. Lookup(Header(v), f) = IF f.canonical /\ f.name = "accept" THEN <<<<v>>>> ELSE <<>>
  BY <1>1 DEF Lookup
<1>3. Len(<<<<v>>>>) = 1 /\ Len(<<>>) = 0
  OBVIOUS
<1> QED
  BY <1>2, <1>3 DEF normalizeVaryHeaders

LEMMA VaryType ==
    ASSUME NEW v \in Variants, NEW sty \in Styles
    PROVE  ExtractVaryHeaders(Header(v), sty.vary) \in VaryHeaders
<1>1. sty.vary \subseteq [name : {"accept", "*"}, canonical : BOOLEAN]
  BY Constants DEF Style
<1>2. \A f \in sty.vary : normalizeVaryHeaders(Lookup(Header(v), f)) \in VaryValues
  BY <1>1, LookupHeader DEF VaryValues
<1>3. ExtractVaryHeaders(Header(v), sty.vary) \in [sty.vary -> VaryValues]
  BY <1>2 DEF ExtractVaryHeaders
<1> QED
  BY <1>3 DEF VaryHeaders

LEMMA BodyType ==
    ASSUME NEW k \in Keys, NEW v \in Variants, NEW g \in 0 .. MaxGen
    PROVE  Body(k, v, g) \in Bodies /\ Etag(Body(k, v, g)) \in Etags
<1>1. VariantOf(k, v) \in Variants \cup {None}
  BY DEF VariantOf
<1>2. Body(k, v, g) \in Bodies
  BY <1>1 DEF Body, Bodies
<1> QED
  BY <1>2 DEF Etag, Etags

LEMMA CurrentType ==
    ASSUME UpstreamType, NEW r, r.key \in Keys, r.variant \in Variants
    PROVE  Current(r) \in Bodies /\ Etag(Current(r)) \in Etags /\ gen[r.key] \in 0 .. MaxGen
<1>1. gen[r.key] \in 0 .. MaxGen
  BY DEF UpstreamType
<1> QED
  BY <1>1, BodyType DEF Current

LEMMA CachedResponseType ==
    ASSUME UpstreamType, NEW r, r.key \in Keys, r.variant \in Variants
    PROVE  CachedResponse(r) \in Response
<1>1. Current(r) \in Bodies /\ Etag(Current(r)) \in Etags /\ gen[r.key] \in 0 .. MaxGen
  BY CurrentType
<1>2. style[r.key] \in Styles /\ style[r.key].mr \in BOOLEAN
  BY Constants DEF UpstreamType, Style
<1>3. ExtractVaryHeaders(Header(r.variant), style[r.key].vary) \in VaryHeaders
  BY <1>2, VaryType
<1>4. epoch \in 0 .. MaxEpoch
  BY DEF UpstreamType
<1>5. (IF style[r.key].etag THEN Etag(Current(r)) ELSE None) \in Etags \cup {None}
  BY <1>1
<1>6. (IF style[r.key].lm THEN gen[r.key] ELSE None) \in Dates
  BY <1>1 DEF Dates
<1> QED
  BY <1>1, <1>2, <1>3, <1>4, <1>5, <1>6 DEF CachedResponse, Response

LEMMA ResponseAt ==
    ASSUME NEW val \in Seq(Response), NEW i \in DOMAIN val
    PROVE  val[i] \in Response /\ val[i].body \in Bodies
<1>1. val[i] \in Response
  BY SeqDomain
<1> QED
  BY <1>1 DEF Response

LEMMA ServeFromCacheIndex ==
    ASSUME NEW v, NEW val \in Seq(Response), NEW force \in BOOLEAN,
           NEW i, i = serveFromCache(v, val, force), i # 0
    PROVE  /\ i \in DOMAIN val
           /\ MatchVaryHeaders(Header(v), val[i].vary)
           /\ Usable(val[i], force)
<1> DEFINE S == {j \in selectMostRecentCandidates(val, selectResponseCandidates(v, val)) :
                    Usable(val[j], force) /\ val[j].body \in files}
<1>1. S \subseteq selectResponseCandidates(v, val)
  BY DEF selectMostRecentCandidates
<1>2. S \subseteq DOMAIN val
  BY <1>1 DEF selectResponseCandidates
<1>3. S \in SUBSET Nat /\ 0 \notin S
  BY <1>2, SeqDomain
<1>4. i = Least(S)
  BY DEF serveFromCache
<1>5. i \in S
  BY <1>3, <1>4, LeastIsIn
<1> QED
  BY <1>1, <1>2, <1>5 DEF selectResponseCandidates

LEMMA UpdateCacheIndex ==
    ASSUME NEW val \in Seq(Response), NEW etag, NEW lm,
           NEW i, i = updateCache(val, etag, lm)
    PROVE  /\ i # 0 => /\ i \in DOMAIN val
                       /\ \/ etag # None /\ EtagsMatch(etag, val[i].etag)
                          \/ lm # None /\ val[i].lm = lm
           /\ etag # None /\ (\E j \in DOMAIN val : EtagsMatch(etag, val[j].etag)) =>
                i # 0 /\ EtagsMatch(etag, val[i].etag)
<1> DEFINE E == {j \in DOMAIN val : EtagsMatch(etag, val[j].etag)}
           L == {j \in DOMAIN val : val[j].lm = lm}
           byEtag == IF etag = None THEN 0 ELSE Least(E)
           byLm == IF lm = None THEN 0 ELSE Least(L)
<1>1. E \in SUBSET Nat /\ 0 \notin E /\ L \in SUBSET Nat /\ 0 \notin L
  BY SeqDomain
<1>2. i = IF byEtag # 0 THEN byEtag ELSE byLm
  BY DEF updateCache
<1>3. byEtag # 0 => etag # None /\ byEtag \in E
  BY <1>1, LeastIsIn
<1>4. byLm # 0 => lm # None /\ byLm \in L
  BY <1>1, LeastIsIn
<1>5. etag # None /\ E # {} => byEtag # 0
  BY <1>1, LeastIsIn
<1> HIDE DEF byEtag, byLm
<1> QED
  BY <1>2, <1>3, <1>4, <1>5

LEMMA AddConditional ==
    ASSUME NEW r \in Request, NEW val \in Seq(Response),
           NEW n, n = addConditionalRequestInformation(r, val)
    PROVE  /\ n \in Request
           /\ n.st = r.st /\ n.key = r.key /\ n.variant = r.variant /\ n.e = r.e
           /\ n.inm = r.inm /\ n.ims = r.ims /\ n.resp = r.resp /\ n.out = r.out
           /\ n.sentInm = r.sentInm \cup ({val[i].etag : i \in DOMAIN val} \ {None})
           /\ r.ims # None => n.sentIms = r.sentIms
           /\ ~n.hasCond => n.sentInm = r.sentInm /\ n.sentIms = r.sentIms
           /\ val = <<>> => ~n.hasCond
<1> DEFINE etags == {val[i].etag : i \in DOMAIN val} \ {None}
           lms == {val[i].lm : i \in DOMAIN val} \ {None}
           useLm == lms # {} /\ r.ims = None
           top == CHOOSE m \in lms : \A o \in lms : o <= m
           ims == IF useLm THEN top ELSE r.sentIms
           cond == etags # {} \/ useLm
<1>1. n = [r EXCEPT !.hasCond = cond, !.sentInm = r.sentInm \cup etags, !.sentIms = ims]
  BY DEF addConditionalRequestInformation, Request
<1>2. \A i \in DOMAIN val : val[i] \in Response
  BY SeqDomain
<1>3. etags \subseteq Etags
  BY <1>2 DEF Response
<1>4. lms \subseteq 0 .. MaxGen
  BY <1>2 DEF Response, Dates
<1>5. lms # {} => top \in Dates
  <2>1. lms # {} => \E m \in lms : \A o \in lms : o <= m
    BY <1>4, GreatestExists, Constants
  <2> QED
    BY <2>1, <1>4 DEF Dates
<1>6. r.sentIms \in Dates /\ r.sentInm \in SUBSET Etags
  BY DEF Request
<1>7. ims \in Dates /\ r.sentInm \cup etags \in SUBSET Etags /\ cond \in BOOLEAN
  BY <1>3, <1>5, <1>6
<1>8. val = <<>> => ~cond
  BY SeqDomain
<1>9. r.ims # None => ims = r.sentIms
  OBVIOUS
<1>10. ~cond => etags = {} /\ ims = r.sentIms
  OBVIOUS
<1>11. n \in Request
  <2> HIDE DEF ims, cond, etags
  <2> QED
    BY <1>1, <1>7 DEF Request
<1>12. n.hasCond = cond /\ n.sentInm = r.sentInm \cup etags /\ n.sentIms = ims
  <2> HIDE DEF ims, cond, etags
  <2> QED
    BY <1>1 DEF Request
<1>13. /\ n.st = r.st /\ n.key = r.key /\ n.variant = r.variant /\ n.e = r.e
       /\ n.inm = r.inm /\ n.ims = r.ims /\ n.resp = r.resp /\ n.out = r.out
  <2> HIDE DEF ims, cond, etags
  <2> QED
    BY <1>1 DEF Request
<1> QED
  BY <1>8, <1>9, <1>10, <1>11, <1>12, <1>13

LEMMA NewRequestType ==
    /\ NewRequest \in Request /\ RequestOK(NewRequest)
    /\ NewRequest.st = "new" /\ NewRequest.e = None /\ NewRequest.out = NoOut
<1>1. 0 \in 0 .. MaxGen /\ 0 \in 0 .. Hops
  BY Constants
<1>2. NoOut \in Outs
  BY <1>1 DEF NoOut, Outs, Origins, Codes
<1>3. "new" \in Stages /\ None \in Dates
  BY DEF Stages, Dates
<1>4. NewRequest \in Request
  BY <1>1, <1>2, <1>3 DEF NewRequest, Request
<1> QED
  BY <1>4 DEF NewRequest, RequestOK, Holding, Ingesting

LEMMA DoneType ==
    ASSUME NEW r \in Request, NEW o \in Outs, NEW n, n = Done(r, o)
    PROVE  /\ n \in Request /\ RequestOK(n)
           /\ n.st = "done" /\ n.e = None /\ n.key = r.key /\ n.variant = r.variant
           /\ n.inm = r.inm /\ n.ims = r.ims /\ n.out = o
<1>1. n = [NewRequest EXCEPT !.st = "done", !.key = r.key, !.variant = r.variant,
                             !.inm = r.inm, !.ims = r.ims, !.out = o]
  BY DEF Done
<1>2. /\ r.key \in Keys \cup {None} /\ r.variant \in Variants \cup {None}
      /\ r.inm \in SUBSET Etags /\ r.ims \in Dates
  BY DEF Request
<1>3. "done" \in Stages
  BY DEF Stages
<1>4. NewRequest \in Request /\ NewRequest.e = None
  BY NewRequestType
<1>5. n \in Request
  BY <1>1, <1>2, <1>3, <1>4 DEF Request
<1>6. /\ n.st = "done" /\ n.e = None /\ n.key = r.key /\ n.variant = r.variant
      /\ n.inm = r.inm /\ n.ims = r.ims /\ n.out = o
  BY <1>1, <1>4 DEF Request
<1> QED
  BY <1>5, <1>6 DEF RequestOK, Holding, Ingesting

LEMMA OutType ==
    ASSUME NEW src \in Origins, NEW status \in Codes, NEW body \in Bodies \cup {None},
           NEW g \in 0 .. MaxGen
    PROVE  Out(src, status, body, g) \in Outs
BY DEF Out, Outs

LEMMA HandedOnType == HandedOn \in Outs
<1>1. "upstream" \in Origins /\ 400 \in Codes /\ 0 \in 0 .. MaxGen
  BY Constants DEF Origins, Codes
<1> QED
  BY <1>1, OutType DEF HandedOn

LEMMA OwnValidatorsType ==
    ASSUME UpstreamType, NEW k \in Keys, NEW v \in Variants, NEW own \in OwnValidators(k, v)
    PROVE  /\ own[1] \in SUBSET Etags /\ own[2] \in Dates
           /\ ~Conditional => own[1] = {} /\ own[2] = None
<1>1. gen[k] \in 0 .. MaxGen /\ MaxGen \in Nat
  BY Constants DEF UpstreamType
<1>2. \A g \in 0 .. gen[k] : g \in 0 .. MaxGen
  BY <1>1
<1>3. \A g \in 0 .. gen[k] : {Etag(Body(k, v, g))} \in SUBSET Etags /\ g \in Dates
  BY <1>2, BodyType DEF Dates
<1>4. CASE own = <<{}, None>>
  BY <1>4 DEF Dates
<1>5. CASE Conditional /\ \E g \in 0 .. gen[k] : own = <<{Etag(Body(k, v, g))}, None>>
  BY <1>3, <1>5 DEF Dates
<1>6. CASE Conditional /\ \E g \in 0 .. gen[k] : own = <<{}, g>>
  BY <1>3, <1>6 DEF Dates
<1> QED
  BY <1>4, <1>5, <1>6 DEF OwnValidators

LEMMA StartType ==
    ASSUME UpstreamType, NEW k \in Keys, NEW v \in Variants, NEW e \in Entries,
           NEW own \in OwnValidators(k, v), NEW r, r = Start(k, v, own, e)
    PROVE  /\ r \in Request /\ RequestOK(r)
           /\ r.st = "sent" /\ r.key = k /\ r.variant = v /\ r.e = e /\ ~r.hasCond
           /\ r.inm = own[1] /\ r.ims = own[2] /\ r.sentInm = own[1] /\ r.sentIms = own[2]
           /\ r.out = NoOut
<1>1. r = [NewRequest EXCEPT !.st = "sent", !.key = k, !.variant = v, !.inm = own[1],
                             !.ims = own[2], !.sentInm = own[1], !.sentIms = own[2],
                             !.e = e, !.hops = Hops]
  BY DEF Start
<1>2. own[1] \in SUBSET Etags /\ own[2] \in Dates
  BY OwnValidatorsType
<1>3. "sent" \in Stages /\ Hops \in 0 .. Hops
  BY Constants DEF Stages
<1>4. NewRequest \in Request /\ NewRequest.out = NoOut /\ NewRequest.hasCond = FALSE
  BY NewRequestType DEF NewRequest
<1>5. r \in Request
  BY <1>1, <1>2, <1>3, <1>4, ZenonT(60) DEF Request
<1>6. /\ r.st = "sent" /\ r.key = k /\ r.variant = v /\ r.e = e /\ ~r.hasCond
      /\ r.inm = own[1] /\ r.ims = own[2] /\ r.sentInm = own[1] /\ r.sentIms = own[2]
      /\ r.out = NoOut
  BY <1>1, <1>4 DEF Request
<1> QED
  BY <1>5, <1>6 DEF RequestOK, Holding, Ingesting

\* new is val with resp at n: in the place of a response that matched, or at the
\* end if none did.
Stores(val, v, resp, new, n) ==
    /\ new[n] = resp
    /\ DOMAIN new = DOMAIN val \cup {n}
    /\ \A j \in DOMAIN val \ {n} : new[j] = val[j]
    /\ n \in DOMAIN val => n \in selectResponseCandidates(v, val)
    /\ n \notin DOMAIN val => selectResponseCandidates(v, val) = {}

LEMMA WithResponseShape ==
    ASSUME NEW val \in Seq(Response), NEW v, NEW resp \in Response,
           NEW new, new = WithResponse(val, v, resp)
    PROVE  /\ new \in Seq(Response) /\ new # <<>>
           /\ \E n \in DOMAIN new : Stores(val, v, resp, new, n)
<1> DEFINE S == selectResponseCandidates(v, val)
           i == Least(S)
<1>1. S \subseteq DOMAIN val /\ S \in SUBSET Nat /\ 0 \notin S
  BY SeqDomain DEF selectResponseCandidates
<1>2. new = IF i = 0 THEN Append(val, resp) ELSE [val EXCEPT ![i] = resp]
  BY DEF WithResponse
<1>3. (i # 0 => i \in S) /\ (i = 0 => S = {})
  BY <1>1, LeastIsIn
<1> HIDE DEF i, S
<1>4. ASSUME i = 0
      PROVE  /\ new \in Seq(Response)
             /\ new[Len(val) + 1] = resp
             /\ DOMAIN new = DOMAIN val \cup {Len(val) + 1}
             /\ Len(val) + 1 \notin DOMAIN val
             /\ \A j \in DOMAIN val : new[j] = val[j]
  BY <1>2, <1>4, SeqAppend
<1>5. ASSUME i # 0
      PROVE  /\ new \in Seq(Response)
             /\ new[i] = resp
             /\ DOMAIN new = DOMAIN val /\ i \in DOMAIN val
             /\ \A j \in DOMAIN val : j # i => new[j] = val[j]
  <2>1. i \in DOMAIN val
    BY <1>1, <1>3, <1>5
  <2> QED
    BY <1>2, <1>5, <2>1, SeqExcept
<1>6. new \in Seq(Response)
  BY <1>4, <1>5
<1>7. DOMAIN new # {}
  BY <1>4, <1>5
<1>8. new # <<>>
  BY <1>6, <1>7, SeqDomain
<1> QED
  BY <1>3, <1>4, <1>5, <1>6, <1>8 DEF S, Stores

-----------------------------------------------------------------------------
(* Types are kept.  First the three parts, by what changes them.           *)

LEMMA TypeParts ==
    TypeInv => /\ TypeOK /\ UpstreamType /\ PoolExclusive
               /\ \A q \in Requests : RequestOK(rq[q])
<1>1. TypeInv => TypeOK
  BY DEF TypeInv, StoreType, ObjType, RequestType, TypeOK
<1>2. ASSUME TypeInv PROVE PoolExclusive
  <2> SUFFICES ASSUME NEW q \in Requests
               PROVE  rq[q].st \in Holding <=> rq[q].e # None
    BY <1>2 DEF TypeInv, RequestType, PoolExclusive, Holding
  <2> QED
    BY <1>2, Constants DEF TypeInv, RequestType, RequestOK
<1> QED
  BY <1>1, <1>2 DEF TypeInv, StoreType, RequestType, UpstreamType

LEMMA SaveType ==
    ASSUME StoreType, NEW k \in Keys, NEW ver, NEW val \in Seq(Response), val # <<>>,
           Save(k, ver, val)
    PROVE  /\ clock' \in Nat /\ clock <= clock'
           /\ db' \in [Keys -> Entry] /\ \A j \in Keys : EntryOK(db[j])'
<1> DEFINE new == [val |-> val, ver |-> clock + 1]
<1>1. clock \in Nat /\ clock + 1 \in Nat /\ new \in Entry
  BY DEF StoreType, Entry
<1>2. CASE CanSave(k, ver)
  <2>1. db' = [db EXCEPT ![k] = new] /\ clock' = clock + 1
    BY <1>2 DEF Save
  <2>2. \A j \in Keys : db'[j] = IF j = k THEN new ELSE db[j]
    BY <2>1 DEF StoreType
  <2>3. \A j \in Keys : db[j].ver \in Nat /\ EntryOK(db[j])
    BY DEF StoreType, Entry
  <2>4. ASSUME NEW j \in Keys PROVE EntryOK(db[j])'
    <3>1. CASE j = k
      BY <1>1, <2>1, <2>2, <3>1 DEF EntryOK
    <3>2. CASE j # k
      BY <1>1, <2>1, <2>2, <2>3, <3>2 DEF EntryOK
    <3> QED
      BY <3>1, <3>2
  <2>5. db' \in [Keys -> Entry]
    BY <1>1, <2>1 DEF StoreType
  <2> QED
    BY <1>1, <2>1, <2>4, <2>5
<1>3. CASE ~CanSave(k, ver)
  BY <1>1, <1>3 DEF Save, StoreType, EntryOK
<1> QED
  BY <1>2, <1>3

LEMMA ObjKept ==
    ASSUME ObjType, clock \in Nat, clock' \in Nat, clock <= clock', UNCHANGED obj
    PROVE  ObjType'
BY DEF ObjType, EntryOK, Entry

LEMMA ObjSet ==
    ASSUME ObjType, clock \in Nat, clock' \in Nat, clock <= clock', NEW e \in Entries,
           NEW ent \in Entry, ent.ver <= clock, ent.ver # 0 => ent.val # <<>>,
           obj' = [obj EXCEPT ![e] = ent]
    PROVE  ObjType'
<1>1. \A d \in Entries : obj'[d] = IF d = e THEN ent ELSE obj[d]
  BY DEF ObjType
<1>2. \A d \in Entries : obj[d].ver \in Nat /\ EntryOK(obj[d])
  BY DEF ObjType, Entry
<1>3. ent.ver \in Nat
  BY DEF Entry
<1>4. \A d \in Entries : EntryOK(obj[d])'
  BY <1>1, <1>2, <1>3 DEF EntryOK
<1>5. obj' \in [Entries -> Entry]
  BY DEF ObjType
<1> QED
  BY <1>4, <1>5 DEF ObjType

\* A request moves on: it takes an entry from the pool, keeps its entry, or is
\* rid of it.
LEMMA RequestMoves ==
    ASSUME RequestType, NEW q \in Requests, NEW r \in Request, RequestOK(r),
           rq' = [rq EXCEPT ![q] = r],
           \/ r.e \in pool /\ pool' = pool \ {r.e}
           \/ r.e = rq[q].e /\ pool' = pool
           \/ r.e = None /\ pool' = pool
           \/ r.e = None /\ rq[q].e \in Entries /\ pool' = pool \cup {rq[q].e}
    PROVE  RequestType'
<1>1. \A p \in Requests : rq'[p] = IF p = q THEN r ELSE rq[p]
  BY DEF RequestType
<1>2. rq' \in [Requests -> Request] /\ \A p \in Requests : RequestOK(rq'[p])
  BY <1>1 DEF RequestType
<1>3. pool' \subseteq Entries /\ None \notin pool' /\ None \notin pool
  BY Constants DEF RequestType
<1>4. r.e \notin pool'
  BY <1>3 DEF RequestType
<1>5. ASSUME NEW p \in Requests, p # q
      PROVE  rq[p].e \notin pool' /\ (r.e # None => rq[p].e # r.e)
  <2>1. rq[p].e \notin pool /\ (rq[q].e # None => rq[p].e # rq[q].e)
    BY <1>5 DEF RequestType
  <2> QED
    BY <2>1, <1>3, Constants
<1>6. ASSUME NEW p \in Requests, NEW o \in Requests \ {p}, rq'[p].e # None
      PROVE  rq'[o].e # rq'[p].e
  <2>1. CASE p # q /\ o # q
    BY <1>1, <1>6, <2>1 DEF RequestType
  <2>2. CASE p = q
    BY <1>1, <1>5, <1>6, <2>2
  <2>3. CASE o = q /\ p # q
    BY <1>1, <1>5, <1>6, <2>3
  <2> QED
    BY <2>1, <2>2, <2>3
<1>7. \A p \in Requests : rq'[p].e \notin pool'
  BY <1>1, <1>4, <1>5
<1> QED
  BY <1>2, <1>3, <1>6, <1>7 DEF RequestType

LEMMA StoreKept ==
    ASSUME StoreType, UNCHANGED <<style, gen, epoch, db, clock, files, since>>
    PROVE  StoreType'
BY DEF StoreType, EntryOK

LEMMA HeldTypes ==
    ASSUME TypeInv, NEW q \in Requests, rq[q].st \in Holding
    PROVE  /\ rq[q] \in Request
           /\ rq[q].key \in Keys /\ rq[q].variant \in Variants /\ rq[q].e \in Entries
           /\ obj[rq[q].e] \in Entry /\ obj[rq[q].e].val \in Seq(Response)
           /\ EntryOK(obj[rq[q].e])
           /\ gen[rq[q].key] \in 0 .. MaxGen
           /\ style[rq[q].key] \in Styles
<1>1. /\ rq[q] \in Request
      /\ rq[q].key \in Keys /\ rq[q].variant \in Variants /\ rq[q].e \in Entries
  BY DEF TypeInv, RequestType, RequestOK
<1> QED
  BY <1>1 DEF TypeInv, ObjType, StoreType, Entry

LEMMA ReturnType ==
    ASSUME TypeInv, NEW q \in Requests, rq[q].st \in Holding, NEW o \in Outs, Return(q, o)
    PROVE  RequestType'
<1> DEFINE n == Done(rq[q], o)
<1>1. rq[q] \in Request /\ rq[q].e \in Entries
  BY HeldTypes
<1>2. n \in Request /\ RequestOK(n) /\ n.e = None
  BY <1>1, DoneType
<1>3. rq' = [rq EXCEPT ![q] = n] /\ pool' = pool \cup {rq[q].e}
  BY DEF Return
<1> HIDE DEF n
<1> QED
  BY <1>1, <1>2, <1>3, RequestMoves DEF TypeInv

\* What StaleOr returns is o, or a stored response that matches the request.
LEMMA StaleOrReturns ==
    ASSUME TypeInv, NEW q \in Requests, rq[q].st \in Holding, NEW o \in Outs, StaleOr(q, o)
    PROVE  \E n \in Outs :
             /\ Return(q, n)
             /\ \/ n = o
                \/ /\ obj[rq[q].e].ver # 0
                   /\ \E i \in DOMAIN obj[rq[q].e].val :
                        /\ MatchVaryHeaders(Header(rq[q].variant), obj[rq[q].e].val[i].vary)
                        /\ n = Out("stale", 200, obj[rq[q].e].val[i].body, gen[rq[q].key])
<1> DEFINE ent == obj[rq[q].e]
           i == IF ent.ver = 0 THEN 0 ELSE serveFromCache(rq[q].variant, ent.val, TRUE)
           n == IF i = 0 THEN o ELSE Out("stale", 200, ent.val[i].body, gen[rq[q].key])
<1>1. Return(q, n)
  BY DEF StaleOr
<1>2. ent.val \in Seq(Response) /\ gen[rq[q].key] \in 0 .. MaxGen
  BY HeldTypes
<1>3. CASE i = 0
  BY <1>1, <1>3
<1>4. CASE i # 0
  <2>1. ent.ver # 0 /\ i = serveFromCache(rq[q].variant, ent.val, TRUE)
    BY <1>4
  <2>2. i \in DOMAIN ent.val /\ MatchVaryHeaders(Header(rq[q].variant), ent.val[i].vary)
    BY <2>1, <1>2, <1>4, ServeFromCacheIndex
  <2>3. ent.val[i].body \in Bodies
    BY <2>2, <1>2, ResponseAt
  <2>4. "stale" \in Origins /\ 200 \in Codes
    BY DEF Origins, Codes
  <2>5. n = Out("stale", 200, ent.val[i].body, gen[rq[q].key])
    BY <1>4
  <2>6. n \in Outs
    BY <1>2, <2>3, <2>4, <2>5, OutType
  <2> HIDE DEF n
  <2> QED
    BY <1>1, <2>1, <2>2, <2>5, <2>6
<1> QED
  BY <1>3, <1>4

-----------------------------------------------------------------------------
(* Types are kept by each action.                                          *)

LEMMA DoTypes ==
    ASSUME TypeInv, NEW q \in Requests, Do(q)
    PROVE  TypeInv'
<1>1. PICK k \in Keys, v \in Variants, e \in pool : \E own \in OwnValidators(k, v) :
        LET r == Start(k, v, own, e) IN DoFound(q, r) \/ DoMissing(q, r) \/ DoGetError(q, r)
  BY DEF Do
<1>2. PICK own \in OwnValidators(k, v) :
        LET r == Start(k, v, own, e) IN DoFound(q, r) \/ DoMissing(q, r) \/ DoGetError(q, r)
  BY <1>1
<1>3. PICK r : r = Start(k, v, own, e)
  OBVIOUS
<1>4. DoFound(q, r) \/ DoMissing(q, r) \/ DoGetError(q, r)
  BY <1>2, <1>3
<1>5. UpstreamType /\ e \in Entries /\ StoreType /\ ObjType /\ RequestType
  BY TypeParts DEF TypeInv, RequestType
<1>6. r \in Request /\ RequestOK(r) /\ r.st = "sent" /\ r.key = k /\ r.e = e
  BY <1>3, <1>5, StartType
<1>7. UNCHANGED <<style, gen, epoch, db, clock, files, since>> /\ clock \in Nat
  BY <1>5 DEF Do, StoreType
<1>8. StoreType'
  BY <1>5, <1>7, StoreKept
<1>9. clock \in Nat /\ clock' \in Nat /\ clock <= clock'
  BY <1>7
<1>10. /\ db[k] \in Entry /\ EntryOK(db[k]) /\ db[k].val \in Seq(Response)
       /\ obj[e] \in Entry /\ EntryOK(obj[e]) /\ obj[e].val \in Seq(Response)
  BY <1>5 DEF StoreType, ObjType, Entry
<1>11. ASSUME NEW val \in Seq(Response), NEW n, n = addConditionalRequestInformation(r, val)
       PROVE  n \in Request /\ n.e = e /\ RequestOK(n)
  <2>1. n \in Request /\ n.e = r.e /\ n.st = r.st /\ n.key = r.key /\ n.variant = r.variant
    BY <1>6, <1>11, AddConditional
  <2> QED
    BY <2>1, <1>6 DEF RequestOK, Holding, Ingesting
<1>12. CASE DoFound(q, r)
  <2> DEFINE i == serveFromCache(r.variant, db[k].val, FALSE)
             o == Out("fresh", 200, db[k].val[i].body, gen[k])
  <2>1. obj' = [obj EXCEPT ![e] = db[k]]
    BY <1>6, <1>12 DEF DoFound
  <2>2. ObjType'
    BY <2>1, <1>5, <1>9, <1>10, ObjSet DEF EntryOK
  <2>3. CASE i # 0 /\ rq' = [rq EXCEPT ![q] = Done(r, o)] /\ UNCHANGED pool
    <3>1. i \in DOMAIN db[k].val
      BY <2>3, <1>10, ServeFromCacheIndex
    <3>2. db[k].val[i].body \in Bodies /\ gen[k] \in 0 .. MaxGen
      BY <3>1, <1>5, <1>10, ResponseAt DEF StoreType
    <3>3. "fresh" \in Origins /\ 200 \in Codes
      BY DEF Origins, Codes
    <3>4. o \in Outs
      BY <3>2, <3>3, OutType
    <3>5. PICK n : n = Done(r, o)
      OBVIOUS
    <3> HIDE DEF o
    <3>6. n \in Request /\ RequestOK(n) /\ n.e = None
      BY <1>6, <3>4, <3>5, DoneType
    <3>7. rq' = [rq EXCEPT ![q] = n] /\ pool' = pool
      BY <2>3, <3>5
    <3>8. RequestType'
      BY <3>6, <3>7, <1>5, RequestMoves
    <3> QED
      BY <1>8, <2>2, <3>8 DEF TypeInv
  <2>4. CASE /\ rq' = [rq EXCEPT ![q] = addConditionalRequestInformation(r, db[k].val)]
             /\ pool' = pool \ {e}
    <3>1. PICK n : n = addConditionalRequestInformation(r, db[k].val)
      OBVIOUS
    <3>2. n \in Request /\ n.e = e /\ RequestOK(n)
      BY <3>1, <1>10, <1>11
    <3>3. RequestType'
      BY <2>4, <3>1, <3>2, <1>5, RequestMoves
    <3> QED
      BY <1>8, <2>2, <3>3 DEF TypeInv
  <2> QED
    BY <2>3, <2>4, <1>6, <1>12 DEF DoFound
<1>13. CASE DoMissing(q, r)
  <2> DEFINE ent == [obj[e] EXCEPT !.ver = 0]
  <2>1. ent \in Entry /\ ent.ver = 0 /\ ent.ver <= clock
    BY <1>9, <1>10 DEF Entry
  <2>2. obj' = [obj EXCEPT ![e] = ent]
    BY <1>6, <1>13 DEF DoMissing
  <2> HIDE DEF ent
  <2>3. ObjType'
    BY <2>1, <2>2, <1>5, <1>9, ObjSet
  <2>4. RequestType'
    BY <1>5, <1>6, <1>13, RequestMoves DEF DoMissing
  <2> QED
    BY <1>8, <2>3, <2>4 DEF TypeInv
<1>14. CASE DoGetError(q, r)
  <2>1. ObjType'
    BY <1>5, <1>9, <1>14, ObjKept DEF DoGetError
  <2>2. PICK n : n = IF obj[e].ver = 0 THEN r ELSE addConditionalRequestInformation(r, obj[e].val)
    OBVIOUS
  <2>3. n \in Request /\ n.e = e /\ RequestOK(n)
    <3>1. CASE obj[e].ver = 0
      BY <2>2, <3>1, <1>6
    <3>2. CASE obj[e].ver # 0
      BY <2>2, <3>2, <1>10, <1>11
    <3> QED
      BY <3>1, <3>2
  <2>4. rq' = [rq EXCEPT ![q] = n] /\ pool' = pool \ {e}
    BY <2>2, <1>6, <1>14 DEF DoGetError
  <2>5. RequestType'
    BY <2>3, <2>4, <1>5, RequestMoves
  <2> QED
    BY <1>8, <2>1, <2>5 DEF TypeInv
<1> QED
  BY <1>4, <1>12, <1>13, <1>14

LEMMA WaitingHolds == \A q \in Requests : Waiting(q) => rq[q].st \in Holding /\ rq[q].st \notin Ingesting
BY DEF Waiting, Holding, Ingesting

\* A step of a request that returns and leaves the entries alone.
LEMMA ReturnOnlyTypes ==
    ASSUME TypeInv, NEW q \in Requests, rq[q].st \in Holding, NEW o \in Outs, Return(q, o),
           UNCHANGED <<style, gen, epoch, db, clock, files, obj, since>>
    PROVE  TypeInv'
<1>1. StoreType' /\ clock \in Nat
  BY StoreKept DEF TypeInv, StoreType
<1>2. ObjType'
  BY <1>1, ObjKept DEF TypeInv
<1>3. RequestType'
  BY ReturnType
<1> QED
  BY <1>1, <1>2, <1>3 DEF TypeInv

LEMMA NextHopTypes ==
    ASSUME TypeInv, NEW q \in Requests, NextHop(q)
    PROVE  TypeInv'
<1> DEFINE r == [rq[q] EXCEPT !.hops = rq[q].hops - 1]
<1>1. rq[q].st \in Holding /\ rq[q].hops > 0
  BY WaitingHolds DEF NextHop
<1>2. rq[q] \in Request /\ RequestOK(rq[q])
  BY DEF TypeInv, RequestType
<1>3. rq[q].hops - 1 \in 0 .. Hops
  BY <1>1, <1>2, Constants DEF Request
<1>4. /\ r \in Request /\ r.e = rq[q].e /\ r.st = rq[q].st /\ r.key = rq[q].key
      /\ r.variant = rq[q].variant /\ r.resp = rq[q].resp
  BY <1>2, <1>3 DEF Request
<1>5. rq' = [rq EXCEPT ![q] = r] /\ pool' = pool
  BY DEF NextHop
<1> HIDE DEF r
<1>6. RequestOK(r)
  BY <1>2, <1>4 DEF RequestOK
<1>7. RequestType'
  BY <1>4, <1>5, <1>6, RequestMoves DEF TypeInv
<1>8. StoreType' /\ clock \in Nat /\ clock' = clock /\ UNCHANGED obj
  BY StoreKept DEF TypeInv, StoreType, NextHop
<1>9. ObjType'
  BY <1>8, ObjKept DEF TypeInv
<1> QED
  BY <1>7, <1>8, <1>9 DEF TypeInv

LEMMA ErrorOutType == Out("error", 0, None, 0) \in Outs
<1>1. "error" \in Origins /\ 0 \in Codes /\ 0 \in 0 .. MaxGen
  BY Constants DEF Origins, Codes
<1> QED
  BY <1>1, OutType

\* AnswerFailure, AnswerTooMany and AnswerOther return an error, the answer of
\* upstream, or a stored response that matches the request.
LEMMA FailureReturns ==
    ASSUME TypeInv, NEW q \in Requests, AnswerFailure(q) \/ AnswerTooMany(q) \/ AnswerOther(q)
    PROVE  /\ rq[q].st \in Holding
           /\ UNCHANGED <<style, gen, epoch, db, clock, files, obj, since>>
           /\ \E n \in Outs :
                /\ Return(q, n)
                /\ \/ n = Out("error", 0, None, 0) \/ n = HandedOn
                   \/ /\ obj[rq[q].e].ver # 0
                      /\ \E i \in DOMAIN obj[rq[q].e].val :
                           /\ MatchVaryHeaders(Header(rq[q].variant), obj[rq[q].e].val[i].vary)
                           /\ n = Out("stale", 200, obj[rq[q].e].val[i].body, gen[rq[q].key])
<1>1. rq[q].st \in Holding
  BY WaitingHolds DEF AnswerFailure, AnswerTooMany, AnswerOther
<1>2. UNCHANGED <<style, gen, epoch, db, clock, files, obj, since>>
  BY DEF AnswerFailure, AnswerTooMany, AnswerOther
<1>3. CASE StaleOr(q, Out("error", 0, None, 0))
  BY <1>1, <1>2, <1>3, StaleOrReturns, ErrorOutType
<1>4. CASE StaleOr(q, HandedOn)
  BY <1>1, <1>2, <1>4, StaleOrReturns, HandedOnType
<1>5. CASE Return(q, HandedOn)
  BY <1>1, <1>2, <1>5, HandedOnType
<1> QED
  BY <1>3, <1>4, <1>5 DEF AnswerFailure, AnswerTooMany, AnswerOther

\* What refreshResponseAndServe does: the i-th response of the entry is
\* renewed, saved and served, if its body is still there.
Refreshed(q, i, etag, lm, val, o) ==
    /\ val # <<>> /\ DOMAIN val = DOMAIN obj[rq[q].e].val
    /\ \A j \in DOMAIN val : j # i => val[j] = obj[rq[q].e].val[j]
    /\ val[i].body = obj[rq[q].e].val[i].body
    /\ val[i].vary = obj[rq[q].e].val[i].vary
    /\ val[i].born = epoch
    /\ val[i].etag = IF etag = None THEN obj[rq[q].e].val[i].etag ELSE etag
    /\ val[i].lm = IF lm = None THEN obj[rq[q].e].val[i].lm ELSE lm
    /\ obj' = [obj EXCEPT ![rq[q].e] = [val |-> val, ver |-> obj[rq[q].e].ver]]
    /\ Save(rq[q].key, obj[rq[q].e].ver, val)
    /\ Return(q, o)
    /\ o \in {Out("revalidated", 200, val[i].body, gen[rq[q].key]),
              Out("panic", 0, None, gen[rq[q].key])}

LEMMA RefreshEffect ==
    ASSUME TypeInv, NEW q \in Requests, rq[q].st \in Holding,
           NEW i \in DOMAIN obj[rq[q].e].val, NEW etag \in Etags \cup {None}, NEW lm \in Dates,
           refreshResponseAndServe(q, i, etag, lm)
    PROVE  \E val \in Seq(Response), o \in Outs : Refreshed(q, i, etag, lm, val, o)
<1> DEFINE e == rq[q].e
           old == obj[e].val[i]
           g == gen[rq[q].key]
<1>1. e \in Entries /\ obj[e] \in Entry /\ obj[e].val \in Seq(Response) /\ g \in 0 .. MaxGen
  BY HeldTypes
<1>2. old \in Response
  BY <1>1, ResponseAt
<1>3. PICK new : new = [old EXCEPT !.etag = IF etag = None THEN @ ELSE etag,
                                   !.lm = IF lm = None THEN @ ELSE lm, !.born = epoch]
  OBVIOUS
<1>4. /\ new \in Response /\ new.body = old.body /\ new.vary = old.vary /\ new.born = epoch
      /\ new.etag = IF etag = None THEN old.etag ELSE etag
      /\ new.lm = IF lm = None THEN old.lm ELSE lm
  <2> HIDE DEF old
  <2>1. epoch \in 0 .. MaxEpoch
    BY DEF TypeInv, StoreType
  <2>2. (IF etag = None THEN old.etag ELSE etag) \in Etags \cup {None}
    BY <1>2 DEF Response
  <2>3. (IF lm = None THEN old.lm ELSE lm) \in Dates
    BY <1>2 DEF Response
  <2> QED
    BY <1>2, <1>3, <2>1, <2>2, <2>3 DEF Response
<1>5. PICK val : val = [obj[e].val EXCEPT ![i] = new]
  OBVIOUS
<1>6. /\ val \in Seq(Response) /\ DOMAIN val = DOMAIN obj[e].val /\ val[i] = new
      /\ \A j \in DOMAIN val : j # i => val[j] = obj[e].val[j]
  BY <1>1, <1>4, <1>5, SeqExcept
<1>7. val # <<>>
  BY <1>6, SeqDomain
<1>8. PICK o : o = IF new.body \in files THEN Out("revalidated", 200, new.body, g)
                   ELSE Out("panic", 0, None, g)
  OBVIOUS
<1>9. /\ obj' = [obj EXCEPT ![e].val = val]
      /\ Save(rq[q].key, obj[e].ver, val)
      /\ Return(q, o)
  BY <1>3, <1>5, <1>8 DEF refreshResponseAndServe
<1>10. [obj[e] EXCEPT !.val = val] = [val |-> val, ver |-> obj[e].ver]
  BY <1>1 DEF Entry
<1>11. obj' = [obj EXCEPT ![e] = [val |-> val, ver |-> obj[e].ver]]
  BY <1>9, <1>10
<1>12. o \in Outs
  <2>1. "revalidated" \in Origins /\ "panic" \in Origins /\ 200 \in Codes /\ 0 \in Codes
    BY DEF Origins, Codes
  <2>2. new.body \in Bodies
    BY <1>4 DEF Response
  <2>3. Out("revalidated", 200, new.body, g) \in Outs
    BY <1>1, <2>1, <2>2, OutType
  <2>4. Out("panic", 0, None, g) \in Outs
    BY <1>1, <2>1, OutType
  <2> QED
    BY <1>8, <2>3, <2>4
<1>13. o \in {Out("revalidated", 200, val[i].body, g), Out("panic", 0, None, g)}
  BY <1>6, <1>8
<1>14. Refreshed(q, i, etag, lm, val, o)
  BY <1>4, <1>6, <1>7, <1>9, <1>11, <1>13 DEF Refreshed
<1> QED
  BY <1>6, <1>12, <1>14

Etag304(r) == IF style[r.key].etag304 THEN Etag(Current(r)) ELSE None
Lm304(r) == IF style[r.key].lm THEN gen[r.key] ELSE None

LEMMA ValidatorTypes ==
    ASSUME TypeInv, NEW q \in Requests, rq[q].st \in Holding
    PROVE  Etag304(rq[q]) \in Etags \cup {None} /\ Lm304(rq[q]) \in Dates
<1>1. UpstreamType /\ rq[q].key \in Keys /\ rq[q].variant \in Variants
  BY TypeParts, HeldTypes
<1>2. Etag(Current(rq[q])) \in Etags /\ gen[rq[q].key] \in 0 .. MaxGen
  BY <1>1, CurrentType
<1> QED
  BY <1>2 DEF Etag304, Lm304, Dates

\* The ways in which a 304 is handled.
LEMMA NotModifiedCases ==
    ASSUME TypeInv, NEW q \in Requests, AnswerNotModified(q),
           NEW i, i = updateCache(obj[rq[q].e].val, Etag304(rq[q]), Lm304(rq[q]))
    PROVE  /\ Waiting(q) /\ NotModified(rq[q])
           /\ UNCHANGED <<style, gen, epoch, files, since>>
           /\ \/ /\ Return(q, Out("panic", 0, None, gen[rq[q].key]))
                 /\ UNCHANGED <<db, clock, obj>>
              \/ /\ rq[q].st = "sent" /\ rq[q].hasCond /\ i # 0
                 /\ refreshResponseAndServe(q, i, Etag304(rq[q]), Lm304(rq[q]))
              \/ /\ \/ i = 0 /\ wasOriginalRequestConditional(rq[q])
                    \/ rq[q].st # "sent" \/ ~rq[q].hasCond
                 /\ Return(q, Out("upstream", 304, None, gen[rq[q].key]))
                 /\ UNCHANGED <<db, clock, obj>>
              \/ Retry(q)
BY DEF AnswerNotModified, Etag304, Lm304

LEMMA RefreshTypes ==
    ASSUME TypeInv, NEW q \in Requests, rq[q].st \in Holding,
           NEW i \in DOMAIN obj[rq[q].e].val, NEW etag \in Etags \cup {None}, NEW lm \in Dates,
           refreshResponseAndServe(q, i, etag, lm),
           UNCHANGED <<style, gen, epoch, files, since>>
    PROVE  TypeInv'
<1> DEFINE e == rq[q].e
<1>0. PICK val \in Seq(Response), o \in Outs : Refreshed(q, i, etag, lm, val, o)
  BY RefreshEffect
<1>1. /\ val # <<>>
      /\ obj' = [obj EXCEPT ![e] = [val |-> val, ver |-> obj[e].ver]]
      /\ Save(rq[q].key, obj[e].ver, val)
      /\ Return(q, o)
  BY <1>0 DEF Refreshed
<1>2. rq[q].key \in Keys /\ e \in Entries /\ obj[e] \in Entry /\ EntryOK(obj[e])
  BY HeldTypes
<1>3. StoreType /\ ObjType /\ RequestType /\ clock \in Nat
  BY DEF TypeInv, StoreType
<1>4. /\ clock' \in Nat /\ clock <= clock'
      /\ db' \in [Keys -> Entry] /\ \A j \in Keys : EntryOK(db[j])'
  BY <1>1, <1>2, <1>3, SaveType
<1>5. StoreType'
  BY <1>3, <1>4 DEF StoreType
<1>6. PICK ent : ent = [val |-> val, ver |-> obj[e].ver]
  OBVIOUS
<1>7. ent \in Entry /\ ent.ver <= clock /\ ent.val # <<>>
  BY <1>1, <1>2, <1>6 DEF Entry, EntryOK
<1>8. ObjType'
  BY <1>1, <1>2, <1>3, <1>4, <1>6, <1>7, ObjSet
<1>9. RequestType'
  BY <1>1, ReturnType
<1> QED
  BY <1>5, <1>8, <1>9 DEF TypeInv

LEMMA RetryEffect ==
    ASSUME TypeInv, NEW q \in Requests, Waiting(q), Retry(q)
    PROVE  \E r \in Request :
             /\ rq' = [rq EXCEPT ![q] = r] /\ RequestOK(r) /\ r.st = "resent"
             /\ r.key = rq[q].key /\ r.variant = rq[q].variant /\ r.e = rq[q].e
             /\ r.inm = rq[q].inm /\ r.ims = rq[q].ims /\ r.hasCond = rq[q].hasCond
             /\ r.sentInm = rq[q].inm /\ r.sentIms = rq[q].ims /\ r.out = rq[q].out
<1> DEFINE r == [rq[q] EXCEPT !.st = "resent", !.sentInm = rq[q].inm,
                              !.sentIms = rq[q].ims, !.hops = Hops]
<1>1. rq[q].st \in Holding
  BY WaitingHolds
<1>2. rq[q] \in Request /\ RequestOK(rq[q])
  BY DEF TypeInv, RequestType
<1>3. "resent" \in Stages /\ Hops \in 0 .. Hops
  BY Constants DEF Stages
<1>4. rq' = [rq EXCEPT ![q] = r]
  BY DEF Retry
<1>5. r \in Request
  BY <1>2, <1>3 DEF Request
<1>6. /\ r.st = "resent" /\ r.key = rq[q].key /\ r.variant = rq[q].variant /\ r.e = rq[q].e
      /\ r.inm = rq[q].inm /\ r.ims = rq[q].ims /\ r.hasCond = rq[q].hasCond
      /\ r.sentInm = rq[q].inm /\ r.sentIms = rq[q].ims /\ r.out = rq[q].out
  BY <1>2 DEF Request
<1> HIDE DEF r
<1>7. RequestOK(r)
  BY <1>1, <1>2, <1>6 DEF RequestOK, Holding, Ingesting
<1> QED
  BY <1>4, <1>5, <1>6, <1>7

LEMMA UpstreamOutTypes ==
    ASSUME NEW g \in 0 .. MaxGen
    PROVE  Out("panic", 0, None, g) \in Outs /\ Out("upstream", 304, None, g) \in Outs
<1>1. "panic" \in Origins /\ "upstream" \in Origins /\ 0 \in Codes /\ 304 \in Codes
  BY DEF Origins, Codes
<1> QED
  BY <1>1, OutType

LEMMA NotModifiedTypes ==
    ASSUME TypeInv, NEW q \in Requests, AnswerNotModified(q)
    PROVE  TypeInv'
<1>1. PICK i : i = updateCache(obj[rq[q].e].val, Etag304(rq[q]), Lm304(rq[q]))
  OBVIOUS
<1>2. Waiting(q) /\ UNCHANGED <<style, gen, epoch, files, since>>
  BY <1>1, NotModifiedCases
<1>3. rq[q].st \in Holding
  BY <1>2, WaitingHolds
<1>4. obj[rq[q].e].val \in Seq(Response) /\ gen[rq[q].key] \in 0 .. MaxGen
  BY <1>3, HeldTypes
<1>5. Etag304(rq[q]) \in Etags \cup {None} /\ Lm304(rq[q]) \in Dates
  BY <1>3, ValidatorTypes
<1>6. i # 0 => i \in DOMAIN obj[rq[q].e].val
  BY <1>1, <1>4, UpdateCacheIndex
<1>7. CASE UNCHANGED <<db, clock, obj>> /\ \E o \in Outs : Return(q, o)
  BY <1>2, <1>3, <1>7, ReturnOnlyTypes
<1>8. CASE i # 0 /\ refreshResponseAndServe(q, i, Etag304(rq[q]), Lm304(rq[q]))
  BY <1>2, <1>3, <1>5, <1>6, <1>8, RefreshTypes
<1>9. CASE Retry(q)
  <2>1. PICK r \in Request : rq' = [rq EXCEPT ![q] = r] /\ RequestOK(r) /\ r.e = rq[q].e
    BY <1>2, <1>9, RetryEffect
  <2>2. UNCHANGED <<db, clock, obj, pool>>
    BY <1>9 DEF Retry
  <2>3. RequestType'
    BY <2>1, <2>2, RequestMoves DEF TypeInv
  <2>4. StoreType' /\ clock \in Nat
    BY <1>2, <2>2, StoreKept DEF TypeInv, StoreType
  <2>5. ObjType'
    BY <2>2, <2>4, ObjKept DEF TypeInv
  <2> QED
    BY <2>3, <2>4, <2>5 DEF TypeInv
<1>10. Out("panic", 0, None, gen[rq[q].key]) \in Outs /\ Out("upstream", 304, None, gen[rq[q].key]) \in Outs
  BY <1>4, UpstreamOutTypes
<1> QED
  BY <1>1, <1>7, <1>8, <1>9, <1>10, NotModifiedCases

LEMMA AnswerOKEffect ==
    ASSUME TypeInv, NEW q \in Requests, AnswerOK(q)
    PROVE  /\ Waiting(q)
           /\ UNCHANGED <<style, gen, epoch, db, clock, files, obj, since>>
           /\ Delivered(rq[q]) \in Outs
           /\ \/ Return(q, Delivered(rq[q]))
              \/ \E r \in Request :
                   /\ rq' = [rq EXCEPT ![q] = r] /\ UNCHANGED pool /\ RequestOK(r)
                   /\ r.st = "ingest" /\ r.resp = CachedResponse(rq[q])
                   /\ r.out = Delivered(rq[q])
                   /\ r.key = rq[q].key /\ r.variant = rq[q].variant /\ r.e = rq[q].e
                   /\ r.hasCond = rq[q].hasCond
<1>1. Waiting(q) /\ rq[q].st \in Holding
  BY WaitingHolds DEF AnswerOK
<1>2. UNCHANGED <<style, gen, epoch, db, clock, files, obj, since>>
  BY DEF AnswerOK
<1>3. UpstreamType /\ rq[q] \in Request /\ rq[q].key \in Keys /\ rq[q].variant \in Variants /\ rq[q].e \in Entries
  BY <1>1, TypeParts, HeldTypes
<1>4. PICK cached : cached = CachedResponse(rq[q])
  OBVIOUS
<1>5. PICK o : o = Delivered(rq[q])
  OBVIOUS
<1>6. cached \in Response
  BY <1>3, <1>4, CachedResponseType
<1>7. o \in Outs
  <2>1. Current(rq[q]) \in Bodies /\ gen[rq[q].key] \in 0 .. MaxGen
    BY <1>3, CurrentType
  <2>2. "upstream" \in Origins /\ 200 \in Codes
    BY DEF Origins, Codes
  <2> QED
    BY <1>5, <2>1, <2>2, OutType DEF Delivered
<1> DEFINE r == [rq[q] EXCEPT !.st = "ingest", !.resp = cached, !.out = o]
<1>8. "ingest" \in Stages
  BY DEF Stages
<1>9. r \in Request
  BY <1>3, <1>6, <1>7, <1>8 DEF Request
<1>10. /\ r.st = "ingest" /\ r.resp = cached /\ r.out = o /\ r.hasCond = rq[q].hasCond
       /\ r.key = rq[q].key /\ r.variant = rq[q].variant /\ r.e = rq[q].e
  BY <1>3 DEF Request
<1>11. Return(q, o) \/ (rq' = [rq EXCEPT ![q] = r] /\ UNCHANGED pool)
  BY <1>4, <1>5 DEF AnswerOK
<1> HIDE DEF r
<1>12. RequestOK(r)
  BY <1>3, <1>6, <1>10 DEF RequestOK, Holding, Ingesting
<1> QED
  BY <1>1, <1>2, <1>4, <1>5, <1>7, <1>9, <1>10, <1>11, <1>12

LEMMA AnswerOKTypes ==
    ASSUME TypeInv, NEW q \in Requests, AnswerOK(q)
    PROVE  TypeInv'
<1>1. /\ rq[q].st \in Holding /\ Delivered(rq[q]) \in Outs
      /\ UNCHANGED <<style, gen, epoch, db, clock, files, obj, since>>
  BY AnswerOKEffect, WaitingHolds
<1>2. CASE Return(q, Delivered(rq[q]))
  BY <1>1, <1>2, ReturnOnlyTypes
<1>3. CASE \E r \in Request : /\ rq' = [rq EXCEPT ![q] = r] /\ UNCHANGED pool
                              /\ RequestOK(r) /\ r.e = rq[q].e
  <2>1. RequestType'
    BY <1>3, RequestMoves DEF TypeInv
  <2>2. StoreType' /\ clock \in Nat
    BY <1>1, StoreKept DEF TypeInv, StoreType
  <2>3. ObjType'
    BY <1>1, <2>2, ObjKept DEF TypeInv
  <2> QED
    BY <2>1, <2>2, <2>3 DEF TypeInv
<1> QED
  BY <1>2, <1>3, AnswerOKEffect

LEMMA IngestBypassTypes ==
    ASSUME TypeInv, NEW q \in Requests, IngestBypass(q)
    PROVE  TypeInv'
<1>1. rq[q] \in Request /\ rq[q].out \in Outs
  BY DEF TypeInv, RequestType, Request
<1>2. PICK n : n = Done(rq[q], rq[q].out)
  OBVIOUS
<1>3. n \in Request /\ RequestOK(n) /\ n.e = None
  BY <1>1, <1>2, DoneType
<1>4. /\ rq' = [rq EXCEPT ![q] = n]
      /\ UNCHANGED <<style, gen, epoch, db, clock, files, obj, pool, since>>
  BY <1>2 DEF IngestBypass
<1>5. RequestType'
  BY <1>3, <1>4, RequestMoves DEF TypeInv
<1>6. StoreType' /\ clock \in Nat
  BY <1>4, StoreKept DEF TypeInv, StoreType
<1>7. ObjType'
  BY <1>4, <1>6, ObjKept DEF TypeInv
<1> QED
  BY <1>5, <1>6, <1>7 DEF TypeInv

LEMMA IngestRenameEffect ==
    ASSUME TypeInv, NEW q \in Requests, IngestRename(q)
    PROVE  /\ rq[q].st = "ingest"
           /\ UNCHANGED <<style, gen, epoch, db, clock, obj, pool, since>>
           /\ rq[q].resp.body \in Bodies /\ files' = files \cup {rq[q].resp.body}
           /\ \E r \in Request :
                /\ rq' = [rq EXCEPT ![q] = r] /\ RequestOK(r) /\ r.st = "renamed"
                /\ r.key = rq[q].key /\ r.variant = rq[q].variant /\ r.e = rq[q].e
                /\ r.inm = rq[q].inm /\ r.ims = rq[q].ims
                /\ r.hasCond = rq[q].hasCond /\ r.resp = rq[q].resp /\ r.out = rq[q].out
<1> DEFINE r == [rq[q] EXCEPT !.st = "renamed"]
<1>1. rq[q] \in Request /\ RequestOK(rq[q]) /\ rq[q].st = "ingest"
  BY DEF TypeInv, RequestType, IngestRename
<1>2. rq[q].resp \in Response /\ rq[q].key \in Keys /\ rq[q].variant \in Variants /\ rq[q].e \in Entries
  BY <1>1 DEF RequestOK, Holding, Ingesting
<1>3. "renamed" \in Stages
  BY DEF Stages
<1>4. r \in Request
  BY <1>1, <1>3 DEF Request
<1>5. /\ r.st = "renamed"
      /\ r.key = rq[q].key /\ r.variant = rq[q].variant /\ r.e = rq[q].e
      /\ r.inm = rq[q].inm /\ r.ims = rq[q].ims
      /\ r.hasCond = rq[q].hasCond /\ r.resp = rq[q].resp /\ r.out = rq[q].out
  BY <1>1 DEF Request
<1>6. /\ rq' = [rq EXCEPT ![q] = r] /\ files' = files \cup {rq[q].resp.body}
      /\ UNCHANGED <<style, gen, epoch, db, clock, obj, pool, since>>
  BY DEF IngestRename
<1> HIDE DEF r
<1>7. RequestOK(r)
  BY <1>2, <1>5 DEF RequestOK, Holding, Ingesting
<1>8. rq[q].resp.body \in Bodies
  BY <1>2 DEF Response
<1> QED
  BY <1>1, <1>4, <1>5, <1>6, <1>7, <1>8

LEMMA IngestRenameTypes ==
    ASSUME TypeInv, NEW q \in Requests, IngestRename(q)
    PROVE  TypeInv'
<1>1. /\ UNCHANGED <<style, gen, epoch, db, clock, obj, pool, since>>
      /\ rq[q].resp.body \in Bodies /\ files' = files \cup {rq[q].resp.body}
  BY IngestRenameEffect
<1>2. PICK r \in Request : rq' = [rq EXCEPT ![q] = r] /\ RequestOK(r) /\ r.e = rq[q].e
  BY IngestRenameEffect
<1>3. RequestType'
  BY <1>1, <1>2, RequestMoves DEF TypeInv
<1>4. StoreType' /\ clock \in Nat
  BY <1>1 DEF TypeInv, StoreType, EntryOK
<1>5. ObjType'
  BY <1>1, <1>4, ObjKept DEF TypeInv
<1> QED
  BY <1>3, <1>4, <1>5 DEF TypeInv

\* What onIngest saves, and leaves in the entry.
LEMMA IngestSaveEffect ==
    ASSUME TypeInv, NEW q \in Requests, IngestSave(q)
    PROVE  /\ rq[q].st = "renamed" /\ rq[q].out \in Outs /\ Return(q, rq[q].out)
           /\ UNCHANGED <<style, gen, epoch, files, since>>
           /\ \E val \in Seq(Response) :
                /\ val # <<>> /\ Save(rq[q].key, obj[rq[q].e].ver, val)
                /\ \/ /\ obj[rq[q].e].ver = 0 /\ UNCHANGED obj
                      /\ DOMAIN val = {1} /\ val[1] = rq[q].resp
                   \/ /\ obj[rq[q].e].ver # 0
                      /\ val = WithResponse(obj[rq[q].e].val, rq[q].variant, rq[q].resp)
                      /\ obj' = [obj EXCEPT ![rq[q].e] = [val |-> val, ver |-> obj[rq[q].e].ver]]
<1> DEFINE e == rq[q].e
           resp == rq[q].resp
<1>1. rq[q].st = "renamed" /\ rq[q].st \in Holding /\ rq[q].st \in Ingesting
  BY DEF IngestSave, Holding, Ingesting
<1>2. e \in Entries /\ obj[e] \in Entry /\ obj[e].val \in Seq(Response) /\ rq[q] \in Request
  BY <1>1, HeldTypes
<1>3. resp \in Response
  BY <1>1 DEF TypeInv, RequestType, RequestOK
<1>4. rq[q].out \in Outs
  BY <1>2 DEF Request
<1>5. PICK val : val = IF obj[e].ver = 0 THEN <<resp>> ELSE WithResponse(obj[e].val, rq[q].variant, resp)
  OBVIOUS
<1>6. /\ obj' = IF obj[e].ver = 0 THEN obj ELSE [obj EXCEPT ![e].val = val]
      /\ Save(rq[q].key, obj[e].ver, val)
      /\ Return(q, rq[q].out)
      /\ UNCHANGED <<style, gen, epoch, files, since>>
  BY <1>5 DEF IngestSave
<1>7. CASE obj[e].ver = 0
  <2>1. val = <<resp>> /\ val \in Seq(Response) /\ DOMAIN val = {1} /\ val[1] = resp /\ val # <<>>
    BY <1>3, <1>5, <1>7
  <2> QED
    BY <1>1, <1>4, <1>6, <1>7, <2>1
<1>8. CASE obj[e].ver # 0
  <2>1. val = WithResponse(obj[e].val, rq[q].variant, resp)
    BY <1>5, <1>8
  <2>2. val \in Seq(Response) /\ val # <<>>
    BY <1>2, <1>3, <2>1, WithResponseShape
  <2>3. [obj[e] EXCEPT !.val = val] = [val |-> val, ver |-> obj[e].ver]
    BY <1>2 DEF Entry
  <2>4. obj' = [obj EXCEPT ![e] = [val |-> val, ver |-> obj[e].ver]]
    BY <1>6, <1>8, <2>3
  <2> QED
    BY <1>1, <1>4, <1>6, <1>8, <2>1, <2>2, <2>4
<1> QED
  BY <1>7, <1>8

LEMMA IngestSaveTypes ==
    ASSUME TypeInv, NEW q \in Requests, IngestSave(q)
    PROVE  TypeInv'
<1> DEFINE e == rq[q].e
<1>1. /\ rq[q].st \in Holding /\ rq[q].out \in Outs /\ Return(q, rq[q].out)
      /\ UNCHANGED <<style, gen, epoch, files, since>>
  BY IngestSaveEffect DEF Holding
<1>2. PICK val \in Seq(Response) :
        /\ val # <<>> /\ Save(rq[q].key, obj[e].ver, val)
        /\ \/ UNCHANGED obj
           \/ obj' = [obj EXCEPT ![e] = [val |-> val, ver |-> obj[e].ver]]
  BY IngestSaveEffect
<1>3. rq[q].key \in Keys /\ e \in Entries /\ obj[e] \in Entry /\ EntryOK(obj[e])
  BY <1>1, HeldTypes
<1>4. StoreType /\ ObjType /\ RequestType /\ clock \in Nat
  BY DEF TypeInv, StoreType
<1>5. /\ clock' \in Nat /\ clock <= clock'
      /\ db' \in [Keys -> Entry] /\ \A j \in Keys : EntryOK(db[j])'
  BY <1>2, <1>3, <1>4, SaveType
<1>6. StoreType'
  BY <1>1, <1>4, <1>5 DEF StoreType
<1>7. PICK ent : ent = [val |-> val, ver |-> obj[e].ver]
  OBVIOUS
<1>8. ent \in Entry /\ ent.ver <= clock /\ ent.val # <<>>
  BY <1>2, <1>3, <1>7 DEF Entry, EntryOK
<1>9. CASE UNCHANGED obj
  BY <1>1, <1>4, <1>5, <1>6, <1>9, ObjKept, ReturnType DEF TypeInv
<1>10. CASE obj' = [obj EXCEPT ![e] = ent]
  <2>1. ObjType'
    BY <1>3, <1>4, <1>5, <1>8, <1>10, ObjSet
  <2>2. RequestType'
    BY <1>1, ReturnType
  <2> QED
    BY <1>6, <2>1, <2>2 DEF TypeInv
<1> QED
  BY <1>2, <1>7, <1>9, <1>10

LEMMA NoEntryType == NoEntry \in Entry /\ NoEntry.ver = 0 /\ NoEntry.val = <<>>
BY EmptySeq DEF NoEntry, Entry

\* What the sweep leaves of an entry: nothing, or, in their order, the
\* responses whose bodies are there.
LEMMA SweepEffect ==
    ASSUME TypeInv, NEW k \in Keys, Sweep(k)
    PROVE  /\ db[k].ver # 0
           /\ UNCHANGED <<style, gen, epoch, files, obj, pool, rq, since>>
           /\ \/ db' = [db EXCEPT ![k] = NoEntry] /\ clock' = clock
              \/ \E val \in Seq(Response) :
                   /\ db' = [db EXCEPT ![k] = [val |-> val, ver |-> clock + 1]]
                   /\ clock' = clock + 1 /\ val # <<>>
                   /\ \E f \in [DOMAIN val -> DOMAIN db[k].val] :
                        /\ \A i \in DOMAIN val : val[i] = db[k].val[f[i]]
                        /\ \A i, j \in DOMAIN val : f[i] = f[j] => i = j
                        /\ \A i \in DOMAIN db[k].val :
                             db[k].val[i].body \in files => \E j \in DOMAIN val : f[j] = i
<1> DEFINE left == Present(k)
           n == Cardinality(left)
<1>1. db[k].val \in Seq(Response)
  BY DEF TypeInv, StoreType, Entry
<1>2. DOMAIN db[k].val = 1 .. Len(db[k].val) /\ Len(db[k].val) \in Nat
  BY <1>1, SeqDomain
<1>3. left \subseteq DOMAIN db[k].val
  BY DEF Present
<1>4. IsFiniteSet(DOMAIN db[k].val)
  <2>1. 1 \in Int /\ Len(db[k].val) \in Int
    BY <1>2
  <2>2. IsFiniteSet(1 .. Len(db[k].val))
    BY <2>1, FS_Interval
  <2> QED
    BY <1>2, <2>2
<1>5. IsFiniteSet(left)
  BY <1>3, <1>4, FS_Subset
<1>6. n \in Nat
  BY <1>5, FS_CardinalityType
<1> HIDE DEF n
<1>7. PICK f \in [1 .. n -> left] :
        /\ Lists(f, left)
        /\ db' = [db EXCEPT ![k] = IF left = {} THEN NoEntry
                                   ELSE [val |-> Picked(db[k].val, f), ver |-> clock + 1]]
  BY DEF Sweep, n
<1>8. /\ db[k].ver # 0 /\ clock' = IF left = {} THEN clock ELSE clock + 1
      /\ UNCHANGED <<style, gen, epoch, files, obj, pool, rq, since>>
  BY DEF Sweep
<1> HIDE DEF left
<1>9. CASE left = {}
  BY <1>7, <1>8, <1>9
<1>10. CASE left # {}
  <2>1. PICK val : val = Picked(db[k].val, f)
    OBVIOUS
  <2>2. /\ val = [i \in 1 .. n |-> db[k].val[f[i]]]
        /\ DOMAIN val = 1 .. n
    BY <2>1 DEF Picked
  <2>3. \A i \in 1 .. n : f[i] \in DOMAIN db[k].val /\ val[i] = db[k].val[f[i]]
    BY <1>3, <2>2
  <2>4. \A i \in 1 .. n : val[i] \in Response
    BY <1>1, <2>3, ResponseAt
  <2>5. val \in [1 .. n -> Response]
    BY <2>2, <2>4
  <2>6. val \in Seq(Response)
    BY <1>6, <2>5, SeqDef
  <2>7. \A i \in left : \E j \in 1 .. n : f[j] = i
    BY <1>7 DEF Lists, Range
  <2>8. val # <<>>
    BY <1>10, <2>2, <2>6, <2>7, SeqDomain
  <2>9. \A i, j \in 1 .. n : f[i] = f[j] => i = j
    <3>1. \A i \in 1 .. n : f[i] \in Nat
      BY <1>2, <2>3
    <3>2. \A i, j \in 1 .. n : i < j => f[i] < f[j]
      BY <1>7 DEF Lists
    <3> QED
      BY <1>6, <3>1, <3>2
  <2>10. f \in [DOMAIN val -> DOMAIN db[k].val]
    BY <1>3, <2>2
  <2>11. \A i \in DOMAIN db[k].val : db[k].val[i].body \in files => \E j \in DOMAIN val : f[j] = i
    BY <2>2, <2>7 DEF Present, left
  <2>12. db' = [db EXCEPT ![k] = [val |-> val, ver |-> clock + 1]] /\ clock' = clock + 1
    BY <1>7, <1>8, <1>10, <2>1
  <2>13. \E h \in [DOMAIN val -> DOMAIN db[k].val] :
           /\ \A i \in DOMAIN val : val[i] = db[k].val[h[i]]
           /\ \A i, j \in DOMAIN val : h[i] = h[j] => i = j
           /\ \A i \in DOMAIN db[k].val :
                db[k].val[i].body \in files => \E j \in DOMAIN val : h[j] = i
    <3> WITNESS f \in [DOMAIN val -> DOMAIN db[k].val]
    <3> QED
      BY <2>2, <2>3, <2>9, <2>11
  <2> QED
    BY <1>8, <2>6, <2>8, <2>12, <2>13
<1> QED
  BY <1>9, <1>10

LEMMA DbSetTypes ==
    ASSUME TypeInv, NEW k \in Keys, NEW ent \in Entry, ent.ver # 0 => ent.val # <<>>,
           clock' \in Nat, clock <= clock', ent.ver <= clock',
           db' = [db EXCEPT ![k] = ent],
           UNCHANGED <<style, gen, epoch, files, obj, pool, rq, since>>
    PROVE  TypeInv'
<1>1. StoreType /\ ObjType /\ RequestType /\ clock \in Nat
  BY DEF TypeInv, StoreType
<1>2. \A j \in Keys : db'[j] = IF j = k THEN ent ELSE db[j]
  BY <1>1 DEF StoreType
<1>3. \A j \in Keys : db[j].ver \in Nat /\ EntryOK(db[j])
  BY <1>1 DEF StoreType, Entry
<1>4. \A j \in Keys : EntryOK(db[j])'
  BY <1>1, <1>2, <1>3 DEF EntryOK
<1>5. StoreType'
  BY <1>1, <1>4 DEF StoreType
<1>6. ObjType'
  BY <1>1, ObjKept
<1>7. RequestType'
  BY <1>1 DEF RequestType
<1> QED
  BY <1>5, <1>6, <1>7 DEF TypeInv

LEMMA EnvironmentTypes ==
    ASSUME TypeInv, Environment
    PROVE  TypeInv'
<1>1. clock \in Nat /\ StoreType /\ ObjType /\ RequestType
  BY DEF TypeInv, StoreType
<1>2. ASSUME NEW k \in Keys, Publish(k) PROVE TypeInv'
  <2>1. gen[k] + 1 \in 0 .. MaxGen /\ gen' = [gen EXCEPT ![k] = gen[k] + 1]
    BY <1>1, <1>2, Constants DEF Publish, StoreType
  <2>2. gen' \in [Keys -> 0 .. MaxGen]
    BY <1>1, <2>1 DEF StoreType
  <2>3. StoreType'
    BY <1>1, <1>2, <2>2 DEF StoreType, Publish, EntryOK
  <2> QED
    BY <1>1, <1>2, <2>3 DEF TypeInv, Publish, ObjType, RequestType, EntryOK
<1>3. ASSUME NEW k \in Keys, Sweep(k) PROVE TypeInv'
  <2>1. UNCHANGED <<style, gen, epoch, files, obj, pool, rq, since>>
    BY <1>3, SweepEffect
  <2>2. CASE db' = [db EXCEPT ![k] = NoEntry] /\ clock' = clock
    <3>1. clock' \in Nat /\ clock <= clock' /\ NoEntry.ver <= clock'
      BY <1>1, <2>2, NoEntryType
    <3> QED
      BY <2>1, <2>2, <3>1, NoEntryType, DbSetTypes
  <2>3. CASE \E val \in Seq(Response) :
               /\ db' = [db EXCEPT ![k] = [val |-> val, ver |-> clock + 1]]
               /\ clock' = clock + 1 /\ val # <<>>
    <3>1. PICK val \in Seq(Response) :
             /\ db' = [db EXCEPT ![k] = [val |-> val, ver |-> clock + 1]]
             /\ clock' = clock + 1 /\ val # <<>>
      BY <2>3
    <3>2. PICK ent : ent = [val |-> val, ver |-> clock + 1]
      OBVIOUS
    <3>3. ent \in Entry /\ ent.val # <<>> /\ ent.ver = clock + 1
      BY <1>1, <3>1, <3>2 DEF Entry
    <3>4. clock' \in Nat /\ clock <= clock' /\ ent.ver <= clock'
      BY <1>1, <3>1, <3>3
    <3> QED
      BY <2>1, <3>1, <3>2, <3>3, <3>4, DbSetTypes
  <2> QED
    BY <1>3, <2>2, <2>3, SweepEffect
<1>4. ASSUME NEW k \in Keys, RemoveKey(k) PROVE TypeInv'
  <2>1. /\ db' = [db EXCEPT ![k] = NoEntry] /\ clock' = clock
        /\ UNCHANGED <<style, gen, epoch, files, obj, pool, rq, since>>
    BY <1>4 DEF RemoveKey
  <2>2. clock' \in Nat /\ clock <= clock' /\ NoEntry.ver <= clock'
    BY <1>1, <2>1, NoEntryType
  <2> QED
    BY <2>1, <2>2, NoEntryType, DbSetTypes
<1>5. CASE Tick
  <2>1. epoch' \in 0 .. MaxEpoch /\ since' \in [Keys -> 0 .. MaxGen]
    BY <1>1, <1>5, Constants DEF Tick, StoreType
  <2>2. StoreType'
    BY <1>1, <1>5, <2>1 DEF StoreType, Tick, EntryOK
  <2> QED
    BY <1>1, <1>5, <2>2 DEF TypeInv, Tick, ObjType, RequestType, EntryOK
<1>6. ASSUME NEW b \in files, Evict(b) PROVE TypeInv'
  <2>1. StoreType'
    BY <1>1, <1>6 DEF StoreType, Evict, EntryOK
  <2> QED
    BY <1>1, <1>6, <2>1 DEF TypeInv, Evict, ObjType, RequestType, EntryOK
<1>7. CASE Restart
  <2>1. StoreType'
    BY <1>1, <1>7, StoreKept DEF Restart
  <2>2. ObjType'
    BY <1>1, <1>7, NoEntryType DEF Restart, ObjType, EntryOK
  <2>3. RequestType'
    BY <1>7, NewRequestType, Constants DEF Restart, RequestType
  <2> QED
    BY <2>1, <2>2, <2>3 DEF TypeInv
<1> QED
  BY <1>2, <1>3, <1>4, <1>5, <1>6, <1>7 DEF Environment

LEMMA OverTypes ==
    ASSUME TypeInv, NEW q \in Requests, Over(q)
    PROVE  TypeInv'
<1>1. StoreType' /\ clock \in Nat /\ clock' = clock
  BY StoreKept DEF TypeInv, Over, StoreType
<1>2. ObjType'
  BY <1>1, ObjKept DEF TypeInv, Over
<1>3. RequestType'
  BY NewRequestType, RequestMoves DEF Over, TypeInv
<1> QED
  BY <1>1, <1>2, <1>3 DEF TypeInv

LEMMA TypeStep ==
    ASSUME TypeInv, [Next]_vars
    PROVE  TypeInv'
<1>1. ASSUME NEW q \in Requests, Answer(q) PROVE TypeInv'
  <2>1. CASE NextHop(q)
    BY <2>1, NextHopTypes
  <2>2. CASE AnswerFailure(q) \/ AnswerTooMany(q) \/ AnswerOther(q)
    BY <2>2, FailureReturns, ReturnOnlyTypes
  <2>3. CASE AnswerNotModified(q)
    BY <2>3, NotModifiedTypes
  <2>4. CASE AnswerOK(q)
    BY <2>4, AnswerOKTypes
  <2> QED
    BY <1>1, <2>1, <2>2, <2>3, <2>4 DEF Answer
<1>2. ASSUME NEW q \in Requests, Ingest(q) PROVE TypeInv'
  <2>1. CASE IngestAbandon(q)
    <3>1. /\ rq[q].st \in Holding /\ rq[q] \in Request /\ Return(q, rq[q].out)
          /\ UNCHANGED <<style, gen, epoch, db, clock, files, obj, since>>
      BY <2>1 DEF IngestAbandon, Holding, TypeInv, RequestType
    <3>2. rq[q].out \in Outs
      BY <3>1 DEF Request
    <3> QED
      BY <3>1, <3>2, ReturnOnlyTypes
  <2>2. CASE IngestBypass(q)
    BY <2>2, IngestBypassTypes
  <2>3. CASE IngestRename(q)
    BY <2>3, IngestRenameTypes
  <2>4. CASE IngestSave(q)
    BY <2>4, IngestSaveTypes
  <2> QED
    BY <1>2, <2>1, <2>2, <2>3, <2>4 DEF Ingest
<1>3. ASSUME UNCHANGED vars PROVE TypeInv'
  BY <1>3 DEF vars, TypeInv, StoreType, ObjType, RequestType, EntryOK
<1> QED
  BY <1>1, <1>2, <1>3, DoTypes, OverTypes, EnvironmentTypes DEF Next

-----------------------------------------------------------------------------
(* Initially.                                                              *)

\* What an earlier run left: nothing, or responses for each of some variants.
LEMMA InitStore ==
    ASSUME Init
    PROVE  /\ UpstreamType /\ StoreType /\ epoch = 0 /\ since = gen /\ \A k \in Keys : gen[k] = 0
           /\ \A k \in Keys :
                \/ db[k] = NoEntry
                \/ \E left \in Seq(Variants) :
                     /\ DOMAIN db[k].val = DOMAIN left
                     /\ \A i \in DOMAIN left :
                          db[k].val[i] = CachedResponse([key |-> k, variant |-> left[i]])
                     /\ \A j \in DOMAIN left : \A i \in 1 .. j - 1 :
                          ~MatchVaryHeaders(Header(left[j]), db[k].val[i].vary)
                     /\ db[k].ver # 0
<1>1. /\ style \in [Keys -> Styles] /\ gen = [k \in Keys |-> 0] /\ epoch = 0 /\ since = gen
  BY DEF Init
<1>2. UpstreamType /\ since \in [Keys -> 0 .. MaxGen]
  BY <1>1, Constants DEF UpstreamType
<1> DEFINE Kept(left, k) == [i \in DOMAIN left |-> CachedResponse([key |-> k, variant |-> left[i]])]
<1>3. PICK left \in Before :
         /\ \A k \in Keys : left # <<>> => style[k].cacheable /\ Successive(Kept(left, k), left)
         /\ db = [k \in Keys |-> IF left = <<>> THEN NoEntry ELSE [val |-> Kept(left, k), ver |-> 1]]
         /\ clock = IF left = <<>> THEN 0 ELSE 1
         /\ files = UNION {{Kept(left, k)[i].body : i \in DOMAIN left} : k \in Keys}
  BY DEF Init
<1>4. left \in Seq(Variants)
  BY ClientAssumption
<1>5. DOMAIN left = 1 .. Len(left) /\ Len(left) \in Nat /\ \A i \in DOMAIN left : left[i] \in Variants
  BY <1>4, SeqDomain
<1>6. ASSUME NEW k \in Keys, NEW i \in DOMAIN left
      PROVE  CachedResponse([key |-> k, variant |-> left[i]]) \in Response
  <2>1. PICK r : r = [key |-> k, variant |-> left[i]]
    OBVIOUS
  <2>2. r.key \in Keys /\ r.variant \in Variants
    BY <1>5, <2>1
  <2> QED
    BY <1>2, <2>1, <2>2, CachedResponseType
<1>7. ASSUME NEW k \in Keys PROVE Kept(left, k) \in Seq(Response)
  <2>1. Kept(left, k) \in [1 .. Len(left) -> Response]
    BY <1>5, <1>6
  <2> QED
    BY <1>5, <2>1, SeqDef
<1>8. \A k \in Keys : DOMAIN Kept(left, k) = DOMAIN left
  OBVIOUS
<1>9. left # <<>> => \A k \in Keys : Kept(left, k) # <<>>
  BY <1>4, <1>7, <1>8, SeqDomain
<1>10. files \subseteq Bodies
  <2>1. \A k \in Keys : \A i \in DOMAIN left : Kept(left, k)[i].body \in Bodies
    BY <1>7, <1>8, ResponseAt
  <2> HIDE DEF Kept
  <2> QED
    BY <1>3, <2>1
<1>11. \A k \in Keys : \A i \in DOMAIN left :
          Kept(left, k)[i] = CachedResponse([key |-> k, variant |-> left[i]])
  OBVIOUS
<1>12. \A k \in Keys : left # <<>> => \A j \in DOMAIN left : \A i \in 1 .. j - 1 :
          ~MatchVaryHeaders(Header(left[j]), Kept(left, k)[i].vary)
  BY <1>3 DEF Successive
<1> HIDE DEF Kept
<1>13. ASSUME NEW k \in Keys
       PROVE  db[k] \in Entry /\ EntryOK(db[k])
  <2>1. CASE left = <<>>
    BY <1>3, <2>1, NoEntryType DEF EntryOK
  <2>2. CASE left # <<>>
    BY <1>3, <1>7, <1>9, <2>2 DEF Entry, EntryOK
  <2> QED
    BY <2>1, <2>2
<1>14. db \in [Keys -> Entry] /\ clock \in Nat
  BY <1>3, <1>13
<1>15. StoreType
  BY <1>1, <1>2, <1>10, <1>13, <1>14 DEF StoreType, UpstreamType
<1>16. ASSUME NEW k \in Keys, left # <<>>
       PROVE  /\ DOMAIN db[k].val = DOMAIN left
              /\ \A i \in DOMAIN left :
                   db[k].val[i] = CachedResponse([key |-> k, variant |-> left[i]])
              /\ \A j \in DOMAIN left : \A i \in 1 .. j - 1 :
                   ~MatchVaryHeaders(Header(left[j]), db[k].val[i].vary)
              /\ db[k].ver # 0
  <2>1. db[k].val = Kept(left, k) /\ db[k].ver = 1
    BY <1>3, <1>16
  <2> QED
    BY <1>8, <1>11, <1>12, <1>16, <2>1
<1>17. \A k \in Keys : left = <<>> => db[k] = NoEntry
  BY <1>3
<1> QED
  BY <1>1, <1>2, <1>4, <1>15, <1>16, <1>17

LEMMA InitTypes == Init => TypeInv
<1> SUFFICES ASSUME Init PROVE TypeInv
  OBVIOUS
<1>1. StoreType /\ clock \in Nat
  BY InitStore DEF StoreType
<1>2. ObjType
  BY <1>1, NoEntryType DEF Init, ObjType, EntryOK
<1>3. RequestType
  BY NewRequestType, Constants DEF Init, RequestType
<1> QED
  BY <1>1, <1>2, <1>3 DEF TypeInv

LEMMA TypesHold == Spec => []TypeInv
BY InitTypes, TypeStep, PTL DEF Spec

(***************************************************************************)
(* The type invariant of Client, whatever is asked, fails or is evicted.   *)
(***************************************************************************)
THEOREM TypeCorrect == Spec => []TypeOK
BY TypesHold, TypeParts, PTL

(***************************************************************************)
(* The pool hands an entry to one request at a time, for any number of     *)
(* requests and entries, although entries are returned at five places:     *)
(* PoolExclusive (releaseDBEntry, client.go 218-223, and onCleanup).       *)
(***************************************************************************)
THEOREM EntriesAreExclusive == Spec => []PoolExclusive
BY TypesHold, TypeParts, PTL

-----------------------------------------------------------------------------
(* A step of one request leaves the others and their entries alone.        *)

OwnEntryOnly(q) ==
    \/ UNCHANGED obj
    \/ \E e \in Entries, ent \in Entry :
         obj' = [obj EXCEPT ![e] = ent] /\ (e = rq[q].e \/ e \in pool)

LEMMA OthersKeep ==
    ASSUME TypeInv, NEW q \in Requests, OwnEntryOnly(q), NEW p \in Requests, p # q,
           rq[p].e # None
    PROVE  obj'[rq[p].e] = obj[rq[p].e]
<1>1. rq[p].e \notin pool /\ rq[p].e # rq[q].e
  BY DEF TypeInv, RequestType
<1>2. rq[p].e \in Entries
  BY DEF TypeInv, RequestType, RequestOK
<1>3. CASE UNCHANGED obj
  BY <1>3
<1>4. ASSUME NEW e \in Entries, NEW ent \in Entry, obj' = [obj EXCEPT ![e] = ent],
             e = rq[q].e \/ e \in pool
      PROVE  obj'[rq[p].e] = obj[rq[p].e]
  BY <1>1, <1>2, <1>4 DEF TypeInv, ObjType
<1> QED
  BY <1>3, <1>4 DEF OwnEntryOnly

\* What a request finds and becomes when Do has looked for its key.
DoBecomes(q, r, n) ==
    \/ /\ db[r.key].ver # 0 /\ obj'[r.e] = db[r.key]
       /\ \/ \E i \in DOMAIN db[r.key].val :
               /\ MatchVaryHeaders(Header(r.variant), db[r.key].val[i].vary)
               /\ Usable(db[r.key].val[i], FALSE)
               /\ n = Done(r, Out("fresh", 200, db[r.key].val[i].body, gen[r.key]))
               /\ Out("fresh", 200, db[r.key].val[i].body, gen[r.key]) \in Outs
          \/ n = addConditionalRequestInformation(r, db[r.key].val)
    \/ db[r.key].ver = 0 /\ obj'[r.e].ver = 0 /\ n = r
    \/ /\ GetMayFail /\ obj'[r.e] = obj[r.e]
       /\ n = r \/ n = addConditionalRequestInformation(r, obj[r.e].val)

LEMMA DoEffect ==
    ASSUME TypeInv, NEW q \in Requests, Do(q)
    PROVE  /\ OwnEntryOnly(q) /\ rq[q].st = "new"
           /\ UNCHANGED <<style, gen, epoch, db, clock, files, since>>
           /\ \E k \in Keys, v \in Variants, e \in Entries : \E own \in OwnValidators(k, v) :
                \E n : rq' = [rq EXCEPT ![q] = n] /\ DoBecomes(q, Start(k, v, own, e), n)
<1>1. PICK k \in Keys, v \in Variants, e \in pool : \E own \in OwnValidators(k, v) :
        LET r == Start(k, v, own, e) IN DoFound(q, r) \/ DoMissing(q, r) \/ DoGetError(q, r)
  BY DEF Do
<1>2. PICK own \in OwnValidators(k, v) :
        LET r == Start(k, v, own, e) IN DoFound(q, r) \/ DoMissing(q, r) \/ DoGetError(q, r)
  BY <1>1
<1>3. PICK r : r = Start(k, v, own, e)
  OBVIOUS
<1>4. DoFound(q, r) \/ DoMissing(q, r) \/ DoGetError(q, r)
  BY <1>2, <1>3
<1>5. UpstreamType /\ e \in Entries /\ e \in pool
  BY TypeParts DEF TypeInv, RequestType
<1>6. r \in Request /\ r.key = k /\ r.e = e /\ r.variant = v
  BY <1>3, <1>5, StartType
<1>7. UNCHANGED <<style, gen, epoch, db, clock, files, since>> /\ rq[q].st = "new"
  BY DEF Do
<1>8. /\ db[k] \in Entry /\ db[k].val \in Seq(Response) /\ gen[k] \in 0 .. MaxGen
      /\ obj[e] \in Entry /\ obj \in [Entries -> Entry]
  BY <1>5 DEF TypeInv, StoreType, ObjType, Entry
<1>9. ASSUME NEW n, rq' = [rq EXCEPT ![q] = n], DoBecomes(q, r, n), OwnEntryOnly(q)
      PROVE  /\ OwnEntryOnly(q) /\ rq[q].st = "new"
             /\ UNCHANGED <<style, gen, epoch, db, clock, files, since>>
             /\ \E kk \in Keys, vv \in Variants, ee \in Entries : \E o \in OwnValidators(kk, vv) :
                  \E m : rq' = [rq EXCEPT ![q] = m] /\ DoBecomes(q, Start(kk, vv, o, ee), m)
  BY <1>3, <1>5, <1>7, <1>9
<1>10. CASE DoFound(q, r)
  <2>1. obj' = [obj EXCEPT ![e] = db[k]] /\ db[r.key].ver # 0
    BY <1>6, <1>10 DEF DoFound
  <2>2. obj'[r.e] = db[r.key]
    BY <1>5, <1>6, <1>8, <2>1
  <2>3. OwnEntryOnly(q)
    BY <1>5, <1>8, <2>1 DEF OwnEntryOnly
  <2>4. PICK i : i = serveFromCache(r.variant, db[k].val, FALSE)
    OBVIOUS
  <2>5. CASE i # 0
    <3>1. /\ i \in DOMAIN db[k].val
          /\ MatchVaryHeaders(Header(r.variant), db[k].val[i].vary)
          /\ Usable(db[k].val[i], FALSE)
      BY <1>8, <2>4, <2>5, ServeFromCacheIndex
    <3>2. PICK n : n = Done(r, Out("fresh", 200, db[k].val[i].body, gen[k]))
      OBVIOUS
    <3>3. rq' = [rq EXCEPT ![q] = n]
      BY <1>6, <1>10, <2>4, <2>5, <3>2 DEF DoFound
    <3>4. db[k].val[i].body \in Bodies /\ "fresh" \in Origins /\ 200 \in Codes
      BY <1>8, <3>1, ResponseAt DEF Origins, Codes
    <3>5. Out("fresh", 200, db[k].val[i].body, gen[k]) \in Outs
      BY <1>8, <3>4, OutType
    <3>6. DoBecomes(q, r, n)
      BY <1>6, <2>1, <2>2, <3>1, <3>2, <3>5 DEF DoBecomes
    <3> QED
      BY <1>9, <2>3, <3>3, <3>6
  <2>6. CASE i = 0
    <3>1. PICK n : n = addConditionalRequestInformation(r, db[k].val)
      OBVIOUS
    <3>2. rq' = [rq EXCEPT ![q] = n]
      BY <1>6, <1>10, <2>4, <2>6, <3>1 DEF DoFound
    <3>3. DoBecomes(q, r, n)
      BY <1>6, <2>1, <2>2, <3>1 DEF DoBecomes
    <3> QED
      BY <1>9, <2>3, <3>2, <3>3
  <2> QED
    BY <2>5, <2>6
<1>11. CASE DoMissing(q, r)
  <2>1. PICK ent : ent = [obj[e] EXCEPT !.ver = 0]
    OBVIOUS
  <2>2. ent \in Entry /\ ent.ver = 0
    BY <1>8, <2>1 DEF Entry
  <2>3. obj' = [obj EXCEPT ![e] = ent] /\ db[r.key].ver = 0 /\ rq' = [rq EXCEPT ![q] = r]
    BY <1>6, <1>11, <2>1 DEF DoMissing
  <2>4. OwnEntryOnly(q)
    BY <1>5, <2>2, <2>3 DEF OwnEntryOnly
  <2>5. obj'[r.e].ver = 0
    BY <1>5, <1>6, <1>8, <2>2, <2>3
  <2>6. DoBecomes(q, r, r)
    BY <2>3, <2>5 DEF DoBecomes
  <2> QED
    BY <1>9, <2>3, <2>4, <2>6
<1>12. CASE DoGetError(q, r)
  <2>1. GetMayFail /\ UNCHANGED obj
    BY <1>12 DEF DoGetError
  <2>2. PICK n : n = IF obj[e].ver = 0 THEN r ELSE addConditionalRequestInformation(r, obj[e].val)
    OBVIOUS
  <2>3. rq' = [rq EXCEPT ![q] = n]
    BY <1>6, <1>12, <2>2 DEF DoGetError
  <2>4. DoBecomes(q, r, n)
    BY <1>6, <2>1, <2>2 DEF DoBecomes
  <2> QED
    BY <1>9, <2>1, <2>3, <2>4 DEF OwnEntryOnly
<1> QED
  BY <1>4, <1>10, <1>11, <1>12

LEMMA ReturnIsDone ==
    ASSUME NEW q, NEW o, Return(q, o)
    PROVE  rq' = [rq EXCEPT ![q] = Done(rq[q], o)]
BY DEF Return

LEMMA ReturnEffect ==
    ASSUME TypeInv, NEW q \in Requests, NEW o \in Outs, rq' = [rq EXCEPT ![q] = Done(rq[q], o)]
    PROVE  \E n \in Request :
             /\ rq' = [rq EXCEPT ![q] = n] /\ n.st = "done" /\ n.e = None
             /\ n.key = rq[q].key /\ n.variant = rq[q].variant
             /\ n.inm = rq[q].inm /\ n.ims = rq[q].ims /\ n.out = o
<1>1. rq[q] \in Request
  BY DEF TypeInv, RequestType
<1>2. PICK n : n = Done(rq[q], o)
  OBVIOUS
<1>3. /\ n \in Request /\ n.st = "done" /\ n.e = None
      /\ n.key = rq[q].key /\ n.variant = rq[q].variant
      /\ n.inm = rq[q].inm /\ n.ims = rq[q].ims /\ n.out = o
  BY <1>1, <1>2, DoneType
<1>4. rq' = [rq EXCEPT ![q] = n]
  BY <1>2
<1> QED
  BY <1>3, <1>4

\* The same of an action that returns o.
LEMMA ReturnMakes ==
    ASSUME TypeInv, NEW q \in Requests, NEW o \in Outs, Return(q, o)
    PROVE  \E n \in Request :
             /\ rq' = [rq EXCEPT ![q] = n] /\ n.st = "done" /\ n.e = None
             /\ n.key = rq[q].key /\ n.variant = rq[q].variant
             /\ n.inm = rq[q].inm /\ n.ims = rq[q].ims /\ n.out = o
<1>1. rq' = [rq EXCEPT ![q] = Done(rq[q], o)]
  BY ReturnIsDone
<1> QED
  BY <1>1, ReturnEffect

LEMMA NextHopEffect ==
    ASSUME TypeInv, NEW q \in Requests, NextHop(q)
    PROVE  /\ UNCHANGED <<style, gen, epoch, db, clock, files, obj, pool, since>>
           /\ rq[q].st \in {"sent", "resent"}
           /\ \E n \in Request :
                /\ rq' = [rq EXCEPT ![q] = n] /\ n.st = rq[q].st /\ n.e = rq[q].e
                /\ n.key = rq[q].key /\ n.variant = rq[q].variant /\ n.hasCond = rq[q].hasCond
                /\ n.inm = rq[q].inm /\ n.ims = rq[q].ims /\ n.out = rq[q].out
                /\ n.sentInm = rq[q].sentInm /\ n.sentIms = rq[q].sentIms
<1> DEFINE n == [rq[q] EXCEPT !.hops = rq[q].hops - 1]
<1>1. /\ rq[q] \in Request /\ rq[q].hops > 0 /\ rq[q].st \in {"sent", "resent"}
      /\ UNCHANGED <<style, gen, epoch, db, clock, files, obj, pool, since>>
  BY DEF TypeInv, RequestType, NextHop, Waiting
<1>2. rq[q].hops - 1 \in 0 .. Hops
  BY <1>1, Constants DEF Request
<1>3. n \in Request
  BY <1>1, <1>2 DEF Request
<1>4. rq' = [rq EXCEPT ![q] = n]
  BY DEF NextHop
<1>5. /\ n.st = rq[q].st /\ n.e = rq[q].e
      /\ n.key = rq[q].key /\ n.variant = rq[q].variant /\ n.hasCond = rq[q].hasCond
      /\ n.inm = rq[q].inm /\ n.ims = rq[q].ims /\ n.out = rq[q].out
      /\ n.sentInm = rq[q].sentInm /\ n.sentIms = rq[q].sentIms
  BY <1>1 DEF Request
<1> HIDE DEF n
<1> QED
  BY <1>1, <1>3, <1>4, <1>5

-----------------------------------------------------------------------------
(* What the client is told about its own validators.                       *)

\* The heart of it: a 304 that no stored response accounts for is an answer to
\* the validators of the client.
LEMMA PassedOnRightly ==
    ASSUME TypeInv, NEW q \in Requests, Waiting(q), NotModified(rq[q]),
           SentOK(rq[q], obj[rq[q].e]),
           style[rq[q].key].etag => style[rq[q].key].etag304,
           NEW i, i = updateCache(obj[rq[q].e].val, Etag304(rq[q]), Lm304(rq[q])),
           \/ i = 0 /\ wasOriginalRequestConditional(rq[q])
           \/ rq[q].st # "sent" \/ ~rq[q].hasCond
    PROVE  Validates(rq[q].key, Current(rq[q]), rq[q].inm, rq[q].ims)
<1> DEFINE r == rq[q]
           val == obj[r.e].val
           b == Current(r)
<1>1. r.st \in Holding /\ r.st \in {"sent", "resent"}
  BY WaitingHolds DEF Waiting
<1>2. val \in Seq(Response)
  BY <1>1, HeldTypes
<1>3. UpstreamType /\ r.key \in Keys /\ r.variant \in Variants
  BY <1>1, TypeParts, HeldTypes
<1>4. Etag(b) \in Etags /\ Etag(b) # None
  BY <1>3, CurrentType, Constants
<1>5. Validates(r.key, b, r.sentInm, r.sentIms)
  BY DEF NotModified
<1>6. CASE r.st # "sent" \/ ~r.hasCond
  <2>1. r.sentInm = r.inm /\ r.sentIms = r.ims
    BY <1>1, <1>6 DEF SentOK
  <2> QED
    BY <1>5, <2>1
<1>7. CASE r.st = "sent" /\ r.hasCond /\ i = 0 /\ wasOriginalRequestConditional(r)
  <2>1. r.sentInm = r.inm \cup EtagsOf(val) /\ (r.ims # None => r.sentIms = r.ims)
    BY <1>7 DEF SentOK
  <2>2. CASE r.sentInm # {}
    <3>1. style[r.key].etag /\ Etag(b) \in r.sentInm
      BY <1>5, <2>2 DEF Validates
    <3>2. Etag304(r) = Etag(b)
      BY <3>1 DEF Etag304
    <3>3. ~\E j \in DOMAIN val : EtagsMatch(Etag(b), val[j].etag)
      <4>1. i = updateCache(val, Etag(b), Lm304(r))
        BY <3>2
      <4> HIDE DEF val, b
      <4> QED
        BY <1>2, <1>4, <1>7, <4>1, UpdateCacheIndex
    <3>4. Etag(b) \notin EtagsOf(val)
      BY <3>3 DEF EtagsOf, EtagsMatch
    <3>5. Etag(b) \in r.inm
      BY <2>1, <3>1, <3>4
    <3> QED
      BY <3>1, <3>5 DEF Validates
  <2>3. CASE r.sentInm = {}
    <3>1. r.inm = {} /\ r.ims # None /\ r.sentIms = r.ims
      BY <1>7, <2>1, <2>3 DEF wasOriginalRequestConditional
    <3> QED
      BY <1>5, <2>3, <3>1
  <2> QED
    BY <2>2, <2>3
<1> QED
  BY <1>6, <1>7

LEMMA ToldStays ==
    ASSUME NEW r, UNCHANGED style
    PROVE  ToldRightly(r)' <=> ToldRightly(r)
BY DEF ToldRightly, Validates, Body, VariantOf, Etag

\* One request moves on, to n.
LEMMA ValidatorsMove ==
    ASSUME TypeInv, ValidatorInv, NEW q \in Requests, NEW n,
           rq' = [rq EXCEPT ![q] = n], OwnEntryOnly(q), UNCHANGED style,
           SentOK(n, obj'[n.e]), ToldRightly(n)
    PROVE  ValidatorInv'
<1>1. \A p \in Requests : rq'[p] = IF p = q THEN n ELSE rq[p]
  BY DEF TypeInv, RequestType
<1>2. ASSUME NEW p \in Requests
      PROVE  SentOK(rq'[p], obj'[rq'[p].e]) /\ ToldRightly(rq'[p])
  <2>1. CASE p = q
    BY <1>1, <2>1
  <2>2. CASE p # q
    <3>1. rq'[p] = rq[p] /\ SentOK(rq[p], obj[rq[p].e]) /\ ToldRightly(rq[p])
      BY <1>1, <2>2 DEF ValidatorInv
    <3>2. CASE rq[p].e # None
      BY <2>2, <3>1, <3>2, OthersKeep
    <3>3. CASE rq[p].e = None
      <4>1. rq[p].st \notin {"sent", "resent"}
        BY <3>3, Constants DEF TypeInv, RequestType, RequestOK, Holding
      <4> QED
        BY <3>1, <4>1 DEF SentOK
    <3> QED
      BY <3>2, <3>3
  <2> QED
    BY <2>1, <2>2
<1>3. ASSUME NEW p \in Requests PROVE ToldRightly(rq[p])'
  <2>1. PICK r : r = rq'[p]
    OBVIOUS
  <2>2. ToldRightly(r)'
    BY <1>2, <2>1, ToldStays
  <2> QED
    BY <2>1, <2>2 DEF ToldRightly, Validates, Body, VariantOf, Etag
<1> QED
  BY <1>2, <1>3 DEF ValidatorInv, SentOK

LEMMA DoneTold ==
    ASSUME NEW n, n.st = "done", n.out.status # 304, NEW ent
    PROVE  SentOK(n, ent) /\ ToldRightly(n)
BY DEF SentOK, ToldRightly

LEMMA OutFields ==
    ASSUME NEW src, NEW status, NEW body, NEW g, NEW o, o = Out(src, status, body, g)
    PROVE  o.src = src /\ o.status = status /\ o.body = body /\ o.gen = g
BY DEF Out

LEMMA DoValidators ==
    ASSUME TypeInv, ValidatorInv, NEW q \in Requests, Do(q)
    PROVE  ValidatorInv'
<1>1. OwnEntryOnly(q) /\ UNCHANGED style
  BY DoEffect
<1>2. PICK k \in Keys, v \in Variants, e \in Entries : \E own \in OwnValidators(k, v) :
        \E n : rq' = [rq EXCEPT ![q] = n] /\ DoBecomes(q, Start(k, v, own, e), n)
  BY DoEffect
<1>3. PICK own \in OwnValidators(k, v) :
        \E n : rq' = [rq EXCEPT ![q] = n] /\ DoBecomes(q, Start(k, v, own, e), n)
  BY <1>2
<1>4. PICK n : rq' = [rq EXCEPT ![q] = n] /\ DoBecomes(q, Start(k, v, own, e), n)
  BY <1>3
<1>5. PICK r : r = Start(k, v, own, e)
  OBVIOUS
<1>6. UpstreamType /\ obj[e] \in Entry /\ db[k] \in Entry
  BY TypeParts DEF TypeInv, ObjType, StoreType
<1>7. /\ r \in Request /\ r.st = "sent" /\ r.key = k /\ r.variant = v /\ r.e = e /\ ~r.hasCond
      /\ r.inm = own[1] /\ r.ims = own[2] /\ r.sentInm = own[1] /\ r.sentIms = own[2]
      /\ r.out = NoOut
  BY <1>5, <1>6, StartType
<1>8. NoOut.status = 0
  BY DEF NoOut
<1>9. ~Conditional => r.inm = {} /\ r.ims = None
  BY <1>6, <1>7, OwnValidatorsType
<1>10. SentOK(r, obj'[r.e]) /\ ToldRightly(r)
  BY <1>7, <1>8, <1>9 DEF SentOK, ToldRightly
<1>11. ASSUME NEW ent \in Entry, n = addConditionalRequestInformation(r, ent.val), obj'[e] = ent
       PROVE  SentOK(n, obj'[n.e]) /\ ToldRightly(n)
  <2>1. ent.val \in Seq(Response)
    BY DEF Entry
  <2>2. PICK val \in Seq(Response) : val = ent.val
    BY <2>1
  <2>3. /\ n.st = "sent" /\ n.e = e /\ n.inm = r.inm /\ n.ims = r.ims /\ n.out = NoOut
        /\ n.sentInm = r.sentInm \cup EtagsOf(val)
        /\ r.ims # None => n.sentIms = r.sentIms
        /\ ~n.hasCond => n.sentInm = r.sentInm /\ n.sentIms = r.sentIms
    BY <1>7, <1>11, <2>2, AddConditional DEF EtagsOf
  <2>4. obj'[n.e].val = val
    BY <1>11, <2>2, <2>3
  <2> QED
    BY <1>7, <1>8, <1>9, <2>3, <2>4 DEF SentOK, ToldRightly
<1>12. ASSUME NEW o \in Outs, NEW b, o = Out("fresh", 200, b, gen[k]), n = Done(r, o)
       PROVE  SentOK(n, obj'[n.e]) /\ ToldRightly(n)
  <2>1. n.st = "done" /\ n.out = o /\ o.status = 200
    BY <1>7, <1>12, DoneType, OutFields
  <2> QED
    BY <2>1, DoneTold
<1>13. SentOK(n, obj'[n.e]) /\ ToldRightly(n)
  <2>1. DoBecomes(q, r, n)
    BY <1>4, <1>5
  <2> QED
    BY <2>1, <1>6, <1>7, <1>10, <1>11, <1>12 DEF DoBecomes
<1> QED
  BY <1>1, <1>4, <1>13, ValidatorsMove

LEMMA ReturnValidators ==
    ASSUME TypeInv, ValidatorInv, NEW q \in Requests, NEW o \in Outs, o.status # 304,
           rq' = [rq EXCEPT ![q] = Done(rq[q], o)], OwnEntryOnly(q), UNCHANGED style
    PROVE  ValidatorInv'
<1>1. PICK n : n = Done(rq[q], o)
  OBVIOUS
<1>2. rq[q] \in Request
  BY DEF TypeInv, RequestType
<1>3. n.st = "done" /\ n.out = o
  BY <1>1, <1>2, DoneType
<1>4. SentOK(n, obj'[n.e]) /\ ToldRightly(n)
  BY <1>3, DoneTold
<1> QED
  BY <1>1, <1>4, ValidatorsMove

LEMMA NotModifiedValidators ==
    ASSUME TypeInv, ValidatorInv, NEW q \in Requests, AnswerNotModified(q)
    PROVE  ValidatorInv'
<1>1. PICK i : i = updateCache(obj[rq[q].e].val, Etag304(rq[q]), Lm304(rq[q]))
  OBVIOUS
<1>2. Waiting(q) /\ NotModified(rq[q]) /\ UNCHANGED style
  BY <1>1, NotModifiedCases
<1>3. rq[q].st \in Holding
  BY <1>2, WaitingHolds
<1>4. obj[rq[q].e].val \in Seq(Response) /\ gen[rq[q].key] \in 0 .. MaxGen /\ rq[q].e \in Entries
  BY <1>3, HeldTypes
<1>5. PICK g : g = gen[rq[q].key]
  OBVIOUS
<1>6. Out("panic", 0, None, g) \in Outs /\ Out("upstream", 304, None, g) \in Outs
  BY <1>4, <1>5, UpstreamOutTypes
<1>7. CASE Return(q, Out("panic", 0, None, g)) /\ UNCHANGED obj
  <2>1. PICK o \in Outs : o = Out("panic", 0, None, g)
    BY <1>6
  <2>2. o.status = 0
    BY <2>1, OutFields
  <2> QED
    BY <1>2, <1>7, <2>1, <2>2, ReturnIsDone, ReturnValidators DEF OwnEntryOnly
<1>8. CASE i # 0 /\ refreshResponseAndServe(q, i, Etag304(rq[q]), Lm304(rq[q]))
  <2>1. PICK etag \in Etags \cup {None}, lm \in Dates : refreshResponseAndServe(q, i, etag, lm)
    BY <1>3, <1>8, ValidatorTypes
  <2>2. i \in DOMAIN obj[rq[q].e].val
    BY <1>1, <1>4, <1>8, UpdateCacheIndex
  <2>0. PICK val \in Seq(Response), o \in Outs : Refreshed(q, i, etag, lm, val, o)
    BY <1>3, <2>1, <2>2, RefreshEffect
  <2>3. /\ obj' = [obj EXCEPT ![rq[q].e] = [val |-> val, ver |-> obj[rq[q].e].ver]]
        /\ Return(q, o)
        /\ o \in {Out("revalidated", 200, val[i].body, gen[rq[q].key]),
                  Out("panic", 0, None, gen[rq[q].key])}
    BY <2>0 DEF Refreshed
  <2>4. o.status \in {0, 200}
    BY <2>3, OutFields
  <2>5. [val |-> val, ver |-> obj[rq[q].e].ver] \in Entry
    BY <1>3, HeldTypes DEF Entry
  <2>6. OwnEntryOnly(q)
    BY <1>4, <2>3, <2>5 DEF OwnEntryOnly
  <2>7. o.status # 304 /\ rq' = [rq EXCEPT ![q] = Done(rq[q], o)]
    BY <2>3, <2>4, ReturnIsDone
  <2> QED
    BY <1>2, <2>6, <2>7, ReturnValidators
<1>9. CASE /\ \/ i = 0 /\ wasOriginalRequestConditional(rq[q])
              \/ rq[q].st # "sent" \/ ~rq[q].hasCond
           /\ Return(q, Out("upstream", 304, None, g))
           /\ UNCHANGED obj
  <2>1. PICK o \in Outs : o = Out("upstream", 304, None, g)
    BY <1>6
  <2>2. PICK n \in Request :
           /\ rq' = [rq EXCEPT ![q] = n] /\ n.st = "done"
           /\ n.key = rq[q].key /\ n.variant = rq[q].variant
           /\ n.inm = rq[q].inm /\ n.ims = rq[q].ims /\ n.out = o
    BY <1>9, <2>1, ReturnMakes
  <2>3. o.gen = g
    BY <2>1, OutFields
  <2>4. SentOK(rq[q], obj[rq[q].e])
    BY DEF ValidatorInv
  <2>5. (style[rq[q].key].etag => style[rq[q].key].etag304) =>
           Validates(rq[q].key, Current(rq[q]), rq[q].inm, rq[q].ims)
    BY <1>1, <1>2, <1>9, <2>4, PassedOnRightly
  <2>6. Current(rq[q]) = Body(n.key, n.variant, n.out.gen)
    BY <1>5, <2>2, <2>3 DEF Current
  <2>7. ToldRightly(n)
    BY <2>2, <2>5, <2>6 DEF ToldRightly
  <2>8. SentOK(n, obj'[n.e])
    BY <2>2 DEF SentOK
  <2> QED
    BY <1>2, <1>9, <2>2, <2>7, <2>8, ValidatorsMove DEF OwnEntryOnly
<1>10. CASE Retry(q)
  <2>1. PICK n \in Request :
           /\ rq' = [rq EXCEPT ![q] = n] /\ n.st = "resent"
           /\ n.key = rq[q].key /\ n.variant = rq[q].variant
           /\ n.inm = rq[q].inm /\ n.ims = rq[q].ims
           /\ n.sentInm = rq[q].inm /\ n.sentIms = rq[q].ims /\ n.out = rq[q].out
    BY <1>2, <1>10, RetryEffect
  <2>2. SentOK(rq[q], obj[rq[q].e]) /\ ToldRightly(rq[q])
    BY DEF ValidatorInv
  <2>3. SentOK(n, obj'[n.e])
    BY <1>2, <2>1, <2>2 DEF SentOK, Waiting
  <2>4. ToldRightly(n)
    BY <2>1, <2>2 DEF ToldRightly
  <2>5. OwnEntryOnly(q)
    BY <1>10 DEF Retry, OwnEntryOnly
  <2> QED
    BY <1>2, <2>1, <2>3, <2>4, <2>5, ValidatorsMove
<1> QED
  BY <1>1, <1>5, <1>7, <1>8, <1>9, <1>10, NotModifiedCases

LEMMA IngestReturns ==
    ASSUME TypeInv, NEW q \in Requests, IngestAbandon(q) \/ IngestBypass(q) \/ IngestSave(q)
    PROVE  /\ rq[q].st \in Ingesting /\ OwnEntryOnly(q)
           /\ rq[q] \in Request /\ rq[q].out \in Outs
           /\ rq' = [rq EXCEPT ![q] = Done(rq[q], rq[q].out)]
           /\ UNCHANGED <<style, gen, epoch, files, since>>
<1>1. rq[q] \in Request /\ rq[q].out \in Outs
  BY DEF TypeInv, RequestType, Request
<1>2. CASE IngestAbandon(q)
  BY <1>1, <1>2, ReturnIsDone DEF IngestAbandon, Ingesting, OwnEntryOnly
<1>3. CASE IngestBypass(q)
  BY <1>1, <1>3 DEF IngestBypass, Ingesting, OwnEntryOnly
<1>4. CASE IngestSave(q)
  <2>1. rq[q].st = "renamed" /\ Return(q, rq[q].out) /\ UNCHANGED <<style, gen, epoch, files, since>>
    BY <1>4, IngestSaveEffect
  <2>2. PICK val \in Seq(Response) :
           \/ UNCHANGED obj
           \/ obj' = [obj EXCEPT ![rq[q].e] = [val |-> val, ver |-> obj[rq[q].e].ver]]
    BY <1>4, IngestSaveEffect
  <2>3. rq[q].st \in Holding /\ rq[q].st \in Ingesting
    BY <2>1 DEF Holding, Ingesting
  <2>4. rq[q].e \in Entries /\ obj[rq[q].e] \in Entry
    BY <2>3, HeldTypes
  <2>5. [val |-> val, ver |-> obj[rq[q].e].ver] \in Entry
    BY <2>4 DEF Entry
  <2>6. OwnEntryOnly(q)
    BY <2>2, <2>4, <2>5 DEF OwnEntryOnly
  <2> QED
    BY <1>1, <2>1, <2>3, <2>6, ReturnIsDone
<1> QED
  BY <1>2, <1>3, <1>4

LEMMA ValidatorStep ==
    ASSUME TypeInv, ValidatorInv, [Next]_vars
    PROVE  ValidatorInv'
<1>1. ASSUME NEW q \in Requests, NextHop(q) PROVE ValidatorInv'
  <2>1. UNCHANGED <<style, obj>>
    BY <1>1, NextHopEffect
  <2>2. PICK n \in Request :
          /\ rq' = [rq EXCEPT ![q] = n] /\ n.st = rq[q].st /\ n.e = rq[q].e
          /\ n.key = rq[q].key /\ n.variant = rq[q].variant /\ n.hasCond = rq[q].hasCond
          /\ n.inm = rq[q].inm /\ n.ims = rq[q].ims /\ n.out = rq[q].out
          /\ n.sentInm = rq[q].sentInm /\ n.sentIms = rq[q].sentIms
    BY <1>1, NextHopEffect
  <2>3. SentOK(rq[q], obj[rq[q].e]) /\ ToldRightly(rq[q])
    BY DEF ValidatorInv
  <2>4. SentOK(n, obj'[n.e]) /\ ToldRightly(n)
    BY <2>1, <2>2, <2>3 DEF SentOK, ToldRightly
  <2> QED
    BY <2>1, <2>2, <2>4, ValidatorsMove DEF OwnEntryOnly
<1>2. ASSUME NEW q \in Requests, AnswerFailure(q) \/ AnswerTooMany(q) \/ AnswerOther(q)
      PROVE  ValidatorInv'
  <2>1. UNCHANGED <<style, obj>>
    BY <1>2, FailureReturns
  <2>2. PICK n \in Outs :
          /\ Return(q, n)
          /\ \/ n = Out("error", 0, None, 0) \/ n = HandedOn
             \/ \E i \in DOMAIN obj[rq[q].e].val :
                  n = Out("stale", 200, obj[rq[q].e].val[i].body, gen[rq[q].key])
    BY <1>2, FailureReturns
  <2>3. n.status # 304
    BY <2>2, OutFields DEF HandedOn
  <2> QED
    BY <2>1, <2>2, <2>3, ReturnIsDone, ReturnValidators DEF OwnEntryOnly
<1>3. ASSUME NEW q \in Requests, AnswerOK(q) PROVE ValidatorInv'
  <2>1. UNCHANGED <<style, obj>> /\ Delivered(rq[q]) \in Outs
    BY <1>3, AnswerOKEffect
  <2>2. Delivered(rq[q]).status = 200
    BY DEF Delivered, Out
  <2>3. CASE Return(q, Delivered(rq[q]))
    BY <2>1, <2>2, <2>3, ReturnIsDone, ReturnValidators DEF OwnEntryOnly
  <2>4. CASE \E r \in Request : /\ rq' = [rq EXCEPT ![q] = r]
                                /\ r.st = "ingest" /\ r.out = Delivered(rq[q])
    <3>1. PICK r \in Request : /\ rq' = [rq EXCEPT ![q] = r]
                               /\ r.st = "ingest" /\ r.out = Delivered(rq[q])
      BY <2>4
    <3>2. SentOK(r, obj'[r.e]) /\ ToldRightly(r)
      BY <2>2, <3>1 DEF SentOK, ToldRightly
    <3> QED
      BY <2>1, <3>1, <3>2, ValidatorsMove DEF OwnEntryOnly
  <2> QED
    BY <1>3, <2>3, <2>4, AnswerOKEffect
<1>4. ASSUME NEW q \in Requests, IngestRename(q) PROVE ValidatorInv'
  <2>1. UNCHANGED <<style, obj>>
    BY <1>4, IngestRenameEffect
  <2>2. PICK r \in Request :
           /\ rq' = [rq EXCEPT ![q] = r] /\ r.st = "renamed"
           /\ r.key = rq[q].key /\ r.variant = rq[q].variant
           /\ r.inm = rq[q].inm /\ r.ims = rq[q].ims /\ r.out = rq[q].out
    BY <1>4, IngestRenameEffect
  <2>3. ToldRightly(rq[q])
    BY DEF ValidatorInv
  <2>4. SentOK(r, obj'[r.e]) /\ ToldRightly(r)
    BY <2>2, <2>3 DEF SentOK, ToldRightly
  <2> QED
    BY <2>1, <2>2, <2>4, ValidatorsMove DEF OwnEntryOnly
<1>5. ASSUME NEW q \in Requests, IngestAbandon(q) \/ IngestBypass(q) \/ IngestSave(q)
      PROVE  ValidatorInv'
  <2>1. /\ OwnEntryOnly(q) /\ rq[q] \in Request /\ rq[q].out \in Outs
        /\ rq' = [rq EXCEPT ![q] = Done(rq[q], rq[q].out)] /\ UNCHANGED style
    BY <1>5, IngestReturns
  <2>2. PICK n : n = Done(rq[q], rq[q].out)
    OBVIOUS
  <2>3. /\ n.st = "done" /\ n.key = rq[q].key /\ n.variant = rq[q].variant
        /\ n.inm = rq[q].inm /\ n.ims = rq[q].ims /\ n.out = rq[q].out
    BY <2>1, <2>2, DoneType
  <2>4. ToldRightly(rq[q])
    BY DEF ValidatorInv
  <2>5. SentOK(n, obj'[n.e]) /\ ToldRightly(n)
    BY <2>3, <2>4 DEF SentOK, ToldRightly
  <2> QED
    BY <2>1, <2>2, <2>5, ValidatorsMove
<1>6. SentOK(NewRequest, obj'[NewRequest.e]) /\ ToldRightly(NewRequest)
  BY DEF NewRequest, NoOut, SentOK, ToldRightly
<1>7. ASSUME NEW q \in Requests, Over(q) PROVE ValidatorInv'
  BY <1>6, <1>7, ValidatorsMove DEF Over, OwnEntryOnly
<1>8. CASE Restart
  <2>1. \A q \in Requests : rq'[q] = NewRequest
    BY <1>8 DEF Restart
  <2>2. ToldRightly(NewRequest)'
    BY DEF NewRequest, NoOut, ToldRightly
  <2>3. \A q \in Requests : ToldRightly(rq[q])'
    BY <2>1 DEF NewRequest, NoOut, ToldRightly
  <2> QED
    BY <2>1, <2>3 DEF ValidatorInv, SentOK, NewRequest
<1>9. ASSUME UNCHANGED <<style, obj, rq>> PROVE ValidatorInv'
  BY <1>9 DEF ValidatorInv, SentOK, ToldRightly, Validates, Body, VariantOf, Etag
<1>10. ASSUME Environment PROVE ValidatorInv'
  <2>1. \/ Restart
        \/ UNCHANGED <<style, obj, rq>>
    BY <1>10 DEF Environment, Publish, Sweep, RemoveKey, Tick, Evict
  <2> QED
    BY <1>8, <1>9, <2>1
<1>11. ASSUME UNCHANGED vars PROVE ValidatorInv'
  BY <1>9, <1>11 DEF vars
<1> QED
  BY <1>1, <1>2, <1>3, <1>4, <1>5, <1>7, <1>10, <1>11, DoValidators, NotModifiedValidators
     DEF Next, Answer, Ingest

LEMMA ValidatorsHold == Spec => []ValidatorInv
<1>1. Init => ValidatorInv
  BY DEF Init, ValidatorInv, SentOK, ToldRightly, NewRequest, NoOut
<1> QED
  BY <1>1, TypesHold, ValidatorStep, PTL DEF Spec

(***************************************************************************)
(* A client is told "304 Not Modified" only if its own validators are      *)
(* those of the current edition, although the validators of every stored   *)
(* response are sent along with them, and although Get may fail and leave  *)
(* it the entry of another key: NotModifiedOnlyIfClientCurrent             *)
(* (addConditionalRequestInformation and client.go 281-323).               *)
(***************************************************************************)
THEOREM NotModifiedIsTheClients == Spec => []NotModifiedOnlyIfClientCurrent
<1>1. ValidatorInv => NotModifiedOnlyIfClientCurrent
  BY DEF ValidatorInv, ToldRightly, NotModifiedOnlyIfClientCurrent
<1> QED
  BY <1>1, ValidatorsHold, PTL

-----------------------------------------------------------------------------
(* Stored responses.                                                       *)

LEMMA MatchIsSame ==
    ASSUME NEW k \in Keys, style[k] \in Styles, NEW v, NEW w
    PROVE  MatchVaryHeaders(Header(v), VaryOf(k, w)) <=>
             AnyField \notin style[k].vary /\ VaryOf(k, v) = VaryOf(k, w)
<1>1. DOMAIN VaryOf(k, w) = style[k].vary /\ DOMAIN VaryOf(k, v) = style[k].vary
  BY DEF VaryOf, ExtractVaryHeaders
<1>2. \A f \in style[k].vary : VaryOf(k, v)[f] = normalizeVaryHeaders(Lookup(Header(v), f))
  BY DEF VaryOf, ExtractVaryHeaders
<1>3. VaryOf(k, v) = VaryOf(k, w) <=> \A f \in style[k].vary : VaryOf(k, v)[f] = VaryOf(k, w)[f]
  BY DEF VaryOf, ExtractVaryHeaders
<1> QED
  BY <1>1, <1>2, <1>3 DEF MatchVaryHeaders

LEMMA SpelledTellsVariants ==
    ASSUME NEW k \in Keys, style[k] \in Styles, NEW v, NEW w,
           VaryOf(k, v) = VaryOf(k, w), Spelled(style[k]), AnyField \notin style[k].vary
    PROVE  VariantOf(k, v) = VariantOf(k, w)
<1>1. CASE style[k].vary = {}
  BY <1>1 DEF VariantOf
<1>2. CASE style[k].vary # {}
  <2> DEFINE f == [name |-> "accept", canonical |-> TRUE]
  <2>1. f \in style[k].vary
    BY <1>2 DEF Spelled
  <2>2. f \in [name : {"accept", "*"}, canonical : BOOLEAN] /\ f.canonical /\ f.name = "accept"
    OBVIOUS
  <2>3. VaryOf(k, v)[f] = <<<<v>>>> /\ VaryOf(k, w)[f] = <<<<w>>>>
    <3> HIDE DEF f
    <3> QED
      BY <2>1, <2>2, LookupHeader DEF VaryOf, ExtractVaryHeaders
  <2>4. v = w
    BY <2>3
  <2> QED
    BY <2>4
<1> QED
  BY <1>1, <1>2

\* A stored response that matches a request is what it asks for.
LEMMA MatchedIsRight ==
    ASSUME TypeInv, NEW k \in Keys, NEW s, StoredOK(k, s), NEW v \in Variants,
           MatchVaryHeaders(Header(v), s.vary)
    PROVE  /\ s.body.key = k /\ s.vary = VaryOf(k, v)
           /\ Spelled(style[k]) => s.body.variant = VariantOf(k, v)
<1>1. style[k] \in Styles
  BY DEF TypeInv, StoreType
<1>2. PICK w \in Variants : s.vary = VaryOf(k, w) /\ s.body.variant = VariantOf(k, w)
  BY DEF StoredOK
<1>3. AnyField \notin style[k].vary /\ VaryOf(k, v) = VaryOf(k, w)
  BY <1>1, <1>2, MatchIsSame
<1>4. Spelled(style[k]) => VariantOf(k, v) = VariantOf(k, w)
  BY <1>1, <1>3, SpelledTellsVariants
<1> QED
  BY <1>2, <1>3, <1>4 DEF StoredOK

LEMMA CachedStored ==
    ASSUME UpstreamType, since \in [Keys -> 0 .. MaxGen], NEW r, r.key \in Keys,
           r.variant \in Variants, since[r.key] <= gen[r.key], NEW s, s = CachedResponse(r)
    PROVE  /\ StoredOK(r.key, s) /\ s.vary = VaryOf(r.key, r.variant)
           /\ s.body.gen = gen[r.key] /\ s.born = epoch
<1>1. Current(r) \in Bodies /\ Etag(Current(r)) \in Etags /\ gen[r.key] \in 0 .. MaxGen
  BY CurrentType
<1>2. epoch \in Int /\ gen[r.key] \in Int /\ epoch <= epoch /\ gen[r.key] <= gen[r.key]
  BY <1>1, Constants DEF UpstreamType
<1>3. /\ Current(r).key = r.key /\ Current(r).gen = gen[r.key]
      /\ Current(r).variant = VariantOf(r.key, r.variant)
  BY DEF Current, Body
<1>4. Etag(Current(r)) # None /\ Etag(Current(r)).tag = Current(r)
  BY <1>1, Constants DEF Etag
<1>5. /\ s.body = Current(r) /\ s.vary = VaryOf(r.key, r.variant) /\ s.born = epoch
      /\ s.etag = IF style[r.key].etag THEN Etag(Current(r)) ELSE None
      /\ s.lm = IF style[r.key].lm THEN gen[r.key] ELSE None
  BY DEF CachedResponse, VaryOf
<1> QED
  BY <1>2, <1>3, <1>4, <1>5 DEF StoredOK

\* The stored response that a 304 is found to be about is of the current
\* edition, and if responses are told apart, it is what the request asks for.
LEMMA RefreshedIsCurrent ==
    ASSUME TypeInv, NEW q \in Requests, rq[q].st = "sent", rq[q].hasCond,
           SentOK(rq[q], obj[rq[q].e]), NotModified(rq[q]), ValOK(rq[q].key, obj[rq[q].e].val),
           NEW i, i = updateCache(obj[rq[q].e].val, Etag304(rq[q]), Lm304(rq[q])), i # 0
    PROVE  /\ i \in DOMAIN obj[rq[q].e].val
           /\ obj[rq[q].e].val[i].body.gen = gen[rq[q].key]
           /\ TellsApart(style[rq[q].key]) => obj[rq[q].e].val[i].body = Current(rq[q])
<1> DEFINE r == rq[q]
           k == r.key
           b == Current(r)
<1>1. PICK val : val = obj[r.e].val
  OBVIOUS
<1>2. r.st \in Holding
  BY DEF Holding
<1>3. val \in Seq(Response) /\ k \in Keys /\ r.variant \in Variants /\ style[k] \in Styles
  BY <1>1, <1>2, HeldTypes
<1>4. UpstreamType /\ gen[k] \in 0 .. MaxGen
  BY <1>3, TypeParts DEF UpstreamType
<1>5. Etag(b) \in Etags /\ Etag(b) # None /\ Etag(b).tag = b /\ ~Etag(b).weak
  BY <1>3, <1>4, CurrentType, Constants DEF Etag
<1>6. b.gen = gen[k] /\ b.key = k /\ b.variant = VariantOf(k, r.variant)
  BY DEF Current, Body
<1>7. PICK etag, lm : etag = Etag304(r) /\ lm = Lm304(r)
  OBVIOUS
<1>8. i = updateCache(val, etag, lm)
  BY <1>1, <1>7
<1>9. /\ i \in DOMAIN val
      /\ \/ etag # None /\ EtagsMatch(etag, val[i].etag)
         \/ lm # None /\ val[i].lm = lm
      /\ etag # None /\ (\E j \in DOMAIN val : EtagsMatch(etag, val[j].etag)) =>
           EtagsMatch(etag, val[i].etag)
  BY <1>3, <1>8, UpdateCacheIndex
<1>10. PICK s : s = val[i]
  OBVIOUS
<1>11. s \in Response /\ s.body \in Bodies
  BY <1>3, <1>9, <1>10, ResponseAt
<1>12. \A j \in DOMAIN val : StoredOK(k, val[j])
  BY <1>1 DEF ValOK
<1>13. StoredOK(k, s)
  BY <1>9, <1>10, <1>12
<1>14. etag # None => etag = Etag(b)
  BY <1>7 DEF Etag304
<1>15. ASSUME etag # None, EtagsMatch(etag, s.etag)
       PROVE  s.etag = Etag(b) /\ s.etag # None
  <2>1. s.etag # None => ~s.etag.weak
    BY <1>11 DEF Response, Etags
  <2> QED
    BY <1>5, <1>14, <1>15, <2>1 DEF EtagsMatch
<1>16. ASSUME lm # None, s.lm = lm PROVE s.body.gen = gen[k]
  <2>1. lm = gen[k]
    BY <1>7, <1>16 DEF Lm304
  <2> QED
    BY <1>13, <1>16, <2>1 DEF StoredOK
<1>17. s.body.gen = gen[k]
  <2>1. CASE etag # None /\ EtagsMatch(etag, s.etag)
    BY <1>5, <1>6, <1>13, <1>15, <2>1 DEF StoredOK
  <2>2. CASE lm # None /\ s.lm = lm
    BY <1>16, <2>2
  <2> QED
    BY <1>9, <1>10, <2>1, <2>2
<1>18. ASSUME TellsApart(style[k]) PROVE s.body = b
  <2>1. CASE etag # None /\ EtagsMatch(etag, s.etag)
    <3>1. s.etag = Etag(b) /\ s.etag = Etag(s.body)
      BY <1>13, <1>15, <1>18, <2>1 DEF StoredOK
    <3> QED
      BY <3>1 DEF Etag
  <2>2. CASE style[k].vary = {}
    <3>1. s.body.variant = None /\ b.variant = None
      BY <1>6, <1>13, <2>2 DEF StoredOK, VariantOf
    <3>2. s.body.key = k
      BY <1>13 DEF StoredOK
    <3>3. b \in Bodies
      BY <1>3, <1>4, CurrentType
    <3> QED
      BY <1>6, <1>11, <1>17, <3>1, <3>2, <3>3 DEF Bodies
  <2>3. CASE ~style[k].lm
    <3>1. lm = None
      BY <1>7, <2>3 DEF Lm304
    <3> QED
      BY <1>9, <1>10, <2>1, <3>1
  <2>4. CASE style[k].etag /\ style[k].etag304 /\ ~Conditional
    <3>1. etag = Etag(b) /\ etag # None
      BY <1>5, <1>7, <2>4 DEF Etag304
    <3>2. r.inm = {} /\ r.sentInm = r.inm \cup EtagsOf(val)
      BY <1>1, <2>4 DEF SentOK
    <3>3. s.etag # None
      BY <1>13, <1>18, <2>4 DEF StoredOK
    <3>4. s.etag \in r.sentInm
      BY <1>9, <1>10, <3>2, <3>3 DEF EtagsOf
    <3>5. Etag(b) \in r.sentInm
      BY <3>4 DEF NotModified, Validates
    <3>6. \E j \in DOMAIN val : val[j].etag = Etag(b)
      BY <3>2, <3>5 DEF EtagsOf
    <3>7. \E j \in DOMAIN val : EtagsMatch(etag, val[j].etag)
      BY <3>1, <3>6 DEF EtagsMatch
    <3> QED
      BY <1>9, <1>10, <2>1, <3>1, <3>7
  <2> QED
    BY <1>18, <2>2, <2>3, <2>4 DEF TellsApart
<1> QED
  BY <1>1, <1>9, <1>10, <1>17, <1>18

\* Renewing that response keeps the entry in order.
LEMMA RefreshedValOK ==
    ASSUME TypeInv, NEW q \in Requests, rq[q].st = "sent", rq[q].hasCond,
           SentOK(rq[q], obj[rq[q].e]), NotModified(rq[q]), ValOK(rq[q].key, obj[rq[q].e].val),
           since[rq[q].key] <= gen[rq[q].key],
           NEW i, i = updateCache(obj[rq[q].e].val, Etag304(rq[q]), Lm304(rq[q])), i # 0,
           NEW val \in Seq(Response), NEW o,
           Refreshed(q, i, Etag304(rq[q]), Lm304(rq[q]), val, o)
    PROVE  ValOK(rq[q].key, val)
<1> DEFINE r == rq[q]
           k == r.key
           b == Current(r)
<1>1. PICK old : old = obj[r.e].val
  OBVIOUS
<1>2. /\ i \in DOMAIN old /\ old[i].body.gen = gen[k]
      /\ TellsApart(style[k]) => old[i].body = b
  BY <1>1, RefreshedIsCurrent
<1>3. r.st \in Holding
  BY DEF Holding
<1>4. k \in Keys /\ r.variant \in Variants
  BY <1>3, HeldTypes
<1>5. UpstreamType /\ gen[k] \in 0 .. MaxGen /\ epoch \in 0 .. MaxEpoch
  BY <1>4, TypeParts DEF UpstreamType
<1>6. Etag(b) # None /\ Etag(b).tag = b /\ b.gen = gen[k]
  BY <1>4, <1>5, CurrentType, Constants DEF Etag, Current, Body
<1>7. PICK etag, lm : etag = Etag304(r) /\ lm = Lm304(r)
  OBVIOUS
<1>8. etag # None => etag = Etag(b)
  BY <1>7 DEF Etag304
<1>9. lm # None => lm = gen[k]
  BY <1>7 DEF Lm304
<1>10. Refreshed(q, i, etag, lm, val, o)
  BY <1>7
<1>11. /\ DOMAIN val = DOMAIN old
       /\ \A j \in DOMAIN val : j # i => val[j] = old[j]
       /\ val[i].body = old[i].body /\ val[i].vary = old[i].vary /\ val[i].born = epoch
       /\ val[i].etag = IF etag = None THEN old[i].etag ELSE etag
       /\ val[i].lm = IF lm = None THEN old[i].lm ELSE lm
  BY <1>1, <1>10 DEF Refreshed
<1>12. \A j \in DOMAIN old : StoredOK(k, old[j])
  BY <1>1 DEF ValOK
<1>13. PICK s, n : s = old[i] /\ n = val[i]
  OBVIOUS
<1>14. StoredOK(k, s) /\ s.body.gen = gen[k] /\ (TellsApart(style[k]) => s.body = b)
  BY <1>2, <1>12, <1>13
<1>15. /\ n.body = s.body /\ n.vary = s.vary /\ n.born = epoch
       /\ n.etag = IF etag = None THEN s.etag ELSE etag
       /\ n.lm = IF lm = None THEN s.lm ELSE lm
  BY <1>11, <1>13
<1>16. n.lm # None => n.lm = n.body.gen
  BY <1>9, <1>14, <1>15 DEF StoredOK
<1>17. n.etag # None => n.etag.tag.gen = n.body.gen
  BY <1>6, <1>8, <1>14, <1>15 DEF StoredOK
<1>18. TellsApart(style[k]) => /\ n.etag # None => n.etag = Etag(n.body)
                               /\ style[k].etag => n.etag # None
  BY <1>8, <1>14, <1>15 DEF StoredOK
<1>19. n.body.gen <= gen[k] /\ n.born <= epoch /\ since[k] <= n.body.gen
  BY <1>5, <1>14, <1>15, Constants
<1>20. n.body.key = k /\ \E v \in Variants : n.vary = VaryOf(k, v) /\ n.body.variant = VariantOf(k, v)
  BY <1>14, <1>15 DEF StoredOK
<1>21. StoredOK(k, n)
  BY <1>16, <1>17, <1>18, <1>19, <1>20 DEF StoredOK
<1>22. \A j \in DOMAIN val : StoredOK(k, val[j])
  BY <1>11, <1>12, <1>13, <1>21
<1>23. \A j \in DOMAIN val : val[j].vary = old[j].vary
  BY <1>11
<1>24. AnyField \notin style[k].vary =>
         \A j, l \in DOMAIN old : old[j].vary = old[l].vary => j = l
  BY <1>1 DEF ValOK
<1> QED
  BY <1>11, <1>22, <1>23, <1>24 DEF ValOK

\* Storing an answer keeps the entry in order.
LEMMA WithResponseOK ==
    ASSUME TypeInv, NEW k \in Keys, NEW v \in Variants, NEW val \in Seq(Response), ValOK(k, val),
           NEW resp \in Response, StoredOK(k, resp), resp.vary = VaryOf(k, v),
           NEW new, new = WithResponse(val, v, resp)
    PROVE  ValOK(k, new)
<1>0. PICK n \in DOMAIN new : Stores(val, v, resp, new, n)
  BY WithResponseShape
<1>1. /\ new[n] = resp
      /\ DOMAIN new = DOMAIN val \cup {n}
      /\ \A j \in DOMAIN val \ {n} : new[j] = val[j]
      /\ n \in DOMAIN val => n \in selectResponseCandidates(v, val)
      /\ n \notin DOMAIN val => selectResponseCandidates(v, val) = {}
  BY <1>0 DEF Stores
<1>2. \A j \in DOMAIN val : StoredOK(k, val[j])
  BY DEF ValOK
<1>3. \A j \in DOMAIN new : StoredOK(k, new[j])
  BY <1>1, <1>2
<1>4. ASSUME AnyField \notin style[k].vary, NEW j \in DOMAIN val, j # n
      PROVE  val[j].vary # resp.vary
  <2>1. style[k] \in Styles
    BY DEF TypeInv, StoreType
  <2>2. PICK w \in Variants : val[j].vary = VaryOf(k, w)
    BY <1>2 DEF StoredOK
  <2>3. SUFFICES ASSUME val[j].vary = resp.vary PROVE FALSE
    OBVIOUS
  <2>4. MatchVaryHeaders(Header(v), val[j].vary)
    BY <1>4, <2>1, <2>2, <2>3, MatchIsSame
  <2>5. j \in selectResponseCandidates(v, val)
    BY <2>4 DEF selectResponseCandidates
  <2>6. n \in DOMAIN val /\ MatchVaryHeaders(Header(v), val[n].vary)
    BY <1>1, <2>5 DEF selectResponseCandidates
  <2>7. StoredOK(k, val[n])
    BY <1>2, <2>6
  <2>8. val[n].vary = VaryOf(k, v)
    BY <2>6, <2>7, MatchedIsRight
  <2>9. val[n].vary = val[j].vary
    BY <2>3, <2>8
  <2> QED
    BY <1>4, <2>6, <2>9 DEF ValOK
<1>5. ASSUME AnyField \notin style[k].vary, NEW i \in DOMAIN new, NEW j \in DOMAIN new,
             new[i].vary = new[j].vary
      PROVE  i = j
  <2>1. CASE i = n
    BY <1>1, <1>4, <1>5, <2>1
  <2>2. CASE j = n
    BY <1>1, <1>4, <1>5, <2>2
  <2>3. CASE i # n /\ j # n
    <3>1. i \in DOMAIN val /\ j \in DOMAIN val /\ val[i].vary = val[j].vary
      BY <1>1, <1>5, <2>3
    <3> QED
      BY <1>5, <3>1 DEF ValOK
  <2> QED
    BY <2>1, <2>2, <2>3
<1> QED
  BY <1>3, <1>5 DEF ValOK

-----------------------------------------------------------------------------
(* The stored responses stay in order while upstream does not change.      *)

SameWorld == UNCHANGED <<style, gen, epoch, since>>

LEMMA StoredSame ==
    ASSUME SameWorld, NEW k, NEW s
    PROVE  StoredOK(k, s)' <=> StoredOK(k, s)
BY DEF SameWorld, StoredOK, TellsApart, VaryOf, VariantOf, Etag

LEMMA ValSame ==
    ASSUME SameWorld, NEW k, NEW val
    PROVE  ValOK(k, val)' <=> ValOK(k, val)
<1>1. \A i \in DOMAIN val : StoredOK(k, val[i])' <=> StoredOK(k, val[i])
  BY StoredSame
<1> QED
  BY <1>1 DEF ValOK, SameWorld

LEMMA HolderSame ==
    ASSUME SameWorld, NEW r, NEW ent, NEW cur
    PROVE  HolderOK(r, ent, cur)' <=> HolderOK(r, ent, cur)
<1>1. StoredOK(r.key, r.resp)' <=> StoredOK(r.key, r.resp)
  BY StoredSame
<1>2. ValOK(r.key, ent.val)' <=> ValOK(r.key, ent.val)
  BY ValSame
<1>3. VaryOf(r.key, r.variant)' = VaryOf(r.key, r.variant)
  BY DEF VaryOf, SameWorld
<1> QED
  BY <1>1, <1>2, <1>3 DEF HolderOK

LEMMA ServedSame ==
    ASSUME UNCHANGED style, NEW r
    PROVE  ServedOK(r)' <=> ServedOK(r)
BY DEF ServedOK, TellsApart, Spelled, VariantOf, Body

\* An entry of the database is removed or gets a version nobody has seen.
DbMoves == \A k \in Keys : db'[k] = db[k] \/ db'[k].ver = 0 \/ db'[k].ver > clock

DbNextOK == \A k \in Keys : ValOK(k, db'[k].val) /\ (db'[k].ver = 0 => db'[k].val = <<>>)

LEMMA HolderStays ==
    ASSUME TypeInv, NEW q \in Requests, rq[q].e # None, DbMoves,
           HolderOK(rq[q], obj[rq[q].e], db[rq[q].key])
    PROVE  HolderOK(rq[q], obj[rq[q].e], db'[rq[q].key])
<1>1. rq[q].st \in Holding
  BY DEF TypeInv, RequestType, RequestOK
<1>2. rq[q].key \in Keys /\ obj[rq[q].e].ver \in Nat /\ obj[rq[q].e].ver <= clock /\ clock \in Nat
  BY <1>1, HeldTypes DEF EntryOK, Entry, TypeInv, StoreType
<1>3. PICK k \in Keys : k = rq[q].key
  BY <1>2
<1>4. \/ db'[k] = db[k]
      \/ obj[rq[q].e].ver # 0 => db'[k].ver # obj[rq[q].e].ver
  BY <1>2 DEF DbMoves
<1> QED
  BY <1>3, <1>4 DEF HolderOK

\* One request moves on, to n.
LEMMA StoreMoves ==
    ASSUME TypeInv, StoreInv, NEW q \in Requests, NEW n,
           rq' = [rq EXCEPT ![q] = n], OwnEntryOnly(q), SameWorld, DbMoves, DbNextOK,
           n.e # None => HolderOK(n, obj'[n.e], db'[n.key]), ServedOK(n)
    PROVE  StoreInv'
<1>1. \A p \in Requests : rq'[p] = IF p = q THEN n ELSE rq[p]
  BY DEF TypeInv, RequestType
<1>2. ASSUME NEW p \in Requests, rq'[p].e # None
      PROVE  HolderOK(rq[p], obj[rq[p].e], db[rq[p].key])'
  <2>1. HolderOK(rq'[p], obj'[rq'[p].e], db'[rq'[p].key])
    <3>1. CASE p = q
      BY <1>1, <1>2, <3>1
    <3>2. CASE p # q
      <4>1. rq'[p] = rq[p] /\ rq[p].e # None
        BY <1>1, <1>2, <3>2
      <4>2. HolderOK(rq[p], obj[rq[p].e], db[rq[p].key])
        BY <4>1 DEF StoreInv, HoldersOK
      <4>3. HolderOK(rq[p], obj[rq[p].e], db'[rq[p].key])
        BY <4>1, <4>2, HolderStays
      <4>4. obj'[rq[p].e] = obj[rq[p].e]
        BY <3>2, <4>1, OthersKeep
      <4> QED
        BY <4>1, <4>3, <4>4
    <3> QED
      BY <3>1, <3>2
  <2>2. PICK r, ent, cur : r = rq'[p] /\ ent = obj'[rq'[p].e] /\ cur = db'[rq'[p].key]
    OBVIOUS
  <2>3. HolderOK(r, ent, cur)'
    BY <2>1, <2>2, HolderSame
  <2> QED
    BY <2>2, <2>3 DEF HolderOK
<1>3. ASSUME NEW k \in Keys PROVE ValOK(k, db[k].val)' /\ (db'[k].ver = 0 => db'[k].val = <<>>)
  <2>1. PICK val : val = db'[k].val
    OBVIOUS
  <2>2. ValOK(k, val) /\ (db'[k].ver = 0 => db'[k].val = <<>>)
    BY <2>1 DEF DbNextOK
  <2>3. ValOK(k, val)'
    BY <2>2, ValSame
  <2> QED
    BY <2>1, <2>2, <2>3 DEF ValOK
<1>4. ASSUME NEW p \in Requests PROVE ServedOK(rq[p])'
  <2>1. PICK r : r = rq'[p]
    OBVIOUS
  <2>2. ServedOK(r)
    BY <1>1, <2>1 DEF StoreInv
  <2>3. ServedOK(r)'
    BY <2>2, ServedSame DEF SameWorld
  <2> QED
    BY <2>1, <2>3 DEF ServedOK
<1> QED
  BY <1>2, <1>3, <1>4 DEF StoreInv, HoldersOK, DbOK, SameWorld

LEMMA DbStill ==
    ASSUME StoreInv, UNCHANGED db
    PROVE  DbMoves /\ DbNextOK
BY DEF StoreInv, DbOK, DbMoves, DbNextOK

LEMMA SaveMoves ==
    ASSUME TypeInv, StoreInv, NEW k \in Keys, NEW ver, NEW val, ValOK(k, val), Save(k, ver, val)
    PROVE  DbMoves /\ DbNextOK
<1>1. CASE ~CanSave(k, ver)
  BY <1>1, DbStill DEF Save
<1>2. CASE CanSave(k, ver)
  <2>1. clock \in Nat /\ db' = [db EXCEPT ![k] = [val |-> val, ver |-> clock + 1]]
    BY <1>2 DEF Save, TypeInv, StoreType
  <2>2. \A j \in Keys : db'[j] = IF j = k THEN [val |-> val, ver |-> clock + 1] ELSE db[j]
    BY <2>1 DEF TypeInv, StoreType
  <2>3. db'[k].val = val /\ db'[k].ver = clock + 1 /\ \A j \in Keys : j # k => db'[j] = db[j]
    BY <2>2
  <2>4. DbMoves
    BY <2>1, <2>3 DEF DbMoves
  <2>5. DbNextOK
    BY <2>1, <2>3 DEF DbNextOK, StoreInv, DbOK
  <2> QED
    BY <2>4, <2>5
<1> QED
  BY <1>1, <1>2

-----------------------------------------------------------------------------
(* Every step keeps the stored responses in order, if Get does not fail.   *)

\* A request that ends with o, or is served s from the cache.
LEMMA NotFromCache ==
    ASSUME NEW r, r.out.src \notin {"fresh", "stale", "revalidated"}
    PROVE  ServedOK(r)
BY DEF ServedOK

LEMMA MatchedIsServed ==
    ASSUME TypeInv, NEW r, r.key \in Keys, r.variant \in Variants, NEW s, StoredOK(r.key, s),
           MatchVaryHeaders(Header(r.variant), s.vary),
           r.out.src # "revalidated", r.out.body = s.body
    PROVE  ServedOK(r)
<1>1. PICK k \in Keys, v \in Variants : k = r.key /\ v = r.variant
  OBVIOUS
<1>2. s.body.key = k /\ (Spelled(style[k]) => s.body.variant = VariantOf(k, v))
  BY <1>1, MatchedIsRight
<1> QED
  BY <1>1, <1>2 DEF ServedOK

LEMMA EndStore ==
    ASSUME TypeInv, StoreInv, NEW q \in Requests, NEW n, n.e = None, ServedOK(n),
           rq' = [rq EXCEPT ![q] = n], OwnEntryOnly(q), SameWorld, DbMoves, DbNextOK
    PROVE  StoreInv'
BY StoreMoves

LEMMA DoStore ==
    ASSUME ~GetMayFail, TypeInv, StoreInv, NEW q \in Requests, Do(q)
    PROVE  StoreInv'
<1>1. OwnEntryOnly(q) /\ SameWorld /\ UNCHANGED db
  BY DoEffect DEF SameWorld
<1>2. PICK k \in Keys, v \in Variants, e \in Entries : \E own \in OwnValidators(k, v) :
        \E n : rq' = [rq EXCEPT ![q] = n] /\ DoBecomes(q, Start(k, v, own, e), n)
  BY DoEffect
<1>3. PICK own \in OwnValidators(k, v) :
        \E n : rq' = [rq EXCEPT ![q] = n] /\ DoBecomes(q, Start(k, v, own, e), n)
  BY <1>2
<1>4. PICK n : rq' = [rq EXCEPT ![q] = n] /\ DoBecomes(q, Start(k, v, own, e), n)
  BY <1>3
<1>5. PICK r : r = Start(k, v, own, e)
  OBVIOUS
<1>6. UpstreamType /\ db[k] \in Entry
  BY TypeParts DEF TypeInv, StoreType
<1>7. /\ r \in Request /\ r.st = "sent" /\ r.key = k /\ r.variant = v /\ r.e = e /\ ~r.hasCond
      /\ r.out = NoOut
  BY <1>5, <1>6, StartType
<1>8. NoOut.src = "none"
  BY DEF NoOut
<1>9. DbMoves /\ DbNextOK
  BY <1>1, DbStill
<1>10. ValOK(k, db[k].val) /\ db[k].val \in Seq(Response)
  BY <1>6 DEF StoreInv, DbOK, Entry
<1>11. ASSUME NEW i \in DOMAIN db[k].val, MatchVaryHeaders(Header(v), db[k].val[i].vary),
              NEW o \in Outs, o = Out("fresh", 200, db[k].val[i].body, gen[k]), n = Done(r, o)
       PROVE  StoreInv'
  <2>1. PICK s : s = db[k].val[i]
    OBVIOUS
  <2>2. StoredOK(k, s)
    BY <1>10, <2>1 DEF ValOK
  <2>3. n.e = None /\ n.key = k /\ n.variant = v /\ n.out = o
    BY <1>7, <1>11, DoneType
  <2>4. o.src = "fresh" /\ o.body = s.body
    BY <1>11, <2>1 DEF Out
  <2>5. MatchVaryHeaders(Header(v), s.vary)
    BY <1>11, <2>1
  <2>6. ServedOK(n)
    BY <2>2, <2>3, <2>4, <2>5, MatchedIsServed
  <2> QED
    BY <1>1, <1>4, <1>9, <2>3, <2>6, EndStore
<1>12. ASSUME db[k].ver # 0, obj'[e] = db[k], n = addConditionalRequestInformation(r, db[k].val)
       PROVE  StoreInv'
  <2>1. PICK val \in Seq(Response) : val = db[k].val
    BY <1>10
  <2>2. n.st = "sent" /\ n.e = e /\ n.key = k /\ n.out = NoOut
    BY <1>7, <1>12, <2>1, AddConditional
  <2>3. HolderOK(n, obj'[n.e], db'[n.key])
    BY <1>1, <1>10, <1>12, <2>2 DEF HolderOK, Ingesting
  <2>4. ServedOK(n)
    BY <1>8, <2>2, NotFromCache
  <2> QED
    BY <1>1, <1>4, <1>9, <2>3, <2>4, StoreMoves
<1>13. ASSUME obj'[e].ver = 0, n = r
       PROVE  StoreInv'
  <2>1. HolderOK(n, obj'[n.e], db'[n.key])
    BY <1>7, <1>13 DEF HolderOK, Ingesting
  <2>2. ServedOK(n)
    BY <1>7, <1>8, <1>13, NotFromCache
  <2> QED
    BY <1>1, <1>4, <1>9, <2>1, <2>2, StoreMoves
<1>14. DoBecomes(q, r, n)
  BY <1>4, <1>5
<1> QED
  BY <1>7, <1>11, <1>12, <1>13, <1>14 DEF DoBecomes

LEMMA FailureStore ==
    ASSUME TypeInv, StoreInv, NEW q \in Requests,
           AnswerFailure(q) \/ AnswerTooMany(q) \/ AnswerOther(q)
    PROVE  StoreInv'
<1>1. rq[q].st \in Holding /\ SameWorld /\ UNCHANGED <<db, obj>>
  BY FailureReturns DEF SameWorld
<1>2. PICK o \in Outs :
        /\ Return(q, o)
        /\ \/ o = Out("error", 0, None, 0) \/ o = HandedOn
           \/ /\ obj[rq[q].e].ver # 0
              /\ \E i \in DOMAIN obj[rq[q].e].val :
                   /\ MatchVaryHeaders(Header(rq[q].variant), obj[rq[q].e].val[i].vary)
                   /\ o = Out("stale", 200, obj[rq[q].e].val[i].body, gen[rq[q].key])
  BY FailureReturns
<1>3. PICK n \in Request :
        /\ rq' = [rq EXCEPT ![q] = n] /\ n.e = None
        /\ n.key = rq[q].key /\ n.variant = rq[q].variant /\ n.out = o
  BY <1>2, ReturnMakes
<1>4. DbMoves /\ DbNextOK /\ OwnEntryOnly(q)
  BY <1>1, DbStill DEF OwnEntryOnly
<1>5. rq[q].key \in Keys /\ rq[q].variant \in Variants /\ rq[q].e # None
  BY <1>1, HeldTypes, Constants
<1>6. ServedOK(n)
  <2>1. CASE o = Out("error", 0, None, 0) \/ o = HandedOn
    <3>1. o.src \in {"error", "upstream"}
      BY <2>1 DEF Out, HandedOn
    <3> QED
      BY <1>3, <3>1, NotFromCache
  <2>2. ASSUME obj[rq[q].e].ver # 0, NEW i \in DOMAIN obj[rq[q].e].val,
               MatchVaryHeaders(Header(rq[q].variant), obj[rq[q].e].val[i].vary),
               o = Out("stale", 200, obj[rq[q].e].val[i].body, gen[rq[q].key])
        PROVE  ServedOK(n)
    <3>1. PICK s : s = obj[rq[q].e].val[i]
      OBVIOUS
    <3>2. HolderOK(rq[q], obj[rq[q].e], db[rq[q].key])
      BY <1>5 DEF StoreInv, HoldersOK
    <3>3. StoredOK(rq[q].key, s)
      BY <2>2, <3>1, <3>2 DEF HolderOK, ValOK
    <3>4. o.src = "stale" /\ o.body = s.body
      BY <2>2, <3>1 DEF Out
    <3>5. n.key \in Keys /\ n.variant \in Variants /\ StoredOK(n.key, s)
      BY <1>3, <1>5, <3>3
    <3>6. MatchVaryHeaders(Header(n.variant), s.vary)
      BY <1>3, <2>2, <3>1
    <3> QED
      BY <1>3, <3>4, <3>5, <3>6, MatchedIsServed
  <2> QED
    BY <1>2, <2>1, <2>2
<1> QED
  BY <1>1, <1>3, <1>4, <1>6, EndStore

\* A request that goes on with the entry it has, without a response to store.
LEMMA GoesOnStore ==
    ASSUME TypeInv, StoreInv, NEW q \in Requests, rq[q].e # None, NEW n,
           n.st \notin Ingesting, n.e = rq[q].e, n.key = rq[q].key, n.variant = rq[q].variant,
           n.hasCond = rq[q].hasCond, n.out = rq[q].out,
           rq' = [rq EXCEPT ![q] = n], SameWorld, UNCHANGED <<db, obj>>
    PROVE  StoreInv'
<1>1. HolderOK(rq[q], obj[rq[q].e], db[rq[q].key]) /\ ServedOK(rq[q])
  BY DEF StoreInv, HoldersOK
<1>2. HolderOK(n, obj'[n.e], db'[n.key])
  BY <1>1 DEF HolderOK
<1>3. ServedOK(n)
  BY <1>1 DEF ServedOK
<1>4. DbMoves /\ DbNextOK /\ OwnEntryOnly(q)
  BY DbStill DEF OwnEntryOnly
<1> QED
  BY <1>2, <1>3, <1>4, StoreMoves

LEMMA NextHopStore ==
    ASSUME TypeInv, StoreInv, NEW q \in Requests, NextHop(q)
    PROVE  StoreInv'
<1>1. rq[q].st \in {"sent", "resent"} /\ SameWorld /\ UNCHANGED <<db, obj>>
  BY NextHopEffect DEF SameWorld
<1>2. PICK n \in Request :
        /\ rq' = [rq EXCEPT ![q] = n] /\ n.st = rq[q].st /\ n.e = rq[q].e
        /\ n.key = rq[q].key /\ n.variant = rq[q].variant /\ n.hasCond = rq[q].hasCond
        /\ n.out = rq[q].out
  BY NextHopEffect
<1>3. n.st \notin Ingesting /\ rq[q].st \in Holding
  BY <1>1, <1>2 DEF Ingesting, Holding
<1>4. rq[q].e # None
  BY <1>3, HeldTypes, Constants
<1> QED
  BY <1>1, <1>2, <1>3, <1>4, GoesOnStore

LEMMA RefreshStore ==
    ASSUME TypeInv, ValidatorInv, StoreInv, NEW q \in Requests, rq[q].st = "sent", rq[q].hasCond,
           NotModified(rq[q]), SameWorld,
           NEW i, i = updateCache(obj[rq[q].e].val, Etag304(rq[q]), Lm304(rq[q])), i # 0,
           refreshResponseAndServe(q, i, Etag304(rq[q]), Lm304(rq[q]))
    PROVE  StoreInv'
<1>1. rq[q].st \in Holding
  BY DEF Holding
<1>2. /\ obj[rq[q].e].val \in Seq(Response) /\ obj[rq[q].e] \in Entry /\ rq[q].e \in Entries
      /\ rq[q].key \in Keys /\ rq[q].variant \in Variants /\ rq[q].e # None
  BY <1>1, HeldTypes, Constants
<1>3. SentOK(rq[q], obj[rq[q].e]) /\ HolderOK(rq[q], obj[rq[q].e], db[rq[q].key])
  BY <1>2 DEF ValidatorInv, StoreInv, HoldersOK
<1>4. ValOK(rq[q].key, obj[rq[q].e].val) /\ since[rq[q].key] <= gen[rq[q].key]
  BY <1>2, <1>3 DEF HolderOK, StoreInv
<1>5. /\ i \in DOMAIN obj[rq[q].e].val
      /\ TellsApart(style[rq[q].key]) => obj[rq[q].e].val[i].body = Current(rq[q])
  BY <1>3, <1>4, RefreshedIsCurrent
<1>6. PICK etag \in Etags \cup {None}, lm \in Dates : etag = Etag304(rq[q]) /\ lm = Lm304(rq[q])
  BY <1>1, ValidatorTypes
<1>7. PICK val \in Seq(Response), o \in Outs : Refreshed(q, i, etag, lm, val, o)
  BY <1>1, <1>5, <1>6, RefreshEffect
<1>8. Refreshed(q, i, Etag304(rq[q]), Lm304(rq[q]), val, o)
  BY <1>6, <1>7
<1>9. ValOK(rq[q].key, val)
  BY <1>3, <1>4, <1>8, RefreshedValOK
<1>10. /\ obj' = [obj EXCEPT ![rq[q].e] = [val |-> val, ver |-> obj[rq[q].e].ver]]
       /\ Save(rq[q].key, obj[rq[q].e].ver, val)
       /\ Return(q, o)
       /\ val[i].body = obj[rq[q].e].val[i].body
       /\ o \in {Out("revalidated", 200, val[i].body, gen[rq[q].key]),
                 Out("panic", 0, None, gen[rq[q].key])}
  BY <1>7 DEF Refreshed
<1>11. [val |-> val, ver |-> obj[rq[q].e].ver] \in Entry
  BY <1>2 DEF Entry
<1>12. OwnEntryOnly(q)
  BY <1>2, <1>10, <1>11 DEF OwnEntryOnly
<1>13. DbMoves /\ DbNextOK
  <2>1. PICK k, ver : k = rq[q].key /\ ver = obj[rq[q].e].ver /\ k \in Keys
    BY <1>2
  <2> QED
    BY <1>9, <1>10, <2>1, SaveMoves
<1>14. PICK n \in Request :
         /\ rq' = [rq EXCEPT ![q] = n] /\ n.e = None
         /\ n.key = rq[q].key /\ n.variant = rq[q].variant /\ n.out = o
  <2>1. Return(q, o)
    BY <1>10
  <2> QED
    BY <2>1, ReturnMakes
<1>15. ServedOK(n)
  <2>1. CASE o = Out("panic", 0, None, gen[rq[q].key])
    <3>1. o.src = "panic"
      BY <2>1 DEF Out
    <3> QED
      BY <1>14, <3>1, NotFromCache
  <2>2. CASE o = Out("revalidated", 200, val[i].body, gen[rq[q].key])
    <3>1. o.src = "revalidated" /\ o.body = val[i].body /\ o.gen = gen[rq[q].key]
      BY <2>2 DEF Out
    <3>2. StoredOK(rq[q].key, val[i])
      BY <1>5, <1>7, <1>9 DEF Refreshed, ValOK
    <3>3. val[i].body.key = rq[q].key
      BY <3>2 DEF StoredOK
    <3>4. TellsApart(style[rq[q].key]) => o.body = Body(rq[q].key, rq[q].variant, o.gen)
      BY <1>5, <1>10, <3>1 DEF Current
    <3>5. Body(rq[q].key, rq[q].variant, o.gen).variant = VariantOf(rq[q].key, rq[q].variant)
      BY DEF Body
    <3> QED
      BY <1>2, <1>14, <3>1, <3>3, <3>4, <3>5 DEF ServedOK
  <2> QED
    BY <1>10, <2>1, <2>2
<1> QED
  BY <1>12, <1>13, <1>14, <1>15, EndStore

LEMMA NotModifiedStore ==
    ASSUME TypeInv, ValidatorInv, StoreInv, NEW q \in Requests, AnswerNotModified(q)
    PROVE  StoreInv'
<1>1. PICK i : i = updateCache(obj[rq[q].e].val, Etag304(rq[q]), Lm304(rq[q]))
  OBVIOUS
<1>2. Waiting(q) /\ NotModified(rq[q]) /\ SameWorld
  BY <1>1, NotModifiedCases DEF SameWorld
<1>3. rq[q].st \in Holding
  BY <1>2, WaitingHolds
<1>4. gen[rq[q].key] \in 0 .. MaxGen /\ rq[q].e # None
  BY <1>3, HeldTypes, Constants
<1>5. ASSUME NEW o \in Outs, Return(q, o), UNCHANGED <<db, obj>>, o.src \in {"panic", "upstream"}
      PROVE  StoreInv'
  <2>1. PICK n \in Request : rq' = [rq EXCEPT ![q] = n] /\ n.e = None /\ n.out = o
    BY <1>5, ReturnMakes
  <2>2. ServedOK(n) /\ DbMoves /\ DbNextOK /\ OwnEntryOnly(q)
    BY <1>5, <2>1, NotFromCache, DbStill DEF OwnEntryOnly
  <2> QED
    BY <1>2, <2>1, <2>2, EndStore
<1>6. ASSUME NEW o, o = Out("panic", 0, None, gen[rq[q].key])
             \/ o = Out("upstream", 304, None, gen[rq[q].key])
      PROVE  o \in Outs /\ o.src \in {"panic", "upstream"}
  <2>1. PICK g \in 0 .. MaxGen : g = gen[rq[q].key]
    BY <1>4
  <2>2. o \in Outs
    BY <1>6, <2>1, UpstreamOutTypes
  <2>3. o.src \in {"panic", "upstream"}
    BY <1>6 DEF Out
  <2> QED
    BY <2>2, <2>3
<1>7. CASE Return(q, Out("panic", 0, None, gen[rq[q].key])) /\ UNCHANGED <<db, clock, obj>>
  <2>1. PICK o : o = Out("panic", 0, None, gen[rq[q].key])
    OBVIOUS
  <2> QED
    BY <1>5, <1>6, <1>7, <2>1
<1>8. CASE Return(q, Out("upstream", 304, None, gen[rq[q].key])) /\ UNCHANGED <<db, clock, obj>>
  <2>1. PICK o : o = Out("upstream", 304, None, gen[rq[q].key])
    OBVIOUS
  <2> QED
    BY <1>5, <1>6, <1>8, <2>1
<1>9. CASE Retry(q)
  <2>1. PICK n \in Request :
          /\ rq' = [rq EXCEPT ![q] = n] /\ n.st = "resent"
          /\ n.key = rq[q].key /\ n.variant = rq[q].variant /\ n.e = rq[q].e
          /\ n.hasCond = rq[q].hasCond /\ n.out = rq[q].out
    BY <1>2, <1>9, RetryEffect
  <2>2. n.st \notin Ingesting /\ UNCHANGED <<db, obj>>
    BY <1>9, <2>1 DEF Ingesting, Retry
  <2> QED
    BY <1>2, <1>4, <2>1, <2>2, GoesOnStore
<1>10. CASE /\ rq[q].st = "sent" /\ rq[q].hasCond /\ i # 0
            /\ refreshResponseAndServe(q, i, Etag304(rq[q]), Lm304(rq[q]))
  BY <1>1, <1>2, <1>10, RefreshStore
<1> QED
  BY <1>1, <1>7, <1>8, <1>9, <1>10, NotModifiedCases

LEMMA AnswerOKStore ==
    ASSUME TypeInv, StoreInv, NEW q \in Requests, AnswerOK(q)
    PROVE  StoreInv'
<1>1. Waiting(q) /\ SameWorld /\ UNCHANGED <<db, obj>> /\ Delivered(rq[q]) \in Outs
  BY AnswerOKEffect DEF SameWorld
<1>2. rq[q].st \in Holding
  BY <1>1, WaitingHolds
<1>3. rq[q].key \in Keys /\ rq[q].variant \in Variants /\ rq[q].e # None
  BY <1>2, HeldTypes, Constants
<1>4. Delivered(rq[q]).src = "upstream"
  BY DEF Delivered, Out
<1>5. DbMoves /\ DbNextOK /\ OwnEntryOnly(q)
  BY <1>1, DbStill DEF OwnEntryOnly
<1>6. CASE Return(q, Delivered(rq[q]))
  <2>1. PICK o \in Outs : o = Delivered(rq[q])
    BY <1>1
  <2>2. PICK n \in Request : rq' = [rq EXCEPT ![q] = n] /\ n.e = None /\ n.out = o
    BY <1>6, <2>1, ReturnMakes
  <2>3. ServedOK(n)
    BY <1>4, <2>1, <2>2, NotFromCache
  <2> QED
    BY <1>1, <1>5, <2>2, <2>3, EndStore
<1>7. ASSUME NEW n \in Request, rq' = [rq EXCEPT ![q] = n],
             n.resp = CachedResponse(rq[q]), n.out = Delivered(rq[q]),
             n.key = rq[q].key, n.variant = rq[q].variant, n.e = rq[q].e,
             n.hasCond = rq[q].hasCond
      PROVE  StoreInv'
  <2>1. PICK r, s : r = rq[q] /\ s = CachedResponse(r)
    OBVIOUS
  <2>2. UpstreamType /\ since \in [Keys -> 0 .. MaxGen] /\ since[r.key] <= gen[r.key]
    BY <1>3, <2>1, TypeParts DEF TypeInv, StoreType, StoreInv
  <2>3. /\ StoredOK(r.key, s) /\ s.vary = VaryOf(r.key, r.variant)
        /\ s.body.gen = gen[r.key] /\ s.born = epoch
    BY <1>3, <2>1, <2>2, CachedStored
  <2>4. HolderOK(r, obj[r.e], db[r.key])
    BY <1>3, <2>1 DEF StoreInv, HoldersOK
  <2>5. obj[r.e].ver # 0 =>
          \A i \in DOMAIN obj[r.e].val : /\ obj[r.e].val[i].body.gen <= s.body.gen
                                         /\ obj[r.e].val[i].born <= s.born
    BY <2>3, <2>4 DEF HolderOK, ValOK, StoredOK
  <2>6. HolderOK(n, obj[r.e], db[r.key])
    BY <1>7, <2>1, <2>3, <2>4, <2>5 DEF HolderOK
  <2>7. HolderOK(n, obj'[n.e], db'[n.key])
    BY <1>1, <1>7, <2>1, <2>6
  <2>8. ServedOK(n)
    BY <1>4, <1>7, NotFromCache
  <2> QED
    BY <1>1, <1>5, <1>7, <2>7, <2>8, StoreMoves
<1> QED
  BY <1>6, <1>7, AnswerOKEffect

LEMMA IngestRenameStore ==
    ASSUME TypeInv, StoreInv, NEW q \in Requests, IngestRename(q)
    PROVE  StoreInv'
<1>1. rq[q].st = "ingest" /\ SameWorld /\ UNCHANGED <<db, obj>>
  BY IngestRenameEffect DEF SameWorld
<1>2. PICK n \in Request :
        /\ rq' = [rq EXCEPT ![q] = n] /\ n.st = "renamed"
        /\ n.key = rq[q].key /\ n.variant = rq[q].variant /\ n.e = rq[q].e
        /\ n.hasCond = rq[q].hasCond /\ n.resp = rq[q].resp /\ n.out = rq[q].out
  BY IngestRenameEffect
<1>3. rq[q].st \in Holding /\ rq[q].st \in Ingesting /\ n.st \in Ingesting
  BY <1>1, <1>2 DEF Holding, Ingesting
<1>4. rq[q].e # None
  BY <1>3, HeldTypes, Constants
<1>5. HolderOK(rq[q], obj[rq[q].e], db[rq[q].key]) /\ ServedOK(rq[q])
  BY <1>4 DEF StoreInv, HoldersOK
<1>6. HolderOK(n, obj'[n.e], db'[n.key])
  BY <1>1, <1>2, <1>3, <1>5 DEF HolderOK
<1>7. ServedOK(n)
  BY <1>2, <1>5 DEF ServedOK
<1>8. DbMoves /\ DbNextOK /\ OwnEntryOnly(q)
  BY <1>1, DbStill DEF OwnEntryOnly
<1> QED
  BY <1>1, <1>2, <1>6, <1>7, <1>8, StoreMoves

\* What IngestSave writes, in order and for the request's own headers.
LEMMA SavedValOK ==
    ASSUME TypeInv, StoreInv, NEW q \in Requests, rq[q].st = "renamed", NEW val \in Seq(Response),
           \/ /\ obj[rq[q].e].ver = 0 /\ DOMAIN val = {1} /\ val[1] = rq[q].resp
           \/ /\ obj[rq[q].e].ver # 0
              /\ val = WithResponse(obj[rq[q].e].val, rq[q].variant, rq[q].resp)
    PROVE  ValOK(rq[q].key, val)
<1>1. rq[q].st \in Holding /\ rq[q].st \in Ingesting
  BY DEF Holding, Ingesting
<1>2. /\ rq[q].key \in Keys /\ rq[q].variant \in Variants /\ rq[q].e # None
      /\ obj[rq[q].e].val \in Seq(Response)
  BY <1>1, HeldTypes, Constants
<1>3. rq[q].resp \in Response
  BY <1>1 DEF TypeInv, RequestType, RequestOK
<1>4. HolderOK(rq[q], obj[rq[q].e], db[rq[q].key])
  BY <1>2 DEF StoreInv, HoldersOK
<1>5. StoredOK(rq[q].key, rq[q].resp) /\ rq[q].resp.vary = VaryOf(rq[q].key, rq[q].variant)
  BY <1>1, <1>4 DEF HolderOK
<1>6. CASE obj[rq[q].e].ver = 0
  <2>1. DOMAIN val = {1} /\ val[1] = rq[q].resp
    BY <1>6
  <2> QED
    BY <1>5, <2>1 DEF ValOK
<1>7. CASE obj[rq[q].e].ver # 0
  <2>1. PICK k \in Keys, v \in Variants, old \in Seq(Response), resp \in Response :
           k = rq[q].key /\ v = rq[q].variant /\ old = obj[rq[q].e].val /\ resp = rq[q].resp
    BY <1>2, <1>3
  <2>2. ValOK(k, old)
    BY <1>4, <1>7, <2>1 DEF HolderOK
  <2>3. val = WithResponse(old, v, resp)
    BY <1>7, <2>1
  <2> QED
    BY <1>5, <2>1, <2>2, <2>3, WithResponseOK
<1> QED
  BY <1>6, <1>7

LEMMA IngestReturnsStore ==
    ASSUME TypeInv, StoreInv, NEW q \in Requests,
           IngestAbandon(q) \/ IngestBypass(q) \/ IngestSave(q)
    PROVE  StoreInv'
<1>1. /\ rq[q].st \in Ingesting /\ OwnEntryOnly(q) /\ rq[q] \in Request /\ rq[q].out \in Outs
      /\ rq' = [rq EXCEPT ![q] = Done(rq[q], rq[q].out)] /\ SameWorld
  BY IngestReturns DEF SameWorld
<1>2. rq[q].st \in Holding
  BY <1>1 DEF Ingesting, Holding
<1>3. PICK n :
        /\ rq' = [rq EXCEPT ![q] = n] /\ n.e = None
        /\ n.key = rq[q].key /\ n.variant = rq[q].variant /\ n.out = rq[q].out
  <2>1. PICK n : n = Done(rq[q], rq[q].out)
    OBVIOUS
  <2>2. n.e = None /\ n.key = rq[q].key /\ n.variant = rq[q].variant /\ n.out = rq[q].out
    BY <1>1, <2>1, DoneType
  <2> QED
    BY <1>1, <2>1, <2>2
<1>4. ServedOK(n)
  BY <1>3 DEF StoreInv, ServedOK
<1>5. DbMoves /\ DbNextOK
  <2>1. CASE IngestAbandon(q) \/ IngestBypass(q)
    BY <2>1, DbStill DEF IngestAbandon, IngestBypass
  <2>2. CASE IngestSave(q)
    <3>1. PICK k, ver : k = rq[q].key /\ ver = obj[rq[q].e].ver /\ k \in Keys
      BY <1>2, HeldTypes
    <3>2. PICK val \in Seq(Response) :
            /\ Save(rq[q].key, obj[rq[q].e].ver, val)
            /\ \/ /\ obj[rq[q].e].ver = 0 /\ DOMAIN val = {1} /\ val[1] = rq[q].resp
               \/ /\ obj[rq[q].e].ver # 0
                  /\ val = WithResponse(obj[rq[q].e].val, rq[q].variant, rq[q].resp)
      BY <2>2, IngestSaveEffect
    <3>3. rq[q].st = "renamed"
      BY <2>2, IngestSaveEffect
    <3>4. ValOK(k, val)
      BY <3>1, <3>2, <3>3, SavedValOK
    <3> QED
      BY <3>1, <3>2, <3>4, SaveMoves
  <2> QED
    BY <2>1, <2>2
<1> QED
  BY <1>1, <1>3, <1>4, <1>5, EndStore

LEMMA NewServed == ServedOK(NewRequest)
BY DEF ServedOK, NewRequest, NoOut

LEMMA OverStore ==
    ASSUME TypeInv, StoreInv, NEW q \in Requests, Over(q)
    PROVE  StoreInv'
<1>1. SameWorld /\ UNCHANGED <<db, obj>> /\ rq' = [rq EXCEPT ![q] = NewRequest]
  BY DEF Over, SameWorld
<1>2. DbMoves /\ DbNextOK /\ OwnEntryOnly(q)
  BY <1>1, DbStill DEF OwnEntryOnly
<1>3. PICK n : n = NewRequest
  OBVIOUS
<1>4. n.e = None /\ ServedOK(n)
  BY <1>3, NewRequestType, NewServed
<1> QED
  BY <1>1, <1>2, <1>3, <1>4, EndStore

LEMMA RestartStore ==
    ASSUME TypeInv, StoreInv, Restart
    PROVE  StoreInv'
<1>1. SameWorld /\ UNCHANGED db /\ \A q \in Requests : rq'[q] = NewRequest
  BY DEF Restart, SameWorld
<1>2. HoldersOK'
  BY <1>1, NewRequestType DEF HoldersOK
<1>3. DbOK'
  <2>1. ASSUME NEW k \in Keys PROVE ValOK(k, db[k].val)' /\ (db'[k].ver = 0 => db'[k].val = <<>>)
    <3>1. PICK val : val = db[k].val
      OBVIOUS
    <3>2. ValOK(k, val) /\ (db[k].ver = 0 => db[k].val = <<>>)
      BY <3>1 DEF StoreInv, DbOK
    <3>3. ValOK(k, val)'
      BY <1>1, <3>2, ValSame
    <3> QED
      BY <1>1, <3>1, <3>2, <3>3 DEF ValOK
  <2> QED
    BY <2>1 DEF DbOK
<1>4. \A q \in Requests : ServedOK(rq[q])'
  BY <1>1 DEF ServedOK, NewRequest, NoOut
<1> QED
  BY <1>1, <1>2, <1>3, <1>4 DEF StoreInv, SameWorld

\* The database alone changes.
LEMMA DbAloneStore ==
    ASSUME TypeInv, StoreInv, SameWorld, UNCHANGED <<obj, rq>>, DbMoves, DbNextOK
    PROVE  StoreInv'
<1>1. ASSUME NEW p \in Requests, rq'[p].e # None
      PROVE  HolderOK(rq[p], obj[rq[p].e], db[rq[p].key])'
  <2>1. HolderOK(rq[p], obj[rq[p].e], db[rq[p].key]) /\ rq[p].e # None
    BY <1>1 DEF StoreInv, HoldersOK
  <2>2. HolderOK(rq[p], obj[rq[p].e], db'[rq[p].key])
    BY <2>1, HolderStays
  <2>3. PICK r, ent, cur : r = rq'[p] /\ ent = obj'[rq'[p].e] /\ cur = db'[rq'[p].key]
    OBVIOUS
  <2>4. HolderOK(r, ent, cur)'
    BY <2>2, <2>3, HolderSame
  <2> QED
    BY <2>3, <2>4 DEF HolderOK
<1>2. ASSUME NEW k \in Keys PROVE ValOK(k, db[k].val)' /\ (db'[k].ver = 0 => db'[k].val = <<>>)
  <2>1. PICK val : val = db'[k].val
    OBVIOUS
  <2>2. ValOK(k, val) /\ (db'[k].ver = 0 => db'[k].val = <<>>)
    BY <2>1 DEF DbNextOK
  <2>3. ValOK(k, val)'
    BY <2>2, ValSame
  <2> QED
    BY <2>1, <2>2, <2>3 DEF ValOK
<1>3. ASSUME NEW p \in Requests PROVE ServedOK(rq[p])'
  <2>1. PICK r : r = rq[p]
    OBVIOUS
  <2>2. ServedOK(r)'
    BY <2>1, ServedSame DEF StoreInv, SameWorld
  <2> QED
    BY <2>1, <2>2 DEF ServedOK
<1> QED
  BY <1>1, <1>2, <1>3 DEF StoreInv, HoldersOK, DbOK, SameWorld

LEMMA DbSetMoves ==
    ASSUME TypeInv, StoreInv, NEW k \in Keys, NEW ent, db' = [db EXCEPT ![k] = ent],
           \/ ent.ver = 0 /\ ent.val = <<>>
           \/ ent.ver = clock + 1 /\ ValOK(k, ent.val)
    PROVE  DbMoves /\ DbNextOK
<1>1. \A j \in Keys : db'[j] = IF j = k THEN ent ELSE db[j]
  BY DEF TypeInv, StoreType
<1>2. clock \in Nat /\ clock + 1 > clock /\ clock + 1 # 0
  BY DEF TypeInv, StoreType
<1>3. ent.val = <<>> => ValOK(k, ent.val)
  BY DEF ValOK
<1>4. DbMoves
  BY <1>1, <1>2 DEF DbMoves
<1>5. \A j \in Keys : ValOK(j, db[j].val) /\ (db[j].ver = 0 => db[j].val = <<>>)
  BY DEF StoreInv, DbOK
<1>6. DbNextOK
  BY <1>1, <1>2, <1>3, <1>5 DEF DbNextOK
<1> QED
  BY <1>4, <1>6

LEMMA SweepStore ==
    ASSUME TypeInv, StoreInv, NEW k \in Keys, Sweep(k)
    PROVE  StoreInv'
<1>1. SameWorld /\ UNCHANGED <<obj, rq>>
  BY SweepEffect DEF SameWorld
<1>2. CASE db' = [db EXCEPT ![k] = NoEntry]
  <2>1. PICK ent : ent = NoEntry
    OBVIOUS
  <2>2. ent.ver = 0 /\ ent.val = <<>>
    BY <2>1, NoEntryType
  <2>3. DbMoves /\ DbNextOK
    BY <1>2, <2>1, <2>2, DbSetMoves
  <2> QED
    BY <1>1, <2>3, DbAloneStore
<1>3. CASE ~(db' = [db EXCEPT ![k] = NoEntry])
  <2>1. PICK val \in Seq(Response) :
           /\ db' = [db EXCEPT ![k] = [val |-> val, ver |-> clock + 1]]
           /\ clock' = clock + 1 /\ val # <<>>
           /\ \E f \in [DOMAIN val -> DOMAIN db[k].val] :
                /\ \A i \in DOMAIN val : val[i] = db[k].val[f[i]]
                /\ \A i, j \in DOMAIN val : f[i] = f[j] => i = j
                /\ \A i \in DOMAIN db[k].val :
                     db[k].val[i].body \in files => \E j \in DOMAIN val : f[j] = i
    BY <1>3, SweepEffect
  <2>2. PICK f \in [DOMAIN val -> DOMAIN db[k].val] :
           /\ \A i \in DOMAIN val : val[i] = db[k].val[f[i]]
           /\ \A i, j \in DOMAIN val : f[i] = f[j] => i = j
    BY <2>1
  <2>3. PICK old : old = db[k].val
    OBVIOUS
  <2>4. /\ \A i \in DOMAIN old : StoredOK(k, old[i])
        /\ AnyField \notin style[k].vary =>
             \A i, j \in DOMAIN old : old[i].vary = old[j].vary => i = j
    BY <2>3 DEF StoreInv, DbOK, ValOK
  <2>5. \A i \in DOMAIN val : f[i] \in DOMAIN old /\ val[i] = old[f[i]]
    BY <2>2, <2>3
  <2>6. ValOK(k, val)
    BY <2>2, <2>4, <2>5 DEF ValOK
  <2>7. PICK ent : ent = [val |-> val, ver |-> clock + 1]
    OBVIOUS
  <2>8. ent.ver = clock + 1 /\ ent.val = val /\ db' = [db EXCEPT ![k] = ent]
    BY <2>1, <2>7
  <2>9. DbMoves /\ DbNextOK
    BY <2>6, <2>8, DbSetMoves
  <2> QED
    BY <1>1, <2>9, DbAloneStore
<1> QED
  BY <1>2, <1>3

LEMMA RemoveKeyStore ==
    ASSUME TypeInv, StoreInv, NEW k \in Keys, RemoveKey(k)
    PROVE  StoreInv'
<1>1. SameWorld /\ UNCHANGED <<obj, rq>> /\ db' = [db EXCEPT ![k] = NoEntry]
  BY DEF SameWorld, RemoveKey
<1>2. PICK ent : ent = NoEntry
  OBVIOUS
<1>3. ent.ver = 0 /\ ent.val = <<>>
  BY <1>2, NoEntryType
<1>4. DbMoves /\ DbNextOK
  BY <1>1, <1>2, <1>3, DbSetMoves
<1> QED
  BY <1>1, <1>4, DbAloneStore

\* Upstream publishes, or an epoch ends.
WorldMoves ==
    /\ UNCHANGED style
    /\ \/ UNCHANGED <<epoch, since>> /\ \A k \in Keys : gen'[k] \in Nat /\ gen[k] <= gen'[k]
       \/ UNCHANGED gen /\ epoch' = epoch + 1

LEMMA StoredLater ==
    ASSUME TypeInv, WorldMoves, NEW k \in Keys, NEW s \in Response, StoredOK(k, s)
    PROVE  StoredOK(k, s)'
<1>1. gen[k] \in Nat /\ since[k] \in Nat /\ epoch \in Nat
  BY Constants DEF TypeInv, StoreType
<1>2. s.born \in Nat /\ s.body.gen \in Nat
  BY Constants DEF Response, Bodies
<1>3. s.body.gen <= gen'[k] /\ s.born <= epoch' /\ (s.born = epoch' => since'[k] <= s.body.gen)
  BY <1>1, <1>2 DEF WorldMoves, StoredOK
<1>4. /\ s.body.key = k
      /\ s.lm # None => s.lm = s.body.gen
      /\ s.etag # None => s.etag.tag.gen = s.body.gen
      /\ TellsApart(style[k]) => /\ s.etag # None => s.etag = Etag(s.body)
                                 /\ style[k].etag => s.etag # None
      /\ \E v \in Variants : s.vary = VaryOf(k, v) /\ s.body.variant = VariantOf(k, v)
  BY DEF StoredOK
<1>5. TellsApart(style[k])' <=> TellsApart(style[k])
  BY DEF WorldMoves, TellsApart
<1>6. \A v \in Variants : VaryOf(k, v)' = VaryOf(k, v) /\ VariantOf(k, v)' = VariantOf(k, v)
  BY DEF WorldMoves, VaryOf, VariantOf
<1>7. style' = style
  BY DEF WorldMoves
<1> QED
  BY <1>3, <1>4, <1>5, <1>6, <1>7 DEF StoredOK, Etag

LEMMA ValLater ==
    ASSUME TypeInv, WorldMoves, NEW k \in Keys, NEW val \in Seq(Response), ValOK(k, val)
    PROVE  ValOK(k, val)'
<1>1. \A i \in DOMAIN val : StoredOK(k, val[i])'
  <2>1. SUFFICES ASSUME NEW i \in DOMAIN val PROVE StoredOK(k, val[i])'
    OBVIOUS
  <2>2. val[i] \in Response /\ StoredOK(k, val[i])
    BY ResponseAt DEF ValOK
  <2> QED
    BY <2>2, StoredLater
<1>2. UNCHANGED style
  BY DEF WorldMoves
<1> QED
  BY <1>1, <1>2 DEF ValOK

LEMMA WorldStore ==
    ASSUME TypeInv, StoreInv, WorldMoves, \A k \in Keys : since'[k] <= gen'[k],
           UNCHANGED <<db, obj, rq>>
    PROVE  StoreInv'
<1>1. ASSUME NEW p \in Requests, rq'[p].e # None
      PROVE  HolderOK(rq[p], obj[rq[p].e], db[rq[p].key])'
  <2>1. PICK r, ent, cur : r = rq[p] /\ ent = obj[rq[p].e] /\ cur = db[rq[p].key]
    OBVIOUS
  <2>2. HolderOK(r, ent, cur) /\ r.e # None
    BY <1>1, <2>1 DEF StoreInv, HoldersOK
  <2>3. r.st \in Holding /\ (r.st \in Ingesting => r.resp \in Response)
    BY <2>1, <2>2 DEF TypeInv, RequestType, RequestOK
  <2>4. r.key \in Keys /\ ent.val \in Seq(Response)
    BY <2>1, <2>3, HeldTypes
  <2>5. r.st \in Ingesting => StoredOK(r.key, r.resp)'
    BY <2>2, <2>3, <2>4, StoredLater DEF HolderOK
  <2>6. ent.ver # 0 => ValOK(r.key, ent.val)'
    BY <2>2, <2>4, ValLater DEF HolderOK
  <2>7. VaryOf(r.key, r.variant)' = VaryOf(r.key, r.variant)
    BY DEF VaryOf, WorldMoves
  <2>8. HolderOK(r, ent, cur)'
    BY <2>2, <2>5, <2>6, <2>7 DEF HolderOK
  <2> QED
    BY <2>1, <2>8 DEF HolderOK
<1>2. ASSUME NEW k \in Keys PROVE ValOK(k, db[k].val)' /\ (db'[k].ver = 0 => db'[k].val = <<>>)
  <2>1. db[k].val \in Seq(Response)
    BY DEF TypeInv, StoreType, Entry
  <2>2. PICK val \in Seq(Response) : val = db[k].val
    BY <2>1
  <2>3. ValOK(k, val) /\ (db[k].ver = 0 => db[k].val = <<>>)
    BY <2>2 DEF StoreInv, DbOK
  <2>4. ValOK(k, val)'
    BY <2>3, ValLater
  <2> QED
    BY <2>2, <2>3, <2>4 DEF ValOK
<1>3. ASSUME NEW p \in Requests PROVE ServedOK(rq[p])'
  <2>1. PICK r : r = rq[p]
    OBVIOUS
  <2>2. ServedOK(r)'
    BY <2>1, ServedSame DEF StoreInv, WorldMoves
  <2> QED
    BY <2>1, <2>2 DEF ServedOK
<1> QED
  BY <1>1, <1>2, <1>3 DEF StoreInv, HoldersOK, DbOK

LEMMA EnvironmentStore ==
    ASSUME TypeInv, StoreInv, Environment
    PROVE  StoreInv'
<1>1. gen \in [Keys -> 0 .. MaxGen] /\ epoch \in Nat /\ MaxGen \in Nat
  BY Constants DEF TypeInv, StoreType
<1>2. \A k \in Keys : since[k] <= gen[k] /\ since[k] \in Nat
  BY Constants DEF StoreInv, TypeInv, StoreType
<1>3. ASSUME NEW k \in Keys, Publish(k) PROVE StoreInv'
  <2>1. gen' = [gen EXCEPT ![k] = gen[k] + 1] /\ UNCHANGED <<style, epoch, since, db, obj, rq>>
    BY <1>3 DEF Publish
  <2>2. \A j \in Keys : gen'[j] \in Nat /\ gen[j] <= gen'[j] /\ gen[j] \in Nat
    BY <1>1, <2>1
  <2>3. \A j \in Keys : since'[j] <= gen'[j]
    BY <1>2, <2>1, <2>2
  <2>4. WorldMoves
    BY <2>1, <2>2 DEF WorldMoves
  <2> QED
    BY <2>1, <2>3, <2>4, WorldStore
<1>4. CASE Tick
  <2>1. WorldMoves /\ since' = gen /\ gen' = gen /\ UNCHANGED <<db, obj, rq>>
    BY <1>4 DEF Tick, WorldMoves
  <2>2. \A j \in Keys : since'[j] <= gen'[j]
    BY <1>1, <2>1
  <2> QED
    BY <2>1, <2>2, WorldStore
<1>5. ASSUME NEW b \in files, Evict(b) PROVE StoreInv'
  <2>1. SameWorld /\ UNCHANGED <<db, obj, rq>>
    BY <1>5 DEF Evict, SameWorld
  <2> QED
    BY <2>1, DbStill, DbAloneStore
<1> QED
  BY <1>3, <1>4, <1>5, SweepStore, RemoveKeyStore, RestartStore DEF Environment

LEMMA StoreStep ==
    ASSUME ~GetMayFail, TypeInv, ValidatorInv, StoreInv, [Next]_vars
    PROVE  StoreInv'
<1>1. CASE UNCHANGED vars
  <2>1. SameWorld /\ UNCHANGED <<db, obj, rq>>
    BY <1>1 DEF vars, SameWorld
  <2> QED
    BY <2>1, DbStill, DbAloneStore
<1>2. ASSUME NEW q \in Requests, Do(q) \/ Answer(q) \/ Ingest(q) \/ Over(q)
      PROVE  StoreInv'
  BY <1>2, DoStore, NextHopStore, FailureStore, NotModifiedStore, AnswerOKStore,
     IngestRenameStore, IngestReturnsStore, OverStore DEF Answer, Ingest
<1> QED
  BY <1>1, <1>2, EnvironmentStore DEF Next

LEMMA InitStoreInv == Init => StoreInv
<1>1. SUFFICES ASSUME Init PROVE StoreInv
  OBVIOUS
<1>2. /\ UpstreamType /\ StoreType /\ epoch = 0 /\ since = gen /\ \A k \in Keys : gen[k] = 0
  BY <1>1, InitStore
<1>3. \A k \in Keys : since[k] <= gen[k]
  BY <1>2
<1>4. \A q \in Requests : rq[q] = NewRequest
  BY <1>1 DEF Init
<1>5. HoldersOK /\ \A q \in Requests : ServedOK(rq[q])
  BY <1>4, NewRequestType, NewServed DEF HoldersOK
<1>6. ASSUME NEW k \in Keys PROVE ValOK(k, db[k].val) /\ (db[k].ver = 0 => db[k].val = <<>>)
  <2>1. CASE db[k] = NoEntry
    BY <2>1, NoEntryType DEF ValOK
  <2>2. CASE ~(db[k] = NoEntry)
    <3>1. PICK left \in Seq(Variants) :
             /\ DOMAIN db[k].val = DOMAIN left
             /\ \A i \in DOMAIN left :
                  db[k].val[i] = CachedResponse([key |-> k, variant |-> left[i]])
             /\ \A j \in DOMAIN left : \A i \in 1 .. j - 1 :
                  ~MatchVaryHeaders(Header(left[j]), db[k].val[i].vary)
             /\ db[k].ver # 0
      BY <1>1, <2>2, InitStore
    <3>2. ASSUME NEW i \in DOMAIN left
          PROVE  StoredOK(k, db[k].val[i]) /\ db[k].val[i].vary = VaryOf(k, left[i])
      <4>1. left[i] \in Variants
        BY SeqDomain
      <4>2. PICK r, s : r = [key |-> k, variant |-> left[i]] /\ s = CachedResponse(r)
        OBVIOUS
      <4>3. r.key = k /\ r.variant = left[i]
        BY <4>2
      <4>4. StoredOK(r.key, s) /\ s.vary = VaryOf(r.key, r.variant)
        BY <1>2, <1>3, <4>1, <4>2, <4>3, CachedStored DEF StoreType
      <4> QED
        BY <3>1, <4>2, <4>3, <4>4
    <3>3. ASSUME AnyField \notin style[k].vary, NEW i \in DOMAIN left, NEW j \in DOMAIN left,
                 db[k].val[i].vary = db[k].val[j].vary, i < j
          PROVE  FALSE
      <4>1. i \in 1 .. j - 1
        BY <3>3, SeqDomain
      <4>2. style[k] \in Styles
        BY <1>2 DEF StoreType
      <4>3. MatchVaryHeaders(Header(left[j]), VaryOf(k, left[i]))
        BY <3>2, <3>3, <4>2, MatchIsSame
      <4> QED
        BY <3>1, <3>2, <4>1, <4>3
    <3>4. \A i, j \in DOMAIN left : i \in Nat /\ j \in Nat /\ (i < j \/ j < i \/ i = j)
      BY SeqDomain
    <3>5. AnyField \notin style[k].vary =>
            \A i, j \in DOMAIN left : db[k].val[i].vary = db[k].val[j].vary => i = j
      BY <3>3, <3>4
    <3> QED
      BY <3>1, <3>2, <3>5 DEF ValOK
  <2> QED
    BY <2>1, <2>2
<1> QED
  BY <1>3, <1>5, <1>6 DEF StoreInv, DbOK

LEMMA StoreHolds ==
    ASSUME ~GetMayFail
    PROVE  Spec => []StoreInv
<1>1. TypeInv /\ ValidatorInv /\ StoreInv /\ [Next]_vars => StoreInv'
  BY StoreStep
<1> QED
  BY <1>1, InitStoreInv, TypesHold, ValidatorsHold, PTL DEF Spec

-----------------------------------------------------------------------------
(* What a caching proxy must not do.                                       *)

(***************************************************************************)
(* If the database answers, the responses stored under a key are of that   *)
(* key and at most one of them answers any given request, in whatever      *)
(* order the requests that stored them read, answered and saved, and       *)
(* whatever Prune and the sweep took away between: OneResponsePerVariant   *)
(* (onIngest's search for the response to replace, and Save's check of     *)
(* the version).                                                           *)
(***************************************************************************)
THEOREM OneAnswerEach ==
    ASSUME ~GetMayFail
    PROVE  Spec => []OneResponsePerVariant
<1>1. TypeInv /\ StoreInv => OneResponsePerVariant
  <2>1. SUFFICES ASSUME TypeInv, StoreInv, NEW k \in Keys
                 PROVE  /\ \A i \in DOMAIN db[k].val : db[k].val[i].body.key = k
                        /\ \A v \in Variants :
                             \A i, j \in selectResponseCandidates(v, db[k].val) : i = j
    BY DEF OneResponsePerVariant
  <2>2. PICK val : val = db[k].val
    OBVIOUS
  <2>3. ValOK(k, val)
    BY <2>1, <2>2 DEF StoreInv, DbOK
  <2>4. \A i \in DOMAIN val : val[i].body.key = k
    BY <2>3 DEF ValOK, StoredOK
  <2>5. ASSUME NEW v \in Variants, NEW i \in selectResponseCandidates(v, val)
        PROVE  i \in DOMAIN val /\ val[i].vary = VaryOf(k, v) /\ AnyField \notin style[k].vary
    <3>1. i \in DOMAIN val /\ MatchVaryHeaders(Header(v), val[i].vary)
      BY <2>5 DEF selectResponseCandidates
    <3>2. StoredOK(k, val[i])
      BY <2>3, <3>1 DEF ValOK
    <3>3. val[i].vary = VaryOf(k, v)
      BY <2>1, <3>1, <3>2, MatchedIsRight
    <3>4. DOMAIN VaryOf(k, v) = style[k].vary
      BY DEF VaryOf, ExtractVaryHeaders
    <3> QED
      BY <3>1, <3>3, <3>4 DEF MatchVaryHeaders
  <2>6. \A v \in Variants : \A i, j \in selectResponseCandidates(v, val) : i = j
    BY <2>3, <2>5 DEF ValOK
  <2> QED
    BY <2>2, <2>4, <2>6
<1> QED
  BY <1>1, TypesHold, StoreHolds, PTL

(***************************************************************************)
(* If the database answers, nothing that is served from the cache belongs  *)
(* to another key: OwnKeyOnly.  A failing Get, which leaves the pooled     *)
(* entry of an earlier request in place, is the only way to that.          *)
(***************************************************************************)
THEOREM OwnKeyIfDatabaseAnswers ==
    ASSUME ~GetMayFail
    PROVE  Spec => []OwnKeyOnly
<1>1. StoreInv => OwnKeyOnly
  BY DEF StoreInv, ServedOK, OwnKeyOnly, FromCache
<1> QED
  BY <1>1, StoreHolds, PTL

(***************************************************************************)
(* If the database answers and a 304 tells the stored responses of a key   *)
(* apart, the body that is served after "304 Not Modified" is the very     *)
(* edition that upstream held when it answered: RevalidatedIsCurrent       *)
(* (updateCache and refreshResponseAndServe).  The validators of every     *)
(* variant are sent and the client's are sent along, so this is not so     *)
(* without TellsApart.                                                     *)
(***************************************************************************)
THEOREM RevalidationIsRight ==
    ASSUME ~GetMayFail, \A sty \in Styles : TellsApart(sty)
    PROVE  Spec => []RevalidatedIsCurrent
<1>1. TypeInv /\ StoreInv => RevalidatedIsCurrent
  <2>1. SUFFICES ASSUME TypeInv, StoreInv, NEW q \in Requests, rq[q].out.src = "revalidated"
                 PROVE  rq[q].out.body = Body(rq[q].key, rq[q].variant, rq[q].out.gen)
    BY DEF RevalidatedIsCurrent
  <2>2. ServedOK(rq[q])
    BY <2>1 DEF StoreInv
  <2>3. rq[q].key \in Keys
    BY <2>1, <2>2 DEF ServedOK
  <2>4. TellsApart(style[rq[q].key])
    BY <2>1, <2>3 DEF TypeInv, StoreType
  <2> QED
    BY <2>1, <2>2, <2>4 DEF ServedOK
<1> QED
  BY <1>1, TypesHold, StoreHolds, PTL

(***************************************************************************)
(* If, besides, upstream names the header that decides, spelled as Go      *)
(* spells it, then whatever is served from the cache, fresh, stale or      *)
(* revalidated, is of the variant that the request asks for:               *)
(* ServedRightVariant (selectResponseCandidates, MatchVaryHeaders).        *)
(***************************************************************************)
THEOREM VariantIsRight ==
    ASSUME ~GetMayFail, \A sty \in Styles : TellsApart(sty) /\ Spelled(sty)
    PROVE  Spec => []ServedRightVariant
<1>1. TypeInv /\ StoreInv => ServedRightVariant
  <2>1. SUFFICES ASSUME TypeInv, StoreInv, NEW q \in Requests, FromCache(q)
                 PROVE  /\ rq[q].out.body.key = rq[q].key
                        /\ rq[q].out.body.variant = VariantOf(rq[q].key, rq[q].variant)
    BY DEF ServedRightVariant
  <2>2. ServedOK(rq[q])
    BY <2>1 DEF StoreInv
  <2>3. rq[q].key \in Keys /\ rq[q].out.body.key = rq[q].key
    BY <2>1, <2>2 DEF ServedOK, FromCache
  <2>4. TellsApart(style[rq[q].key]) /\ Spelled(style[rq[q].key])
    BY <2>1, <2>3 DEF TypeInv, StoreType
  <2> QED
    BY <2>1, <2>2, <2>3, <2>4 DEF ServedOK, FromCache
<1> QED
  BY <1>1, TypesHold, StoreHolds, PTL

\* Only Do answers with what is fresh.
LEMMA OnlyDoServesFresh ==
    ASSUME TypeInv, [Next]_vars, NEW p \in Requests, rq[p].out = NoOut, rq'[p].out.src = "fresh"
    PROVE  Do(p)
<1>1. NoOut.src = "none"
  BY DEF NoOut
<1>2. ASSUME NEW q \in Requests, NEW n, rq' = [rq EXCEPT ![q] = n], ~(n.out.src = "fresh")
      PROVE  FALSE
  <2>1. rq'[p] = IF p = q THEN n ELSE rq[p]
    BY <1>2 DEF TypeInv, RequestType
  <2> QED
    BY <1>1, <1>2, <2>1
<1>3. ASSUME NEW q \in Requests, NEW o \in Outs, Return(q, o), o.src # "fresh"
      PROVE  FALSE
  <2>1. PICK n \in Request : rq' = [rq EXCEPT ![q] = n] /\ n.out = o
    BY <1>3, ReturnMakes
  <2> QED
    BY <1>2, <1>3, <2>1
<1>4. ASSUME NEW q \in Requests, NEW n, rq' = [rq EXCEPT ![q] = n], n.out = rq[q].out
      PROVE  FALSE
  <2>1. rq'[p] = IF p = q THEN n ELSE rq[p]
    BY <1>4 DEF TypeInv, RequestType
  <2> QED
    BY <1>1, <1>4, <2>1
<1>5. ASSUME NEW q \in Requests, Do(q) PROVE q = p
  <2>1. PICK n : rq' = [rq EXCEPT ![q] = n]
    BY <1>5, DoEffect
  <2>2. rq'[p] = IF p = q THEN n ELSE rq[p]
    BY <2>1 DEF TypeInv, RequestType
  <2> QED
    BY <1>1, <2>2
<1>6. ASSUME NEW q \in Requests, NextHop(q) PROVE FALSE
  <2>1. PICK n \in Request : rq' = [rq EXCEPT ![q] = n] /\ n.out = rq[q].out
    BY <1>6, NextHopEffect
  <2> QED
    BY <1>4, <2>1
<1>7. ASSUME NEW q \in Requests, AnswerFailure(q) \/ AnswerTooMany(q) \/ AnswerOther(q)
      PROVE  FALSE
  <2>1. PICK o \in Outs :
          /\ Return(q, o)
          /\ \/ o = Out("error", 0, None, 0) \/ o = HandedOn
             \/ \E i \in DOMAIN obj[rq[q].e].val :
                  o = Out("stale", 200, obj[rq[q].e].val[i].body, gen[rq[q].key])
    BY <1>7, FailureReturns
  <2>2. o.src # "fresh"
    BY <2>1 DEF Out, HandedOn
  <2> QED
    BY <1>3, <2>1, <2>2
<1>8. ASSUME NEW q \in Requests, AnswerNotModified(q) PROVE FALSE
  <2>1. PICK i : i = updateCache(obj[rq[q].e].val, Etag304(rq[q]), Lm304(rq[q]))
    OBVIOUS
  <2>2. Waiting(q)
    BY <1>8, <2>1, NotModifiedCases
  <2>3. rq[q].st \in Holding
    BY <2>2, WaitingHolds
  <2>4. obj[rq[q].e].val \in Seq(Response)
    BY <2>3, HeldTypes
  <2>5. PICK g \in 0 .. MaxGen : g = gen[rq[q].key]
    BY <2>3, HeldTypes
  <2>6. ASSUME NEW o, o = Out("panic", 0, None, g) \/ o = Out("upstream", 304, None, g),
               Return(q, o)
        PROVE  FALSE
    <3>1. o \in Outs
      BY <2>6, UpstreamOutTypes
    <3>2. o.src # "fresh"
      BY <2>6 DEF Out
    <3> QED
      BY <1>3, <2>6, <3>1, <3>2
  <2>7. ASSUME i # 0, refreshResponseAndServe(q, i, Etag304(rq[q]), Lm304(rq[q])) PROVE FALSE
    <3>1. PICK etag \in Etags \cup {None}, lm \in Dates : refreshResponseAndServe(q, i, etag, lm)
      BY <2>3, <2>7, ValidatorTypes
    <3>2. i \in DOMAIN obj[rq[q].e].val
      BY <2>1, <2>4, <2>7, UpdateCacheIndex
    <3>3. PICK val \in Seq(Response), o \in Outs : Refreshed(q, i, etag, lm, val, o)
      BY <2>3, <3>1, <3>2, RefreshEffect
    <3>4. /\ Return(q, o)
          /\ o \in {Out("revalidated", 200, val[i].body, gen[rq[q].key]),
                    Out("panic", 0, None, gen[rq[q].key])}
      BY <3>3 DEF Refreshed
    <3>5. o.src # "fresh"
      BY <3>4 DEF Out
    <3> QED
      BY <1>3, <3>4, <3>5
  <2>8. ASSUME Retry(q) PROVE FALSE
    <3>1. PICK n \in Request : rq' = [rq EXCEPT ![q] = n] /\ n.out = rq[q].out
      BY <2>2, <2>8, RetryEffect
    <3> QED
      BY <1>4, <3>1
  <2> QED
    BY <1>8, <2>1, <2>5, <2>6, <2>7, <2>8, NotModifiedCases
<1>9. ASSUME NEW q \in Requests, AnswerOK(q) PROVE FALSE
  <2>1. PICK o \in Outs : o = Delivered(rq[q])
    BY <1>9, AnswerOKEffect
  <2>2. o.src # "fresh"
    BY <2>1 DEF Delivered, Out
  <2>3. \/ Return(q, o)
        \/ \E n \in Request : rq' = [rq EXCEPT ![q] = n] /\ n.out = o
    BY <1>9, <2>1, AnswerOKEffect
  <2> QED
    BY <1>2, <1>3, <2>2, <2>3
<1>10. ASSUME NEW q \in Requests, IngestRename(q) PROVE FALSE
  <2>1. PICK n \in Request : rq' = [rq EXCEPT ![q] = n] /\ n.out = rq[q].out
    BY <1>10, IngestRenameEffect
  <2> QED
    BY <1>4, <2>1
<1>11. ASSUME NEW q \in Requests, IngestAbandon(q) \/ IngestBypass(q) \/ IngestSave(q)
       PROVE  FALSE
  <2>1. /\ rq[q] \in Request /\ rq[q].out \in Outs
        /\ rq' = [rq EXCEPT ![q] = Done(rq[q], rq[q].out)]
    BY <1>11, IngestReturns
  <2>2. PICK n : n = Done(rq[q], rq[q].out)
    OBVIOUS
  <2>3. n.out = rq[q].out
    BY <2>1, <2>2, DoneType
  <2> QED
    BY <1>4, <2>1, <2>2, <2>3
<1>12. ASSUME NEW q \in Requests, Over(q) PROVE FALSE
  <2>1. PICK n : n = NewRequest
    OBVIOUS
  <2>2. rq' = [rq EXCEPT ![q] = n] /\ n.out.src = "none"
    BY <1>1, <1>12, <2>1, NewRequestType DEF Over
  <2> QED
    BY <1>2, <2>2
<1>13. ASSUME Environment \/ UNCHANGED vars PROVE FALSE
  <2>1. UNCHANGED rq \/ Restart
    BY <1>13 DEF Environment, Publish, Sweep, RemoveKey, Tick, Evict, vars
  <2>2. CASE UNCHANGED rq
    BY <1>1, <2>2
  <2>3. CASE Restart
    <3>1. rq'[p] = NewRequest
      BY <2>3 DEF Restart
    <3> QED
      BY <1>1, <3>1, NewRequestType
  <2> QED
    BY <2>1, <2>2, <2>3
<1> QED
  BY <1>5, <1>6, <1>7, <1>8, <1>9, <1>10, <1>11, <1>12, <1>13 DEF Next, Answer, Ingest

(***************************************************************************)
(* If the database answers, what is served without asking upstream was     *)
(* upstream's edition at some moment of the current epoch, however late a  *)
(* slow download was saved and whatever was revalidated meanwhile:         *)
(* FreshIsRecent (serveFromCache, and the creation times that ingestion    *)
(* and refreshResponseAndServe record).                                    *)
(***************************************************************************)
THEOREM FreshMeansRecent ==
    ASSUME ~GetMayFail
    PROVE  Spec => FreshIsRecent
<1> DEFINE Recent == \A q \in Requests :
             rq[q].out = NoOut /\ rq'[q].out.src = "fresh" =>
                rq'[q].out.body.gen >= since[rq'[q].key]
<1>1. ASSUME TypeInv, StoreInv, [Next]_vars PROVE Recent
  <2>1. SUFFICES ASSUME NEW q \in Requests, rq[q].out = NoOut, rq'[q].out.src = "fresh"
                 PROVE  rq'[q].out.body.gen >= since[rq'[q].key]
    OBVIOUS
  <2>2. Do(q)
    BY <1>1, <2>1, OnlyDoServesFresh
  <2>3. PICK k \in Keys, v \in Variants, e \in Entries : \E own \in OwnValidators(k, v) :
          \E n : rq' = [rq EXCEPT ![q] = n] /\ DoBecomes(q, Start(k, v, own, e), n)
    BY <1>1, <2>2, DoEffect
  <2>4. PICK own \in OwnValidators(k, v) :
          \E n : rq' = [rq EXCEPT ![q] = n] /\ DoBecomes(q, Start(k, v, own, e), n)
    BY <2>3
  <2>5. PICK n : rq' = [rq EXCEPT ![q] = n] /\ DoBecomes(q, Start(k, v, own, e), n)
    BY <2>4
  <2>6. rq'[q] = n
    BY <1>1, <2>5 DEF TypeInv, RequestType
  <2>7. PICK r : r = Start(k, v, own, e)
    OBVIOUS
  <2>8. UpstreamType /\ db[k].val \in Seq(Response) /\ obj[e].val \in Seq(Response)
    BY <1>1, TypeParts DEF TypeInv, StoreType, ObjType, Entry
  <2>9. r \in Request /\ r.key = k /\ r.variant = v /\ r.e = e /\ r.out = NoOut
    BY <2>7, <2>8, StartType
  <2>10. NoOut.src = "none"
    BY DEF NoOut
  <2>11. ASSUME NEW val \in Seq(Response), n = addConditionalRequestInformation(r, val)
         PROVE  n.out = NoOut
    BY <2>9, <2>11, AddConditional
  <2>12. PICK i \in DOMAIN db[k].val :
           /\ Usable(db[k].val[i], FALSE)
           /\ n = Done(r, Out("fresh", 200, db[k].val[i].body, gen[k]))
           /\ Out("fresh", 200, db[k].val[i].body, gen[k]) \in Outs
    BY <2>1, <2>5, <2>6, <2>7, <2>8, <2>9, <2>10, <2>11 DEF DoBecomes
  <2>13. PICK s, o : s = db[k].val[i] /\ o = Out("fresh", 200, s.body, gen[k])
    OBVIOUS
  <2>14. n.out = o /\ n.key = k
    BY <2>9, <2>12, <2>13, DoneType
  <2>15. o.body = s.body
    BY <2>13 DEF Out
  <2>16. s.born = epoch
    BY <2>12, <2>13 DEF Usable
  <2>17. StoredOK(k, s)
    BY <1>1, <2>13 DEF StoreInv, DbOK, ValOK
  <2>18. since[k] <= s.body.gen
    BY <2>16, <2>17 DEF StoredOK
  <2>19. since[k] \in Int /\ s.body.gen \in Int
    BY <1>1, <2>8, <2>13, ResponseAt, Constants DEF TypeInv, StoreType, Bodies
  <2> QED
    BY <2>6, <2>14, <2>15, <2>18, <2>19
<1>2. TypeInv /\ StoreInv /\ [Next]_vars => [Recent]_vars
  BY <1>1
<1> QED
  BY <1>2, TypesHold, StoreHolds, PTL DEF Spec, FreshIsRecent

\* n may take the place of r.
AsGood(n, r) == n.vary = r.vary /\ n.body.gen >= r.body.gen /\ n.born >= r.born

Covers(new, old) == \A i \in DOMAIN old : \E j \in DOMAIN new : AsGood(new[j], old[i])

KeepsUp(k) ==
    db'[k].ver # 0 =>
        \A i \in DOMAIN db[k].val : db[k].val[i].body \in files =>
            \E j \in DOMAIN db'[k].val : AsGood(db'[k].val[j], db[k].val[i])

LEMMA AsGoodSelf ==
    ASSUME NEW val \in Seq(Response)
    PROVE  \A i \in DOMAIN val : /\ AsGood(val[i], val[i])
                                 /\ val[i].body.gen \in Nat /\ val[i].born \in Nat
<1>1. SUFFICES ASSUME NEW i \in DOMAIN val
               PROVE  AsGood(val[i], val[i]) /\ val[i].body.gen \in Nat /\ val[i].born \in Nat
  OBVIOUS
<1>2. val[i] \in Response
  BY ResponseAt
<1>3. val[i].body.gen \in Nat /\ val[i].born \in Nat
  BY <1>2, Constants DEF Response, Bodies
<1> QED
  BY <1>3 DEF AsGood

\* Save writes over what the writer has read, and over nothing else.
LEMMA SaveKeepsUp ==
    ASSUME TypeInv, StoreInv, NEW q \in Requests, rq[q].e # None, rq[q].st \in Holding, NEW val,
           Save(rq[q].key, obj[rq[q].e].ver, val),
           obj[rq[q].e].ver # 0 => Covers(val, obj[rq[q].e].val)
    PROVE  \A k \in Keys : KeepsUp(k)
<1>1. SUFFICES ASSUME NEW k \in Keys PROVE KeepsUp(k)
  OBVIOUS
<1>2. db[k].val \in Seq(Response)
  BY DEF TypeInv, StoreType, Entry
<1>3. ASSUME db'[k] = db[k] PROVE KeepsUp(k)
  BY <1>2, <1>3, AsGoodSelf DEF KeepsUp
<1>4. CASE ~CanSave(rq[q].key, obj[rq[q].e].ver) \/ k # rq[q].key
  BY <1>3, <1>4 DEF Save, TypeInv, StoreType
<1>5. CASE CanSave(rq[q].key, obj[rq[q].e].ver) /\ k = rq[q].key
  <2>1. db'[k].val = val
    BY <1>5 DEF Save, TypeInv, StoreType
  <2>2. CASE db[k].ver = 0
    <3>1. DOMAIN db[k].val = {}
      BY <2>2, <1>2, SeqDomain DEF StoreInv, DbOK
    <3> QED
      BY <3>1 DEF KeepsUp
  <2>3. CASE db[k].ver # 0
    <3>1. db[k].ver = obj[rq[q].e].ver
      BY <1>5, <2>3 DEF CanSave
    <3>2. HolderOK(rq[q], obj[rq[q].e], db[rq[q].key])
      BY DEF StoreInv, HoldersOK
    <3>3. db[k].val = obj[rq[q].e].val
      BY <1>5, <2>3, <3>1, <3>2 DEF HolderOK
    <3>4. Covers(val, db[k].val)
      BY <2>3, <3>1, <3>3
    <3> QED
      BY <2>1, <3>4 DEF Covers, KeepsUp
  <2> QED
    BY <2>2, <2>3
<1> QED
  BY <1>4, <1>5

LEMMA RefreshKeepsUp ==
    ASSUME TypeInv, ValidatorInv, StoreInv, NEW q \in Requests, rq[q].st = "sent", rq[q].hasCond,
           NotModified(rq[q]),
           NEW i, i = updateCache(obj[rq[q].e].val, Etag304(rq[q]), Lm304(rq[q])), i # 0,
           refreshResponseAndServe(q, i, Etag304(rq[q]), Lm304(rq[q]))
    PROVE  \A k \in Keys : KeepsUp(k)
<1>1. rq[q].st \in Holding
  BY DEF Holding
<1>2. obj[rq[q].e].val \in Seq(Response) /\ rq[q].e # None
  BY <1>1, HeldTypes, Constants
<1>3. HolderOK(rq[q], obj[rq[q].e], db[rq[q].key])
  BY <1>2 DEF StoreInv, HoldersOK
<1>4. ValOK(rq[q].key, obj[rq[q].e].val)
  BY <1>3 DEF HolderOK
<1>5. i \in DOMAIN obj[rq[q].e].val
  BY <1>2, UpdateCacheIndex
<1>6. PICK etag \in Etags \cup {None}, lm \in Dates : refreshResponseAndServe(q, i, etag, lm)
  BY <1>1, ValidatorTypes
<1>7. PICK val \in Seq(Response), o \in Outs : Refreshed(q, i, etag, lm, val, o)
  BY <1>1, <1>5, <1>6, RefreshEffect
<1>8. PICK old \in Seq(Response) : old = obj[rq[q].e].val
  BY <1>2
<1>9. /\ Save(rq[q].key, obj[rq[q].e].ver, val) /\ DOMAIN val = DOMAIN old
      /\ \A j \in DOMAIN val : j # i => val[j] = old[j]
      /\ val[i].body = old[i].body /\ val[i].vary = old[i].vary /\ val[i].born = epoch
  BY <1>7, <1>8 DEF Refreshed
<1>10. \A j \in DOMAIN old : AsGood(old[j], old[j]) /\ old[j].body.gen \in Nat /\ old[j].born \in Nat
  BY AsGoodSelf
<1>11. epoch \in Nat /\ old[i].born <= epoch
  <2>1. epoch \in Nat
    BY Constants DEF TypeInv, StoreType
  <2>2. StoredOK(rq[q].key, old[i])
    BY <1>4, <1>5, <1>8 DEF ValOK
  <2> QED
    BY <2>1, <2>2 DEF StoredOK
<1>12. AsGood(val[i], old[i])
  BY <1>5, <1>8, <1>9, <1>10, <1>11 DEF AsGood
<1>13. Covers(val, old)
  BY <1>9, <1>10, <1>12 DEF Covers
<1> QED
  BY <1>1, <1>2, <1>8, <1>9, <1>13, SaveKeepsUp

LEMMA IngestSaveKeepsUp ==
    ASSUME TypeInv, StoreInv, NEW q \in Requests, IngestSave(q)
    PROVE  \A k \in Keys : KeepsUp(k)
<1>1. rq[q].st = "renamed"
  BY IngestSaveEffect
<1>2. rq[q].st \in Holding /\ rq[q].st \in Ingesting
  BY <1>1 DEF Holding, Ingesting
<1>3. /\ obj[rq[q].e].val \in Seq(Response) /\ rq[q].e # None
      /\ rq[q].key \in Keys /\ rq[q].variant \in Variants
  BY <1>2, HeldTypes, Constants
<1>4. rq[q].resp \in Response
  BY <1>2 DEF TypeInv, RequestType, RequestOK
<1>5. HolderOK(rq[q], obj[rq[q].e], db[rq[q].key])
  BY <1>3 DEF StoreInv, HoldersOK
<1>6. PICK val \in Seq(Response) :
        /\ Save(rq[q].key, obj[rq[q].e].ver, val)
        /\ obj[rq[q].e].ver # 0 =>
             val = WithResponse(obj[rq[q].e].val, rq[q].variant, rq[q].resp)
  BY IngestSaveEffect
<1>7. ASSUME obj[rq[q].e].ver # 0 PROVE Covers(val, obj[rq[q].e].val)
  <2>1. PICK k \in Keys, v \in Variants, old \in Seq(Response), resp \in Response :
           k = rq[q].key /\ v = rq[q].variant /\ old = obj[rq[q].e].val /\ resp = rq[q].resp
    BY <1>3, <1>4
  <2>2. val = WithResponse(old, v, resp)
    BY <1>6, <1>7, <2>1
  <2>3. PICK n \in DOMAIN val : Stores(old, v, resp, val, n)
    BY <2>2, WithResponseShape
  <2>4. /\ val[n] = resp /\ DOMAIN val = DOMAIN old \cup {n}
        /\ \A j \in DOMAIN old \ {n} : val[j] = old[j]
        /\ n \in DOMAIN old => n \in selectResponseCandidates(v, old)
    BY <2>3 DEF Stores
  <2>5. \A j \in DOMAIN old : AsGood(old[j], old[j]) /\ old[j].body.gen \in Nat /\ old[j].born \in Nat
    BY AsGoodSelf
  <2>6. ValOK(k, old) /\ resp.vary = VaryOf(k, v)
    BY <1>2, <1>5, <1>7, <2>1 DEF HolderOK
  <2>7. \A j \in DOMAIN old : old[j].body.gen <= resp.body.gen /\ old[j].born <= resp.born
    BY <1>2, <1>5, <1>7, <2>1 DEF HolderOK
  <2>8. resp.body.gen \in Nat /\ resp.born \in Nat
    BY Constants DEF Response, Bodies
  <2>9. ASSUME n \in DOMAIN old PROVE AsGood(resp, old[n])
    <3>1. MatchVaryHeaders(Header(v), old[n].vary)
      BY <2>4, <2>9 DEF selectResponseCandidates
    <3>2. StoredOK(k, old[n])
      BY <2>6, <2>9 DEF ValOK
    <3>3. old[n].vary = VaryOf(k, v)
      BY <3>1, <3>2, MatchedIsRight
    <3> QED
      BY <2>5, <2>6, <2>7, <2>8, <2>9, <3>3 DEF AsGood
  <2>10. Covers(val, old)
    BY <2>4, <2>5, <2>9 DEF Covers
  <2> QED
    BY <2>1, <2>10
<1> QED
  BY <1>2, <1>3, <1>6, <1>7, SaveKeepsUp

LEMMA SweepKeepsUp ==
    ASSUME TypeInv, StoreInv, NEW k \in Keys, Sweep(k) \/ RemoveKey(k)
    PROVE  \A j \in Keys : KeepsUp(j)
<1>1. db \in [Keys -> Entry]
  BY DEF TypeInv, StoreType
<1>2. \A j \in Keys : db[j].val \in Seq(Response)
  BY <1>1 DEF Entry
<1>3. ASSUME NEW j \in Keys, db'[j] = db[j] PROVE KeepsUp(j)
  BY <1>2, <1>3, AsGoodSelf DEF KeepsUp
<1>4. CASE db' = [db EXCEPT ![k] = NoEntry]
  <2>1. db'[k] = NoEntry /\ \A j \in Keys : j # k => db'[j] = db[j]
    BY <1>1, <1>4
  <2> QED
    BY <1>3, <2>1, NoEntryType DEF KeepsUp
<1>5. CASE ~(db' = [db EXCEPT ![k] = NoEntry])
  <2>1. PICK val \in Seq(Response) :
           /\ db' = [db EXCEPT ![k] = [val |-> val, ver |-> clock + 1]]
           /\ clock' = clock + 1 /\ val # <<>>
           /\ \E f \in [DOMAIN val -> DOMAIN db[k].val] :
                /\ \A i \in DOMAIN val : val[i] = db[k].val[f[i]]
                /\ \A i, j \in DOMAIN val : f[i] = f[j] => i = j
                /\ \A i \in DOMAIN db[k].val :
                     db[k].val[i].body \in files => \E j \in DOMAIN val : f[j] = i
    BY <1>5, SweepEffect DEF RemoveKey
  <2>2. PICK f \in [DOMAIN val -> DOMAIN db[k].val] :
           /\ \A i \in DOMAIN val : val[i] = db[k].val[f[i]]
           /\ \A i \in DOMAIN db[k].val :
                db[k].val[i].body \in files => \E j \in DOMAIN val : f[j] = i
    BY <2>1
  <2>3. db'[k].val = val /\ \A j \in Keys : j # k => db'[j] = db[j]
    BY <1>1, <2>1
  <2>4. PICK old \in Seq(Response) : old = db[k].val
    BY <1>2
  <2>5. \A i \in DOMAIN old : AsGood(old[i], old[i])
    BY AsGoodSelf
  <2>6. ASSUME NEW i \in DOMAIN old, old[i].body \in files
        PROVE  \E j \in DOMAIN val : AsGood(val[j], old[i])
    <3>1. PICK j \in DOMAIN val : f[j] = i
      BY <2>2, <2>4, <2>6
    <3>2. val[j] = old[i]
      BY <2>2, <2>4, <3>1
    <3> QED
      BY <2>5, <3>2
  <2>7. KeepsUp(k)
    BY <2>3, <2>4, <2>6 DEF KeepsUp
  <2> QED
    BY <1>3, <2>3, <2>7
<1> QED
  BY <1>4, <1>5

(***************************************************************************)
(* If the database answers, concurrent requests do not undo each other's   *)
(* work: while its body is in the cache and its key is not removed, a      *)
(* stored response is only ever replaced by one for the same headers that  *)
(* is neither an older edition nor staler: StoredNeverRegresses (Save      *)
(* with the version that was read, refreshResponseAndServe, onIngest, and  *)
(* the sweep of cache.go).                                                 *)
(***************************************************************************)
THEOREM NothingRegresses ==
    ASSUME ~GetMayFail
    PROVE  Spec => StoredNeverRegresses
<1> DEFINE Upward == \A k \in Keys : \A i \in DOMAIN db[k].val :
             LET r == db[k].val[i]
             IN  r.body \in files /\ db'[k].ver # 0 =>
                    \E j \in DOMAIN db'[k].val :
                        LET n == db'[k].val[j]
                        IN  n.vary = r.vary /\ n.body.gen >= r.body.gen /\ n.born >= r.born
<1>1. ASSUME TypeInv, ValidatorInv, StoreInv, [Next]_vars PROVE \A k \in Keys : KeepsUp(k)
  <2>1. ASSUME UNCHANGED db PROVE \A k \in Keys : KeepsUp(k)
    <3>1. \A k \in Keys : db[k].val \in Seq(Response)
      BY <1>1 DEF TypeInv, StoreType, Entry
    <3> QED
      BY <2>1, <3>1, AsGoodSelf DEF KeepsUp
  <2>2. ASSUME NEW q \in Requests, AnswerNotModified(q) PROVE \A k \in Keys : KeepsUp(k)
    <3>1. PICK i : i = updateCache(obj[rq[q].e].val, Etag304(rq[q]), Lm304(rq[q]))
      OBVIOUS
    <3>2. \/ UNCHANGED db
          \/ /\ NotModified(rq[q]) /\ rq[q].st = "sent" /\ rq[q].hasCond /\ i # 0
             /\ refreshResponseAndServe(q, i, Etag304(rq[q]), Lm304(rq[q]))
      BY <1>1, <2>2, <3>1, NotModifiedCases DEF Retry
    <3> QED
      BY <1>1, <2>1, <3>1, <3>2, RefreshKeepsUp
  <2>3. ASSUME NEW q \in Requests, IngestSave(q) PROVE \A k \in Keys : KeepsUp(k)
    BY <1>1, <2>3, IngestSaveKeepsUp
  <2>4. ASSUME NEW k \in Keys, Sweep(k) \/ RemoveKey(k) PROVE \A j \in Keys : KeepsUp(j)
    BY <1>1, <2>4, SweepKeepsUp
  <2>5. ASSUME NEW q \in Requests,
               Do(q) \/ NextHop(q) \/ AnswerFailure(q) \/ AnswerTooMany(q) \/ AnswerOther(q)
               \/ AnswerOK(q) \/ IngestAbandon(q) \/ IngestBypass(q) \/ IngestRename(q) \/ Over(q)
        PROVE  UNCHANGED db
    BY <2>5 DEF Do, NextHop, AnswerFailure, AnswerTooMany, AnswerOther, AnswerOK,
                IngestAbandon, IngestBypass, IngestRename, Over
  <2>6. ASSUME \/ \E k \in Keys : Publish(k)
               \/ Tick \/ Restart \/ UNCHANGED vars
               \/ \E b \in files : Evict(b)
        PROVE  UNCHANGED db
    BY <2>6 DEF Publish, Tick, Restart, vars, Evict
  <2> QED
    BY <1>1, <2>1, <2>2, <2>3, <2>4, <2>5, <2>6 DEF Next, Answer, Ingest, Environment
<1>2. TypeInv /\ ValidatorInv /\ StoreInv /\ [Next]_vars => [Upward]_vars
  BY <1>1 DEF KeepsUp, AsGood
<1> QED
  BY <1>2, TypesHold, ValidatorsHold, StoreHolds, PTL DEF Spec, StoredNeverRegresses
=============================================================================
