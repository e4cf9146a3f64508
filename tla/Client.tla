------------------------------- MODULE Client -------------------------------
(***************************************************************************)
(* internal/httpclient/client.go: Client.Do, the life of a GET or HEAD     *)
(* request.  Requests run concurrently and share the database (a register  *)
(* per key with versions: VersionedStore), the file cache (a set of whole  *)
(* bodies: BlobStore), and a pool of database entries.  Files disappear    *)
(* under them (Prune) and entries shrink (the sweep of cache.go).          *)
(*                                                                         *)
(* A body is [key, variant, gen]: what upstream holds under key for the    *)
(* requests of that variant, in its gen-th edition.  The body stands for   *)
(* its own hash, its edition for its Last-Modified time, and freshness     *)
(* for having been obtained in the current epoch.                          *)
(***************************************************************************)
EXTENDS HttpCaching

CONSTANTS
    Requests,       \* the goroutines that handle requests, one request at a time
    Keys,           \* method and URL
    Variants,       \* values of the one request header that responses vary on
    Styles,         \* how upstream answers: see Style
    Entries,        \* the objects of the pool, as many as it needs
    GetMayFail,     \* the database may fail to answer a Get
    Conditional,    \* clients may send validators of their own
    Before,         \* variants of which an earlier run left responses, as sequences
    Hops,           \* number of upstream caches tried before upstream itself
    MaxGen,         \* bound: editions of a resource
    MaxEpoch,       \* bound: how often everything becomes stale
    MaxClock        \* bound: no new request after so many writes to the database

\* etag, etag304: responses, and not-modified answers, carry an Etag; lm: all
\* carry a Last-Modified; vary: the fields listed in Vary; mr: must-revalidate
\* or no-cache; cacheable: IsCacheable does not refuse.
Style == [etag : BOOLEAN, etag304 : BOOLEAN, lm : BOOLEAN,
          vary : SUBSET [name : {"accept", "*"}, canonical : BOOLEAN],
          mr : BOOLEAN, cacheable : BOOLEAN]

Bodies == [key : Keys, variant : Variants \cup {None}, gen : 0 .. MaxGen]
Etags == [weak : {FALSE}, tag : Bodies]

ASSUME ClientAssumption ==
    /\ None \notin Entries \cup Etags
    /\ Styles \subseteq Style
    /\ \A s \in Before : s \in Seq(Variants) /\ IsInjective(s)
    /\ GetMayFail \in BOOLEAN /\ Conditional \in BOOLEAN
    /\ Hops \in Nat /\ MaxGen \in Nat /\ MaxEpoch \in Nat /\ MaxClock \in Nat

VARIABLES
    style,      \* style[k]: how upstream serves k
    gen,        \* gen[k]: the current edition of k at upstream
    epoch,      \* what was obtained in an earlier epoch is stale
    db,         \* db[k] = [val, ver]: stored responses of k; ver = 0: no entry
    clock,      \* last version given out
    files,      \* bodies in the file cache
    obj,        \* obj[e] = [val, ver]: contents of pool object e
    pool,       \* pool objects that nobody holds
    rq,         \* rq[q]: the request that q handles, and what it was answered
    since       \* history: since[k] is the edition of k that the epoch began with

vars == <<style, gen, epoch, db, clock, files, obj, pool, rq, since>>

NoEntry == [val |-> <<>>, ver |-> 0]
NoOut == [src |-> "none", status |-> 0, body |-> None, gen |-> 0]
NewRequest == [st |-> "new", key |-> None, variant |-> None, inm |-> {}, ims |-> None,
               e |-> None, hasCond |-> FALSE, sentInm |-> {}, sentIms |-> None, hops |-> 0,
               resp |-> None, out |-> NoOut]

-----------------------------------------------------------------------------
(* Upstream, external.  A resource that does not vary has one body for all *)
(* requests.                                                               *)

VariantOf(k, v) == IF style[k].vary = {} THEN None ELSE v
Body(k, v, g) == [key |-> k, variant |-> VariantOf(k, v), gen |-> g]
Current(r) == Body(r.key, r.variant, gen[r.key])
Etag(b) == [weak |-> FALSE, tag |-> b]

\* The validators say that whoever sent them has body b.
Validates(k, b, inm, ims) ==
    IF inm # {} THEN style[k].etag /\ Etag(b) \in inm
    ELSE ims # None /\ style[k].lm /\ b.gen <= ims

NotModified(r) == Validates(r.key, Current(r), r.sentInm, r.sentIms)

\* Validators a client may send of its own: none, or those of an edition.
OwnValidators(k, v) ==
    LET known == IF Conditional THEN 0 .. gen[k] ELSE {}
    IN  {<<{}, None>>}
        \cup {<<{Etag(Body(k, v, g))}, None>> : g \in IF style[k].etag THEN known ELSE {}}
        \cup {<<{}, g>> : g \in IF style[k].lm THEN known ELSE {}}

-----------------------------------------------------------------------------
Header(v) == [accept |-> <<<<v>>>>]

\* What would be stored of the answer to r.
CachedResponse(r) ==
    [body |-> Current(r),
     vary |-> ExtractVaryHeaders(Header(r.variant), style[r.key].vary),
     etag |-> IF style[r.key].etag THEN Etag(Current(r)) ELSE None,
     lm |-> IF style[r.key].lm THEN gen[r.key] ELSE None,
     mr |-> style[r.key].mr,
     born |-> epoch]

\* Responses stored one after the other, none for the headers of another.
Successive(val, left) ==
    \A j \in DOMAIN left : \A i \in 1 .. j - 1 : ~MatchVaryHeaders(Header(left[j]), val[i].vary)

Init ==
    /\ style \in [Keys -> Styles]
    /\ gen = [k \in Keys |-> 0]
    /\ epoch = 0
    /\ \E left \in Before :
         LET kept(k) == [i \in DOMAIN left |-> CachedResponse([key |-> k, variant |-> left[i]])]
         IN  /\ \A k \in Keys : left # <<>> => style[k].cacheable /\ Successive(kept(k), left)
             /\ db = [k \in Keys |-> IF left = <<>> THEN NoEntry ELSE [val |-> kept(k), ver |-> 1]]
             /\ clock = IF left = <<>> THEN 0 ELSE 1
             /\ files = UNION {{kept(k)[i].body : i \in DOMAIN left} : k \in Keys}
    /\ obj = [e \in Entries |-> NoEntry]
    /\ pool = Entries
    /\ rq = [q \in Requests |-> NewRequest]
    /\ since = gen

-----------------------------------------------------------------------------
(* Choosing among the stored responses.                                    *)

\* Fault: Vary is not looked at.
selectResponseCandidatesAll(v, val) == DOMAIN val

selectResponseCandidates(v, val) ==
    {i \in DOMAIN val : MatchVaryHeaders(Header(v), val[i].vary)}

selectMostRecentCandidates(val, S) == {i \in S : \A j \in S : val[j].born <= val[i].born}

Least(S) == IF S = {} THEN 0 ELSE CHOOSE i \in S : \A j \in S : i <= j

\* Fault: age is not looked at.
UsableAnyAge(r, forceStale) == forceStale \/ ~r.mr

\* Fresh, and not to be revalidated each time; or upstream is of no help.
Usable(r, forceStale) == forceStale \/ (~r.mr /\ r.born = epoch)

\* Index of the response served, 0 if there is none.  A pruned body is skipped.
serveFromCache(v, val, forceStale) ==
    Least({i \in selectMostRecentCandidates(val, selectResponseCandidates(v, val)) :
              Usable(val[i], forceStale) /\ val[i].body \in files})

-----------------------------------------------------------------------------
(* The database, an atomic register per key (see Database), and the pool.  *)

\* Fault: versions are not compared.
CanSaveAlways(k, ver) == TRUE

CanSave(k, ver) == db[k].ver = 0 \/ db[k].ver = ver

\* The outcome of Save is logged, nothing more.
Save(k, ver, val) ==
    IF CanSave(k, ver)
    THEN db' = [db EXCEPT ![k] = [val |-> val, ver |-> clock + 1]] /\ clock' = clock + 1
    ELSE UNCHANGED <<db, clock>>

Out(src, status, body, g) == [src |-> src, status |-> status, body |-> body, gen |-> g]

\* An answer that is neither 200 nor 304 is handed on as it is.
HandedOn == Out("upstream", 400, None, 0)

\* The request is over and was answered o.
Done(r, o) == [NewRequest EXCEPT !.st = "done", !.key = r.key, !.variant = r.variant,
                                 !.inm = r.inm, !.ims = r.ims, !.out = o]

\* Do returns o and gives its entry back.
Return(q, o) ==
    /\ rq' = [rq EXCEPT ![q] = Done(@, o)]
    /\ pool' = pool \cup {rq[q].e}

\* addConditionalRequestInformation: the validators of all stored responses,
\* whatever variant they are of, join the client's own.
addConditionalRequestInformation(r, val) ==
    LET etags == {val[i].etag : i \in DOMAIN val} \ {None}
        lms == {val[i].lm : i \in DOMAIN val} \ {None}
        useLm == lms # {} /\ r.ims = None
    IN  [r EXCEPT !.hasCond = etags # {} \/ useLm,
                  !.sentInm = @ \cup etags,
                  !.sentIms = IF useLm THEN CHOOSE m \in lms : \A o \in lms : o <= m ELSE @]

wasOriginalRequestConditional(r) == r.inm # {} \/ r.ims # None

-----------------------------------------------------------------------------
(* Do, up to the request to upstream.                                      *)

Start(k, v, own, e) ==
    [NewRequest EXCEPT !.st = "sent", !.key = k, !.variant = v, !.inm = own[1], !.ims = own[2],
                       !.sentInm = own[1], !.sentIms = own[2], !.e = e, !.hops = Hops]

DoFound(q, r) ==
    LET found == db[r.key]
        i == serveFromCache(r.variant, found.val, FALSE)
    IN  /\ found.ver # 0
        /\ obj' = [obj EXCEPT ![r.e] = found]
        /\ \/ /\ i # 0
              /\ rq' = [rq EXCEPT ![q] = Done(r, Out("fresh", 200, found.val[i].body, gen[r.key]))]
              /\ UNCHANGED pool
           \/ /\ i = 0
              /\ rq' = [rq EXCEPT ![q] = addConditionalRequestInformation(r, found.val)]
              /\ pool' = pool \ {r.e}

DoMissing(q, r) ==
    /\ db[r.key].ver = 0
    /\ obj' = [obj EXCEPT ![r.e].ver = 0]
    /\ rq' = [rq EXCEPT ![q] = r]
    /\ pool' = pool \ {r.e}

\* Get fails and leaves the pooled entry as its last user left it.
DoGetError(q, r) ==
    /\ GetMayFail
    /\ rq' = [rq EXCEPT ![q] = IF obj[r.e].ver = 0 THEN r
                               ELSE addConditionalRequestInformation(r, obj[r.e].val)]
    /\ pool' = pool \ {r.e}
    /\ UNCHANGED obj

Do(q) ==
    /\ rq[q].st = "new" /\ clock < MaxClock
    /\ \E k \in Keys, v \in Variants, e \in pool :
         \E own \in OwnValidators(k, v) :
            LET r == Start(k, v, own, e)
            IN  DoFound(q, r) \/ DoMissing(q, r) \/ DoGetError(q, r)
    /\ UNCHANGED <<style, gen, epoch, db, clock, files, since>>

-----------------------------------------------------------------------------
(* Upstream answers; Do handles the answer.                                *)

Waiting(q) == rq[q].st \in {"sent", "resent"}

\* A stale response if there is one, else the answer o.
StaleOr(q, o) ==
    LET ent == obj[rq[q].e]
        i == IF ent.ver = 0 THEN 0 ELSE serveFromCache(rq[q].variant, ent.val, TRUE)
    IN  Return(q, IF i = 0 THEN o ELSE Out("stale", 200, ent.val[i].body, gen[rq[q].key]))

\* forwardRequestWithUpstream: only an error leads to the next upstream.
NextHop(q) ==
    /\ Waiting(q) /\ rq[q].hops > 0
    /\ rq' = [rq EXCEPT ![q].hops = @ - 1]
    /\ UNCHANGED <<style, gen, epoch, db, clock, files, obj, pool, since>>

AnswerFailure(q) ==
    /\ Waiting(q)
    /\ \/ rq[q].hops = 0 /\ StaleOr(q, Out("error", 0, None, 0))
       \/ StaleOr(q, HandedOn)
    /\ UNCHANGED <<style, gen, epoch, db, clock, files, obj, since>>

\* The second attempt does not look for a stale response.
AnswerTooMany(q) ==
    /\ Waiting(q)
    /\ \/ rq[q].st = "sent" /\ StaleOr(q, HandedOn)
       \/ rq[q].st = "resent" /\ Return(q, HandedOn)
    /\ UNCHANGED <<style, gen, epoch, db, clock, files, obj, since>>

\* Any other status: IsCacheable refuses it.
AnswerOther(q) ==
    /\ Waiting(q)
    /\ Return(q, HandedOn)
    /\ UNCHANGED <<style, gen, epoch, db, clock, files, obj, since>>

\* Fault: a 304 is about the first stored response.
updateCacheFirst(val, etag, lm) == IF val = <<>> THEN 0 ELSE 1

\* Fault: a 304 is matched by Last-Modified only.
updateCacheByDate(val, etag, lm) ==
    IF lm = None THEN 0 ELSE Least({i \in DOMAIN val : val[i].lm = lm})

\* updateCache: the stored response that the 304 with these validators is
\* about, by Etag and then by Last-Modified; 0 if there is none.
updateCache(val, etag, lm) ==
    LET byEtag == IF etag = None THEN 0 ELSE Least({i \in DOMAIN val : EtagsMatch(etag, val[i].etag)})
        byLm == IF lm = None THEN 0 ELSE Least({i \in DOMAIN val : val[i].lm = lm})
    IN  IF byEtag # 0 THEN byEtag ELSE byLm

\* The search by Etag comes to a stored response without one.
updateCachePanics(val, etag) ==
    /\ etag # None
    /\ \E i \in DOMAIN val : /\ EtagsMatchPanics(etag, val[i].etag)
                             /\ \A j \in 1 .. i - 1 : ~EtagsMatch(etag, val[j].etag)

\* refreshResponseAndServe: headers and creation time are updated and saved;
\* then the body is opened, and a pruned body is a panic.
refreshResponseAndServe(q, i, etag, lm) ==
    LET e == rq[q].e
        old == obj[e].val[i]
        new == [old EXCEPT !.etag = IF etag = None THEN @ ELSE etag,
                           !.lm = IF lm = None THEN @ ELSE lm, !.born = epoch]
        val == [obj[e].val EXCEPT ![i] = new]
        g == gen[rq[q].key]
    IN  /\ obj' = [obj EXCEPT ![e].val = val]
        /\ Save(rq[q].key, obj[e].ver, val)
        /\ Return(q, IF new.body \in files THEN Out("revalidated", 200, new.body, g)
                     ELSE Out("panic", 0, None, g))

\* Fault: the second attempt is the same as the first.
RetrySame(q) ==
    /\ rq' = [rq EXCEPT ![q].hops = Hops]
    /\ UNCHANGED <<db, clock, obj, pool>>

\* The request is sent again as the client made it.
Retry(q) ==
    /\ rq' = [rq EXCEPT ![q] = [@ EXCEPT !.st = "resent", !.sentInm = rq[q].inm,
                                         !.sentIms = rq[q].ims, !.hops = Hops]]
    /\ UNCHANGED <<db, clock, obj, pool>>

AnswerNotModified(q) ==
    LET r == rq[q]
        sty == style[r.key]
        etag == IF sty.etag304 THEN Etag(Current(r)) ELSE None
        lm == IF sty.lm THEN gen[r.key] ELSE None
        i == updateCache(obj[r.e].val, etag, lm)
        pass == Return(q, Out("upstream", 304, None, gen[r.key])) /\ UNCHANGED <<db, clock, obj>>
        fatal == r.st = "sent" /\ r.hasCond /\ updateCachePanics(obj[r.e].val, etag)
        ours == r.st = "sent" /\ r.hasCond /\ ~fatal
    IN  /\ Waiting(q) /\ NotModified(r)
        /\ \/ fatal /\ Return(q, Out("panic", 0, None, gen[r.key])) /\ UNCHANGED <<db, clock, obj>>
           \/ ours /\ i # 0 /\ refreshResponseAndServe(q, i, etag, lm)
           \/ ours /\ i = 0 /\ wasOriginalRequestConditional(r) /\ pass
           \/ ours /\ i = 0 /\ ~wasOriginalRequestConditional(r) /\ Retry(q)
           \/ ~ours /\ ~fatal /\ pass
        /\ UNCHANGED <<style, gen, epoch, files, since>>

Delivered(r) == Out("upstream", 200, Current(r), gen[r.key])

\* Fault: releaseDBEntry is not cleared.
AnswerOKReleases(q) ==
    LET r == rq[q]
    IN  /\ Waiting(q) /\ ~NotModified(r)
        /\ \/ ~style[r.key].cacheable /\ Return(q, Delivered(r))
           \/ /\ style[r.key].cacheable
              /\ rq' = [rq EXCEPT ![q] = [@ EXCEPT !.st = "ingest", !.resp = CachedResponse(r),
                                                   !.out = Delivered(r)]]
              /\ pool' = pool \cup {r.e}
        /\ UNCHANGED <<style, gen, epoch, db, clock, files, obj, since>>

AnswerOK(q) ==
    LET r == rq[q]
    IN  /\ Waiting(q) /\ ~NotModified(r)
        /\ \/ ~style[r.key].cacheable /\ Return(q, Delivered(r))
           \/ /\ style[r.key].cacheable
              /\ rq' = [rq EXCEPT ![q] = [@ EXCEPT !.st = "ingest", !.resp = CachedResponse(r),
                                                   !.out = Delivered(r)]]
              /\ UNCHANGED pool
        /\ UNCHANGED <<style, gen, epoch, db, clock, files, obj, since>>

-----------------------------------------------------------------------------
(* The body is read and closed: SetupIngestion's callbacks.                *)

\* onCleanup alone: the body was not read to its end, or could not be kept.
IngestAbandon(q) ==
    /\ rq[q].st = "ingest"
    /\ Return(q, rq[q].out)
    /\ UNCHANGED <<style, gen, epoch, db, clock, files, obj, since>>

\* No temporary file: neither callback runs, and the entry is left to the
\* garbage collector.
IngestBypass(q) ==
    /\ rq[q].st = "ingest"
    /\ rq' = [rq EXCEPT ![q] = Done(@, rq[q].out)]
    /\ UNCHANGED <<style, gen, epoch, db, clock, files, obj, pool, since>>

IngestRename(q) ==
    /\ rq[q].st = "ingest"
    /\ files' = files \cup {rq[q].resp.body}
    /\ rq' = [rq EXCEPT ![q].st = "renamed"]
    /\ UNCHANGED <<style, gen, epoch, db, clock, obj, pool, since>>

\* Fault: a response for the same headers is not replaced.
WithResponseAppended(val, v, resp) == Append(val, resp)

\* The first stored response that the request matches is replaced.
WithResponse(val, v, resp) ==
    LET i == Least(selectResponseCandidates(v, val))
    IN  IF i = 0 THEN Append(val, resp) ELSE [val EXCEPT ![i] = resp]

\* onIngest, then onCleanup.
IngestSave(q) ==
    LET r == rq[q]
        ent == obj[r.e]
        val == IF ent.ver = 0 THEN <<r.resp>> ELSE WithResponse(ent.val, r.variant, r.resp)
    IN  /\ r.st = "renamed"
        /\ obj' = IF ent.ver = 0 THEN obj ELSE [obj EXCEPT ![r.e].val = val]
        /\ Save(r.key, ent.ver, val)
        /\ Return(q, r.out)
        /\ UNCHANGED <<style, gen, epoch, files, since>>

-----------------------------------------------------------------------------
(* What happens around the requests.                                       *)

\* Upstream publishes a new edition.
Publish(k) ==
    /\ gen[k] < MaxGen
    /\ gen' = [gen EXCEPT ![k] = @ + 1]
    /\ UNCHANGED <<style, epoch, db, clock, files, obj, pool, rq, since>>

Tick ==
    /\ epoch < MaxEpoch
    /\ epoch' = epoch + 1
    /\ since' = gen
    /\ UNCHANGED <<style, gen, db, clock, files, obj, pool, rq>>

\* Prune, or the removal of some key with the same body.
Evict(b) ==
    /\ files' = files \ {b}
    /\ UNCHANGED <<style, gen, epoch, db, clock, obj, pool, rq, since>>

\* The stored responses of k whose bodies are in the cache, by index.
Present(k) == {i \in DOMAIN db[k].val : db[k].val[i].body \in files}

\* f lists the indices in S in ascending order.
Lists(f, S) == Range(f) = S /\ \A i, j \in DOMAIN f : i < j => f[i] < f[j]

Picked(val, f) == [i \in DOMAIN f |-> val[f[i]]]

\* Fault: an entry without responses is saved, not deleted.
SweepSavesEmpty(k) ==
    LET left == Present(k)
    IN  /\ db[k].ver # 0 /\ left # DOMAIN db[k].val
        /\ \E f \in [1 .. Cardinality(left) -> left] :
             /\ Lists(f, left)
             /\ db' = [db EXCEPT ![k] = [val |-> Picked(db[k].val, f), ver |-> clock + 1]]
        /\ clock' = clock + 1
        /\ UNCHANGED <<style, gen, epoch, files, obj, pool, rq, since>>

\* The sweep after Prune: responses whose body is gone leave the database.
Sweep(k) ==
    LET left == Present(k)
    IN  /\ db[k].ver # 0 /\ left # DOMAIN db[k].val
        /\ \E f \in [1 .. Cardinality(left) -> left] :
             /\ Lists(f, left)
             /\ db' = [db EXCEPT ![k] = IF left = {} THEN NoEntry
                                        ELSE [val |-> Picked(db[k].val, f), ver |-> clock + 1]]
        /\ clock' = IF left = {} THEN clock ELSE clock + 1
        /\ UNCHANGED <<style, gen, epoch, files, obj, pool, rq, since>>

\* The administrator removes k; the files of its responses go one by one (Evict).
RemoveKey(k) ==
    /\ db[k].ver # 0
    /\ db' = [db EXCEPT ![k] = NoEntry]
    /\ UNCHANGED <<style, gen, epoch, clock, files, obj, pool, rq, since>>

\* The answer is delivered; q is ready for another request.
Over(q) ==
    /\ rq[q].st = "done"
    /\ rq' = [rq EXCEPT ![q] = NewRequest]
    /\ UNCHANGED <<style, gen, epoch, db, clock, files, obj, pool, since>>

\* The process ends, in whatever state, and starts again.
Restart ==
    /\ rq' = [q \in Requests |-> NewRequest]
    /\ obj' = [e \in Entries |-> NoEntry]
    /\ pool' = Entries
    /\ UNCHANGED <<style, gen, epoch, db, clock, files, since>>

Answer(q) ==
    \/ NextHop(q) \/ AnswerFailure(q) \/ AnswerTooMany(q) \/ AnswerOther(q)
    \/ AnswerNotModified(q) \/ AnswerOK(q)

Ingest(q) == IngestAbandon(q) \/ IngestBypass(q) \/ IngestRename(q) \/ IngestSave(q)

Environment ==
    \/ \E k \in Keys : Publish(k) \/ Sweep(k) \/ RemoveKey(k)
    \/ Tick
    \/ \E b \in files : Evict(b)
    \/ Restart

Next ==
    \/ \E q \in Requests : Do(q) \/ Answer(q) \/ Ingest(q) \/ Over(q)
    \/ Environment

Spec == Init /\ [][Next]_vars

\* Upstream answers or the transport times out; handlers read and close bodies.
FairSpec == Spec /\ \A q \in Requests : WF_vars(Answer(q)) /\ WF_vars(Ingest(q))

-----------------------------------------------------------------------------
VaryValues == {<<<<v>>>> : v \in Variants} \cup {<<>>}
VaryHeaders == UNION {[f -> VaryValues] : f \in {sty.vary : sty \in Styles}}
Dates == (0 .. MaxGen) \cup {None}

Response == [body : Bodies, vary : VaryHeaders, etag : Etags \cup {None}, lm : Dates,
             mr : BOOLEAN, born : 0 .. MaxEpoch]

Entry == [val : Seq(Response), ver : Nat]

Stages == {"new", "sent", "resent", "ingest", "renamed", "done"}
Origins == {"none", "fresh", "stale", "revalidated", "upstream", "error", "panic"}
Codes == {0, 200, 304, 400}
Outs == [src : Origins, status : Codes, body : Bodies \cup {None}, gen : 0 .. MaxGen]

Request == [st : Stages, key : Keys \cup {None}, variant : Variants \cup {None},
            inm : SUBSET Etags, ims : Dates, e : Entries \cup {None}, hasCond : BOOLEAN,
            sentInm : SUBSET Etags, sentIms : Dates, hops : 0 .. Hops,
            resp : Response \cup {None}, out : Outs]

\* An entry with a version has a response.
EntryOK(ent) == ent.ver <= clock /\ (ent.ver # 0 => ent.val # <<>>)

\* Every variable has its type; an entry with a version has a response.
TypeOK ==
    /\ style \in [Keys -> Styles]
    /\ gen \in [Keys -> 0 .. MaxGen] /\ since \in [Keys -> 0 .. MaxGen]
    /\ epoch \in 0 .. MaxEpoch /\ clock \in Nat
    /\ db \in [Keys -> Entry] /\ \A k \in Keys : EntryOK(db[k])
    /\ obj \in [Entries -> Entry] /\ \A e \in Entries : EntryOK(obj[e])
    /\ files \subseteq Bodies
    /\ pool \subseteq Entries
    /\ rq \in [Requests -> Request]

\* A database entry is used by one request at a time, from pool.Get to the
\* end of the ingestion, and nobody finds it in the pool meanwhile
\* (releaseDBEntry and the callback given to SetupIngestion).
PoolExclusive ==
    \A q \in Requests :
        /\ rq[q].st \in {"sent", "resent", "ingest", "renamed"} <=> rq[q].e # None
        /\ rq[q].e \notin pool
        /\ \A p \in Requests \ {q} : rq[q].e # None => rq[p].e # rq[q].e

FromCache(q) == rq[q].out.src \in {"fresh", "stale", "revalidated"}

\* What is served from the cache, fresh, stale or revalidated, is a body of the
\* key that was asked for and of the variant the request's headers select.
ServedRightVariant ==
    \A q \in Requests :
        FromCache(q) => /\ rq[q].out.body.key = rq[q].key
                        /\ rq[q].out.body.variant = VariantOf(rq[q].key, rq[q].variant)

\* After "304 Not Modified", the cached body that is served is the very
\* edition that upstream holds when it answers.
RevalidatedIsCurrent ==
    \A q \in Requests :
        rq[q].out.src = "revalidated" =>
            rq[q].out.body = Body(rq[q].key, rq[q].variant, rq[q].out.gen)

\* A client is told "304 Not Modified" only if the validators that it sent
\* itself are those of the current edition, whatever validators of stored
\* responses were sent along with them; provided that upstream repeats its Etag
\* in a 304, as RFC 9110 demands.
NotModifiedOnlyIfClientCurrent ==
    \A q \in Requests :
        rq[q].out.status = 304 /\ (style[rq[q].key].etag => style[rq[q].key].etag304) =>
            Validates(rq[q].key, Body(rq[q].key, rq[q].variant, rq[q].out.gen), rq[q].inm, rq[q].ims)

\* A fresh answer, given without asking upstream, was upstream's edition at
\* some moment of the current epoch, the lifetime of a response: saving late
\* and revalidating do not make old contents look new.
FreshIsRecent ==
    [][\A q \in Requests :
         rq[q].out = NoOut /\ rq'[q].out.src = "fresh" =>
            rq'[q].out.body.gen >= since[rq'[q].key]]_vars

\* The responses stored under a key are of that key, and at most one of them
\* answers any given request, however the requests that stored them raced.
OneResponsePerVariant ==
    \A k \in Keys :
        /\ \A i \in DOMAIN db[k].val : db[k].val[i].body.key = k
        /\ \A v \in Variants : \A i, j \in selectResponseCandidates(v, db[k].val) : i = j

\* Concurrent requests do not undo each other's work: while its body is in the
\* cache and its key is not removed, a stored response is only ever replaced by
\* one for the same headers that is neither an older edition nor staler.
StoredNeverRegresses ==
    [][\A k \in Keys : \A i \in DOMAIN db[k].val :
         LET r == db[k].val[i]
         IN  r.body \in files /\ db'[k].ver # 0 =>
                \E j \in DOMAIN db'[k].val :
                    LET n == db'[k].val[j]
                    IN  n.vary = r.vary /\ n.body.gen >= r.body.gen /\ n.born >= r.born]_vars

\* Every request is answered and its body disposed of, whatever upstream does:
\* a 304 that matches nothing leads to one more attempt, not to a loop.  ("new"
\* again: the process was restarted.)
EveryRequestAnswered == \A q \in Requests : rq[q].e # None ~> rq[q].st \in {"done", "new"}

\* "Entry has been pruned from the cache already": a body that Prune took away
\* is an expected condition, not a reason to panic.
NeverPanics == \A q \in Requests : rq[q].out.src # "panic"

\* "unable to retrieve entry from database, no response fresh": when the
\* database does not answer, the request is handled as if nothing were stored.
OwnKeyOnly == \A q \in Requests : FromCache(q) => rq[q].out.body.key = rq[q].key
=============================================================================
