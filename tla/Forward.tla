------------------------------ MODULE Forward -------------------------------
(***************************************************************************)
(* internal/handlers/utils.go: Forward and modifyBody, which answer every  *)
(* request of the registries, and the JSON handlers that all registries    *)
(* share in one pool.  Requests run concurrently; a handler belongs to one *)
(* request from Get to Put.                                                *)
(***************************************************************************)
EXTENDS Registries

CONSTANTS
    Requests,   \* requests that are answered at a time
    Handlers    \* JSON handlers

VARIABLES
    tail,       \* of the configuration (see Tails)
    rq,         \* rq[q]: the request
    json,       \* json[h]: what the decoder of h has left to hand out
    spoilt      \* history: handlers that decoded what is not one document

vars == <<tail, rq, json, spoilt>>

\* The body of a response, when it is read: one document, followed by more,
\* under another content type, not JSON, with an unknown field, of no bytes,
\* broken off.
Forms == {"good", "trailing", "untyped", "broken", "misfit", "empty", "cut"}

\* A document: the index of a kind, as an answer to q; or none.  The ones that
\* an upstream may send depend on the configuration t.
Document(q, kind, links) == [for |-> q, kind |-> kind, links |-> links]
NoDocument == Document("none", "nil", <<>>)
Documents(q, kind, t) == [for : {q}, kind : {kind}, links : Indexes(kind, t)]

\* Links and documents, also those that were rewritten.
Urls == [site : Sites, route : {"file", "tarball", "cdn"}, file : Nat, slashes : Nat, base : Nat]
Links == [{} -> Urls] \cup [1 .. 1 -> Urls] \cup [1 .. 2 -> Urls]
AllDocuments == [for : Requests \cup {"none"}, kind : Indexed \cup {"nil"}, links : Links]

\* What a decoder may hold: nothing, an error that it repeats, the start of
\* something that is not JSON, a document.
Clean == Document("none", "clean", <<>>)
Failed == Document("none", "failed", <<>>)
Junk == Document("none", "junk", <<>>)
Decoders == {Clean, Failed, Junk} \cup [for : Requests, kind : Indexed, links : Links]

\* form, doc: what resp has as body;  status: of resp;  src: what resp.Body is:
\* a body that is being stored, a file of the cache, a body from the network
\* alone, or a buffer;  open: the body that Do returned is not closed;  length:
\* resp.Header has the Content-Length of the upstream, or of the rewritten
\* body;  kept: so does the header in the database;  out, answer: what the
\* client gets;  spoilt: the JSON handler was.
NoRequest == [
    st |-> "over", modify |-> "nil", status |-> 200, form |-> "unread", doc |-> NoDocument,
    src |-> "buffer", open |-> FALSE, length |-> "upstream", kept |-> "none",
    out |-> 0, answer |-> NoDocument, spoilt |-> FALSE]

Stages == {"answered", "buffered", "sent", "over", "aborted"}
Modifies == Indexed \cup {"nil"}
Statuses == {200, 304, 404}
Sources == {"ingested", "stored", "network", "buffer"}
Lengths == {"upstream", "rewritten"}
Outs == {0, 200, 304, 403, 404, 500, 501, 502, 504}

Request == [
    st : Stages, modify : Modifies, status : Statuses, form : Forms \cup {"unread"}, doc : AllDocuments,
    src : Sources, open : BOOLEAN, length : Lengths, kept : Lengths \cup {"none"},
    out : Outs, answer : AllDocuments, spoilt : BOOLEAN]

\* Every variable has its type; a response has an index of the kind asked for.
TypeOK ==
    /\ tail \in Tails
    /\ rq \in [Requests -> Request]
    /\ \A q \in Requests :
         /\ rq[q].doc = NoDocument \/ rq[q].doc \in Documents(q, rq[q].modify, tail)
         /\ rq[q].answer = NoDocument \/ rq[q].answer.kind = rq[q].modify
    /\ json \in [Handlers -> Decoders]
    /\ spoilt \in SUBSET Handlers

Init ==
    /\ tail \in Tails
    /\ rq = [q \in Requests |-> NoRequest]
    /\ json = [h \in Handlers |-> Clean]
    /\ spoilt = {}

-----------------------------------------------------------------------------
(* Forward.                                                                *)

\* What is not about the handlers.
Step(q, new) == rq' = [rq EXCEPT ![q] = new] /\ UNCHANGED <<tail, json, spoilt>>

Ended(q) == rq[q].st \in {"over", "aborted"}

\* NotImplemented answers, or the proxy for a host that it does not allow, and
\* panics if the answer cannot be written.
Unforwarded(q) ==
    /\ Ended(q)
    /\ \E status \in {501, 403}, st \in {"over", "aborted"} :
         Step(q, [NoRequest EXCEPT !.st = st, !.out = status])

\* Do returns an error: a timeout or another error of the transport, or one of
\* another kind; unless recovery answers.  Or it panics, as Forward does before
\* it if upstreamURL cannot be parsed.
Unreachable(q) ==
    /\ Ended(q)
    /\ \/ \E recovery \in {forwarding.recovery : forwarding \in Forwardings} :
          \E status \in IF recovery THEN {200} ELSE {500, 502, 504} :
              Step(q, [NoRequest EXCEPT !.out = status])
       \/ Step(q, [NoRequest EXCEPT !.st = "aborted"])

\* Do returns a response.
Answered(q) ==
    /\ Ended(q)
    /\ \E modify \in {forwarding.modify : forwarding \in Forwardings},
          status \in Statuses, src \in {"ingested", "stored", "network"} :
         Step(q, [NoRequest EXCEPT !.st = "answered", !.modify = modify,
                     !.status = status, !.src = src, !.open = TRUE])

\* The handler returns, or panics: of r stays what became of its body.
Over(r) == [NoRequest EXCEPT !.open = r.open, !.kept = r.kept]
Aborted(r) == [Over(r) EXCEPT !.st = "aborted"]

Sent(q, status) == [rq[q] EXCEPT !.st = "sent", !.out = status]

\* Closing a body that is being stored stores it, if it was read to its end,
\* with the header of that moment.  (SetupIngestion; it may also fail.)
Closed(r, whole) ==
    {[r EXCEPT !.open = FALSE, !.kept = kept] :
        kept \in {r.kept} \cup IF r.src = "ingested" /\ whole THEN {r.length} ELSE {}}

\* matchesOriginalQuery: the client has this response already.
NotModified(q) ==
    /\ rq[q].st = "answered" /\ rq[q].status = 200
    /\ Step(q, Sent(q, 304))

\* EtagsMatch looks at the first two characters of either Etag, which a client's
\* If-None-Match need not have: the handler panics, and the deferred Close runs.
ShortValidator(q) ==
    /\ rq[q].st = "answered" /\ rq[q].status = 200
    /\ \E whole \in BOOLEAN : \E r \in Closed(rq[q], whole) : Step(q, Aborted(r))

Relay(q) ==
    /\ rq[q].st = "answered" /\ rq[q].modify = "nil"
    /\ Step(q, Sent(q, rq[q].status))

\* The deferred Close.  If it fails Forward panics; a second Close of what is
\* stored or comes from the cache does.
CloseBody(q) ==
    /\ rq[q].st = "sent"
    /\ \/ /\ rq[q].src \in {"ingested", "stored"} /\ ~rq[q].open
          /\ Step(q, Aborted(rq[q]))
       \/ /\ rq[q].src # "buffer" /\ rq[q].open
          /\ \E whole \in BOOLEAN : \E r \in Closed(rq[q], whole) :
               Step(q, Over(r)) \/ Step(q, Aborted(r))
       \/ /\ rq[q].src = "buffer" \/ (rq[q].src = "network" /\ ~rq[q].open)
          /\ Step(q, Over(rq[q]))

-----------------------------------------------------------------------------
(* modifyBody.                                                             *)

\* Not gzip: the error is found before anything is read.
NotGzip(q) ==
    /\ rq[q].st = "answered" /\ rq[q].modify # "nil"
    /\ Step(q, Sent(q, 500))

\* A response to a conditional request has no body, and its content type need
\* not be sent; that of an error may be of any type.
Bodies(status) ==
    CASE status = 200 -> Forms
      [] status = 304 -> {"untyped", "empty"}
      [] status = 404 -> {"untyped", "misfit", "cut"}

Content(q, modify, form) ==
    CASE form = "good" -> Documents(q, modify, tail)
      [] form = "trailing" -> {Document(q, modify, AllHome(modify, tail))}
      [] form \notin {"good", "trailing"} -> {NoDocument}

\* The request with what its body turns out to be.
Read(q) ==
    UNION {{[rq[q] EXCEPT !.form = form, !.doc = doc] : doc \in Content(q, rq[q].modify, form)} :
           form \in Bodies(rq[q].status)}

\* An error of reading, or a body to be modified.  In the second case the buffer
\* takes its place, also if it cannot be modified.
Copied(r) ==
    IF r.form = "cut" THEN [r EXCEPT !.st = "sent", !.out = 500]
    ELSE [r EXCEPT !.st = "buffered", !.src = "buffer"]

\* Fault: the length is set before the body is closed.
ReadBodySizedFirst(q) ==
    /\ rq[q].st = "answered" /\ rq[q].modify # "nil"
    /\ \E read \in Read(q) :
       \E r \in Closed([read EXCEPT !.length = "rewritten"], read.form # "cut") : Step(q, Copied(r))

\* Fault: the body is not closed.
ReadBodyOnly(q) ==
    /\ rq[q].st = "answered" /\ rq[q].modify # "nil"
    /\ \E read \in Read(q) : Step(q, Copied(read))

\* Copies the body, and closes it even if that failed.
ReadBody(q) ==
    /\ rq[q].st = "answered" /\ rq[q].modify # "nil"
    /\ \E read \in Read(q) :
       \E r \in Closed(read, read.form # "cut") : Step(q, Copied(r))

\* Decoder.Decode of handler h on a body: what it returns and what is left.
\* Bytes after the document may have been read with it and stay; errors of
\* reading and of syntax are repeated, those of unknown fields are not.
Decode(h, form, doc) ==
    CASE json[h] \in {Failed, Junk} -> {<<NoDocument, Failed>>}
      [] json[h] \notin {Clean, Failed, Junk} -> {<<json[h], Clean>>}
      [] json[h] = Clean /\ form \in {"broken", "empty"} -> {<<NoDocument, Failed>>}
      [] json[h] = Clean /\ form = "misfit" -> {<<NoDocument, Clean>>}
      [] json[h] = Clean /\ form = "good" -> {<<doc, Clean>>}
      [] json[h] = Clean /\ form = "trailing" -> {<<doc, left>> : left \in {Clean, Junk, doc}}

\* Fault: unknown fields are let through.
FateAnyKind(kind, doc) == IF doc = NoDocument THEN {Refused} ELSE Rewrite(kind, tail, doc.links)

\* A document of another kind has unknown fields.
Fate(kind, doc) == IF doc.kind = kind THEN Rewrite(kind, tail, doc.links) ELSE {Refused}

\* Fault: the buffer is not emptied, and holds what the encoder wrote.
PutFull(left, doc, fate) ==
    IF left = Clean /\ fate.fate = "rewritten" THEN [doc EXCEPT !.links = fate.links] ELSE left

\* A handler goes back to the pool with its buffer empty and its decoder as
\* it is.
Put(left, doc, fate) == left

\* What becomes of request r when handler h has decoded doc.
Modified(r, h, doc, fate) ==
    CASE fate.fate = "panic" -> Aborted(r)
      [] fate.fate = "refused" ->
           [r EXCEPT !.st = "sent", !.out = 500, !.spoilt = h \in spoilt]
      [] fate.fate = "rewritten" ->
           [r EXCEPT !.st = "sent", !.out = r.status, !.spoilt = h \in spoilt,
                     !.length = "rewritten", !.answer = [doc EXCEPT !.links = fate.links]]

\* With a handler from the pool; the content type is looked at first.
ModifyBody(q, h) ==
    /\ rq[q].st = "buffered"
    /\ \/ /\ rq[q].form = "untyped"
          /\ Step(q, Sent(q, 500))
       \/ /\ rq[q].form # "untyped"
          /\ \E decoded \in Decode(h, rq[q].form, rq[q].doc) :
             \E fate \in Fate(rq[q].modify, decoded[1]) :
               /\ rq' = [rq EXCEPT ![q] = Modified(rq[q], h, decoded[1], fate)]
               /\ json' = [json EXCEPT ![h] = Put(decoded[2], decoded[1], fate)]
          /\ spoilt' = IF rq[q].form \in {"broken", "empty", "trailing"} THEN spoilt \cup {h} ELSE spoilt
          /\ UNCHANGED tail

\* The garbage collector empties the pool: the next Get makes a new handler.
Collect(h) ==
    /\ json' = [json EXCEPT ![h] = Clean]
    /\ spoilt' = spoilt \ {h}
    /\ UNCHANGED <<tail, rq>>

-----------------------------------------------------------------------------
Next ==
    \/ \E q \in Requests :
         \/ Unforwarded(q) \/ Unreachable(q) \/ Answered(q)
         \/ NotModified(q) \/ ShortValidator(q) \/ Relay(q) \/ CloseBody(q)
         \/ NotGzip(q) \/ ReadBody(q) \/ \E h \in Handlers : ModifyBody(q, h)
    \/ \E h \in Handlers : Collect(h)

Spec == Init /\ [][Next]_vars
-----------------------------------------------------------------------------
(* An index that is passed on is the one that was asked for, link by link. *)
(* If galaxyServer and the URLs of npm's caches have no slash at their end *)
(* and pypi's CDN no path, every link of it that was at the registry leads *)
(* through this server to the same file, directly and by an upstream       *)
(* cache.  All this unless the handler had met a body that is not one      *)
(* document.  (rewriteJson, rewriteJsonV1, rewriteCollectionVersionV3)     *)
LinksLeadToFiles ==
    \A q \in Requests :
        rq[q].st = "sent" /\ rq[q].answer # NoDocument /\ ~rq[q].spoilt =>
            /\ rq[q].answer.for = q
            /\ DOMAIN rq[q].answer.links = DOMAIN rq[q].doc.links
            /\ tail = 0 =>
                  \A i \in DOMAIN rq[q].doc.links :
                      rq[q].doc.links[i] \notin Strangers(rq[q].modify, 0, i) =>
                          LeadsTo(rq[q].modify, 0, rq[q].answer.links[i], i)

(* An index that is one document with all its links at the registry is     *)
(* answered with an error only because of what an earlier request left in  *)
(* the JSON handler.  (modifyBody, JSONHandler)                            *)
RefusedForAReason ==
    \A q \in Requests :
        rq[q].st = "sent" /\ rq[q].out = 500 /\ rq[q].form = "good"
        /\ (\A i \in DOMAIN rq[q].doc.links :
               rq[q].doc.links[i] \notin Strangers(rq[q].modify, tail, i))
            => rq[q].spoilt

(* When a request is over, whether its handler returned or panicked, the   *)
(* body of its response is closed; and Forward comes to close a body that  *)
(* modifyBody has closed already, an error over which it panics after it   *)
(* has answered, only if that body broke off.  (Forward's deferred Close   *)
(* after that of modifyBody)                                               *)
BodySettled ==
    \A q \in Requests :
        /\ Ended(q) => ~rq[q].open
        /\ rq[q].st = "sent" /\ rq[q].src # "buffer" /\ ~rq[q].open => rq[q].form = "cut"

(* The header in the database has the length of the body that is stored,   *)
(* not that of the rewritten one.  (modifyBody, setupIngestion)            *)
StoredHeaderFitsBody == \A q \in Requests : rq[q].kept # "rewritten"

(* A client that asked whether its copy is current, and whose copy is, is  *)
(* told so.  (Do, "passing through conditional response from conditional   *)
(* request")                                                               *)
NotModifiedPassed ==
    \A q \in Requests : rq[q].st = "sent" /\ rq[q].status = 304 => rq[q].out = 304
=============================================================================
