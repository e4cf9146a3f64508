---------------------------- MODULE ForwardProofs ---------------------------
(***************************************************************************)
(* Proofs about Forward and Registries, for any number of requests at a    *)
(* time and of JSON handlers, and for either configuration.                *)
(***************************************************************************)
EXTENDS Forward, TLAPS

-----------------------------------------------------------------------------
(* The inductive invariant.  For the most part it speaks of the record r   *)
(* of one request q under configuration t, and of each handler by itself.  *)

ReqType(t, q, r) ==
    /\ r \in Request
    /\ r.doc = NoDocument \/ r.doc \in Documents(q, r.modify, t)
    /\ r.answer = NoDocument \/ r.answer.kind = r.modify

\* The body is open until modifyBody has read it or the answer is sent; that
\* closed it before Forward does only if what Forward closes is the buffer, or
\* if the body broke off.
BodyAt(r) ==
    /\ r.st = "answered" => /\ r.open /\ r.src # "buffer" /\ r.answer = NoDocument
                            /\ r.form = "unread" /\ r.doc = NoDocument
    /\ r.st = "buffered" => /\ ~r.open /\ r.src = "buffer" /\ r.answer = NoDocument
                            /\ r.modify \in Indexed /\ r.form \notin {"cut", "unread"}
    /\ r.st = "sent" /\ r.src = "buffer" => ~r.open
    /\ r.st = "sent" /\ r.src # "buffer" /\ ~r.open => r.form = "cut"

\* The length is rewritten when nothing can be stored any more.
LengthAt(r) ==
    /\ r.st # "sent" \/ r.src # "buffer" => r.length = "upstream"
    /\ r.kept # "rewritten"

Settled(r) == r.st \in {"over", "aborted"} => ~r.open

\* What the body of a response holds.
Contains(t, q, r) ==
    /\ r.form \in {"good", "trailing"} => r.modify \in Indexed /\ r.doc \in Documents(q, r.modify, t)
    /\ r.form = "trailing" => r.doc.links = AllHome(r.modify, t)

RefusedRightly(t, r) ==
    r.st = "sent" /\ r.out = 500 /\ r.form = "good"
    /\ (\A i \in DOMAIN r.doc.links : r.doc.links[i] \notin Strangers(r.modify, t, i))
        => r.spoilt

LinksLead(t, q, r) ==
    r.st = "sent" /\ r.answer # NoDocument /\ ~r.spoilt =>
        /\ r.answer.for = q
        /\ DOMAIN r.answer.links = DOMAIN r.doc.links
        /\ t = 0 =>
              \A i \in DOMAIN r.doc.links :
                  r.doc.links[i] \notin Strangers(r.modify, 0, i) =>
                      LeadsTo(r.modify, 0, r.answer.links[i], i)

ReqOK(t, q, r) ==
    /\ ReqType(t, q, r) /\ BodyAt(r) /\ LengthAt(r) /\ Settled(r)
    /\ Contains(t, q, r) /\ RefusedRightly(t, r) /\ LinksLead(t, q, r)

\* A decoder that holds something was given what is not one document; if it is
\* a document, then one with all its links at the registry.
HandlerOK(h) ==
    /\ json[h] # Clean => h \in spoilt
    /\ json[h] \notin {Clean, Failed, Junk} =>
         \E q \in Requests, kind \in Indexed : json[h] = Document(q, kind, AllHome(kind, tail))

ForwardInv ==
    /\ tail \in Tails
    /\ rq \in [Requests -> Request] /\ \A q \in Requests : ReqOK(tail, q, rq[q])
    /\ json \in [Handlers -> Decoders] /\ spoilt \in SUBSET Handlers
    /\ \A h \in Handlers : HandlerOK(h)

-----------------------------------------------------------------------------
(* The indexes of the registries and how they are rewritten.               *)

LEMMA Sizes == \A kind \in Indexed : Size(kind) \in 1 .. 2 /\ (kind # "galaxy" => Size(kind) = 2)
BY DEF Size, Indexed

\* The fields of the links.
LEMMA HomeFields ==
    ASSUME NEW kind \in Indexed, NEW t \in Tails, NEW file \in Nat
    PROVE  /\ Home(kind, t, file) \in Urls /\ Home(kind, t, file).file = file
           /\ Home(kind, t, file).slashes = 1
           /\ kind = "galaxy" => Home(kind, t, file) = Url("origin", "file", file)
           /\ kind = "npm" => Home(kind, t, file) = Url("origin", "tarball", file)
           /\ kind = "pypi" => Home(kind, t, file).site = "cdn" /\ Home(kind, t, file).base = t
           /\ kind = "pypi" /\ t = 0 => Home(kind, t, file) = Url("cdn", "file", file)
BY DEF Home, Url, Urls, Sites, Indexed, Tails

LEMMA MirroredFields ==
    ASSUME NEW kind \in Indexed, NEW t \in Tails, NEW file \in Nat
    PROVE  /\ Mirrored(kind, t, file) \in Urls /\ Mirrored(kind, t, file).file = file
           /\ Mirrored(kind, t, file).slashes = 1
           /\ kind = "galaxy" => Mirrored(kind, t, file) = Url("relative", "file", file)
           /\ kind = "npm" => Mirrored(kind, t, file) = Url("cache", "tarball", file)
           /\ kind = "pypi" => Mirrored(kind, t, file).site = "relative"
           /\ kind = "pypi" /\ t = 0 => Mirrored(kind, t, file) = Url("relative", "cdn", file)
BY DEF Mirrored, Url, Urls, Sites, Indexed, Tails

LEMMA StrangerFields ==
    ASSUME NEW kind \in Indexed, NEW t \in Tails, NEW file \in Nat, NEW s \in Strangers(kind, t, file)
    PROVE  /\ s \in Urls /\ s.file = file
           /\ kind = "npm" => s.site \in {"elsewhere", "origin", "null"}
           /\ kind = "pypi" => ~AtCDN(t, s) /\ ~Encoded(s)
<1> DEFINE lookalike == [Home(kind, t, file) EXCEPT !.slashes = 0]
           away == Url("elsewhere", "file", file)
<1>1. /\ away \in Urls /\ away.file = file /\ away.site = "elsewhere"
      /\ lookalike \in Urls /\ lookalike.file = file /\ lookalike.slashes = 0
      /\ kind = "npm" => lookalike.site = "origin"
      /\ kind = "pypi" => lookalike.site = "cdn"
  BY DEF Home, Url, Urls, Sites, Indexed, Tails
<1> HIDE DEF lookalike, away
<1>2. CASE kind = "galaxy"
  <2>1. s \in {away, lookalike, Url("none", "file", file), [Url("relative", "file", file) EXCEPT !.slashes = 0]}
    BY <1>2 DEF Strangers, lookalike, away
  <2> QED
    BY <1>1, <1>2, <2>1 DEF Url, Urls, Sites
<1>3. CASE kind = "npm"
  <2>1. s \in {away, lookalike, Url("null", "tarball", file)}
    BY <1>3 DEF Strangers, lookalike, away
  <2> QED
    BY <1>1, <1>3, <2>1 DEF Url, Urls, Sites
<1>4. CASE kind = "pypi"
  <2>1. s \in {away, lookalike}
    BY <1>4 DEF Strangers, lookalike, away
  <2> QED
    BY <1>1, <1>4, <2>1 DEF AtCDN, Encoded, HasPrefix, expectedCDN, Prefix
<1> QED
  BY <1>2, <1>3, <1>4 DEF Indexed

\* The shape of an index, link by link.
LEMMA IndexShape ==
    ASSUME NEW kind \in Indexed, NEW t \in Tails, NEW links \in Indexes(kind, t)
    PROVE  /\ DOMAIN links = 1 .. Size(kind)
           /\ links = [i \in DOMAIN links |-> links[i]]
           /\ \/ \A i \in DOMAIN links : links[i] = Home(kind, t, i) \/ links[i] \in Strangers(kind, t, i)
              \/ \A i \in DOMAIN links : links[i] = Mirrored(kind, t, i)
<1> DEFINE Any == UNION {{Home(kind, t, i)} \cup Strangers(kind, t, i) : i \in 1 .. Size(kind)}
<1>0. \/ links \in [1 .. Size(kind) -> Any] /\ \A i \in DOMAIN links : links[i].file = i
      \/ links = [i \in 1 .. Size(kind) |-> Mirrored(kind, t, i)]
  BY DEF Indexes
<1>1. CASE links \in [1 .. Size(kind) -> Any] /\ \A i \in DOMAIN links : links[i].file = i
  <2>1. ASSUME NEW i \in DOMAIN links PROVE links[i] = Home(kind, t, i) \/ links[i] \in Strangers(kind, t, i)
    <3>1. PICK j \in 1 .. Size(kind) : links[i] = Home(kind, t, j) \/ links[i] \in Strangers(kind, t, j)
      BY <1>1, <2>1
    <3>2. j \in Nat
      BY Sizes
    <3>3. links[i].file = j
      BY <3>1, <3>2, HomeFields, StrangerFields
    <3> QED
      BY <1>1, <2>1, <3>1, <3>3
  <2> QED
    BY <1>1, <2>1
<1>2. CASE links = [i \in 1 .. Size(kind) |-> Mirrored(kind, t, i)]
  BY <1>2
<1> QED
  BY <1>0, <1>1, <1>2

LEMMA AllHomeIsIndex ==
    ASSUME NEW kind \in Indexed, NEW t \in Tails
    PROVE  AllHome(kind, t) \in Indexes(kind, t)
<1> DEFINE Any == UNION {{Home(kind, t, i)} \cup Strangers(kind, t, i) : i \in 1 .. Size(kind)}
           all == AllHome(kind, t)
<1>1. all \in [1 .. Size(kind) -> Any] /\ DOMAIN all = 1 .. Size(kind)
  BY DEF AllHome
<1>2. \A i \in 1 .. Size(kind) : all[i] = Home(kind, t, i) /\ i \in Nat
  BY Sizes DEF AllHome
<1>3. \A i \in DOMAIN all : all[i].file = i
  BY <1>1, <1>2, HomeFields
<1> HIDE DEF all
<1> QED
  BY <1>1, <1>3 DEF Indexes, all

\* An index with all its links at the registry is not refused.
LEMMA RefusedOverStrangers ==
    ASSUME NEW kind \in Indexed, NEW t \in Tails, NEW links \in Indexes(kind, t),
           NEW fate \in Rewrite(kind, t, links), fate.fate = "refused",
           \A i \in DOMAIN links : links[i] \notin Strangers(kind, t, i)
    PROVE  FALSE
<1>1. DOMAIN links = 1 .. Size(kind) /\ Size(kind) \in 1 .. 2 /\ 1 \in DOMAIN links /\ t \in {0, 1}
  BY IndexShape, Sizes DEF Tails
<1>2. \/ \A i \in DOMAIN links : links[i] = Home(kind, t, i)
      \/ \A i \in DOMAIN links : links[i] = Mirrored(kind, t, i)
  BY IndexShape
<1>3. \A i \in DOMAIN links : i \in Nat
  BY <1>1
<1>4. CASE kind = "galaxy"
  <2>1. links[1] \in {Url("origin", "file", 1), Url("relative", "file", 1)}
    BY <1>1, <1>2, <1>4, HomeFields, MirroredFields
  <2>2. HasPrefix(links[1], galaxyServer(t)) \/ (links[1].site = "relative" /\ links[1].slashes > 0)
    BY <1>1, <2>1 DEF HasPrefix, galaxyServer, Prefix, Url
  <2>3. links[1].site # "none"
    BY <2>1 DEF Url
  <2>4. \A new : Rewritten(new).fate = "rewritten"
    BY DEF Rewritten
  <2> QED
    BY <1>4, <2>2, <2>3, <2>4 DEF Rewrite, rewriteCollectionVersionV3
<1>5. CASE kind = "npm"
  <2>1. \A i \in DOMAIN links : links[i] \in {Url("origin", "tarball", i), Url("cache", "tarball", i)}
    BY <1>2, <1>3, <1>5, HomeFields, MirroredFields
  <2>2. \A i \in DOMAIN links : links[i].site # "null" /\ Remotes(t, links[i]) # {}
    <3> SUFFICES ASSUME NEW i \in DOMAIN links PROVE links[i].site # "null" /\ Remotes(t, links[i]) # {}
      OBVIOUS
    <3>1. CASE links[i] = Url("origin", "tarball", i)
      <4>1. links[i].site # "null" /\ HasPrefix(links[i], npmUpstream)
        BY <3>1 DEF HasPrefix, npmUpstream, Prefix, Url
      <4> QED
        BY <4>1 DEF Remotes
    <3>2. CASE links[i] = Url("cache", "tarball", i)
      <4>1. links[i].site # "null" /\ HasPrefix(links[i], npmCache(t))
        BY <1>1, <3>2 DEF HasPrefix, npmCache, Prefix, Url
      <4> QED
        BY <4>1 DEF Remotes
    <3> QED
      BY <2>1, <3>1, <3>2
  <2>3. \A new : Rewritten(new).fate = "rewritten"
    BY DEF Rewritten
  <2> QED
    BY <1>5, <2>2, <2>3 DEF Rewrite, rewriteJson
<1>6. CASE kind = "pypi"
  <2>1. \/ \A i \in DOMAIN links : AtCDN(t, links[i])
        \/ \A i \in DOMAIN links : Encoded(links[i])
    BY <1>1, <1>2, <1>3, <1>6, HomeFields, MirroredFields
       DEF AtCDN, Encoded, HasPrefix, expectedCDN, Prefix
  <2>2. \A new : Rewritten(new).fate = "rewritten"
    BY DEF Rewritten
  <2>3. Rewrite(kind, t, links) = rewriteJsonV1(t, links)
    BY <1>6 DEF Rewrite
  <2>4. PICK new : fate = Rewritten(new)
    BY <2>1, <2>3, Zenon DEF rewriteJsonV1
  <2> QED
    BY <2>2, <2>4
<1> QED
  BY <1>4, <1>5, <1>6 DEF Indexed

Routes == {"file", "tarball", "cdn"}

LEMMA SameUrl ==
    ASSUME NEW u \in Urls, NEW v \in Urls, u.site = v.site, u.route = v.route, u.file = v.file,
           u.slashes = v.slashes, u.base = v.base
    PROVE  u = v
BY DEF Urls

LEMMA UrlFields ==
    ASSUME NEW site \in Sites, NEW route \in Routes, NEW file \in Nat
    PROVE  /\ Url(site, route, file) \in Urls /\ Url(site, route, file).site = site
           /\ Url(site, route, file).route = route /\ Url(site, route, file).file = file
           /\ Url(site, route, file).slashes = 1 /\ Url(site, route, file).base = 0
BY DEF Url, Urls, Routes

LEMMA IsUrl ==
    ASSUME NEW u \in Urls, NEW site \in Sites, NEW route \in Routes, NEW file \in Nat,
           u.site = site, u.route = route, u.file = file, u.slashes = 1, u.base = 0
    PROVE  u = Url(site, route, file)
BY UrlFields, SameUrl

LEMMA JoinedUrl ==
    ASSUME NEW site \in Sites, NEW route \in Routes, NEW file \in Nat, NEW site2 \in Sites, NEW route2 \in Routes
    PROVE  Joined(Prefix(site2, 0, 0), Url(site, route, file), route2) = Url(site2, route2, file)
<1> DEFINE u == Url(site, route, file)
           v == [u EXCEPT !.site = site2, !.route = route2, !.slashes = 1]
<1>1. u \in Urls /\ u.slashes = 1 /\ u.base = 0 /\ u.file = file
  BY UrlFields
<1>2. Joined(Prefix(site2, 0, 0), u, route2) = v
  BY <1>1 DEF Joined, Prefix
<1> HIDE DEF u
<1>3. v \in Urls
  BY <1>1 DEF Urls, Routes
<1>4. v.site = site2 /\ v.route = route2 /\ v.file = file /\ v.slashes = 1 /\ v.base = 0
  BY <1>1 DEF Urls
<1> HIDE DEF v
<1>5. v = Url(site2, route2, file)
  BY <1>3, <1>4, IsUrl
<1> QED
  BY <1>2, <1>5 DEF u

\* The path of the request to a cache is another only for the files of pypi.
LEMMA UpstreamUrl ==
    ASSUME NEW site \in Sites, NEW route \in Routes, NEW file \in Nat
    PROVE  /\ buildUpstreamRequest(Url(site, route, file), "") = Url("cache", route, file)
           /\ buildUpstreamRequest(Url(site, route, file), "cdn") = Url("cache", "cdn", file)
           /\ AtCache(Url(site, route, file), file) = Url("cache", route, file)
<1> DEFINE u == Url(site, route, file)
<1>1. u \in Urls /\ u.slashes = 1 /\ u.base = 0 /\ u.file = file /\ u.route = route
  BY UrlFields
<1>2. "cache" \in Sites /\ "cdn" \in Routes /\ "cdn" # ""
  BY DEF Sites, Routes
<1> HIDE DEF u
<1>3. ASSUME NEW v \in Urls, NEW route2 \in Routes,
             v.site = "cache", v.route = route2, v.file = file, v.slashes = 1, v.base = 0
      PROVE  v = Url("cache", route2, file)
  BY <1>2, <1>3, IsUrl
<1>4. buildUpstreamRequest(u, "") = Url("cache", route, file)
  <2> DEFINE v == [u EXCEPT !.site = "cache", !.route = u.route]
  <2>1. v \in Urls /\ v.site = "cache" /\ v.route = route /\ v.file = file /\ v.slashes = 1 /\ v.base = 0
    BY <1>1, <1>2 DEF Urls
  <2>2. buildUpstreamRequest(u, "") = v
    BY DEF buildUpstreamRequest
  <2> HIDE DEF v
  <2> QED
    BY <1>3, <2>1, <2>2
<1>5. buildUpstreamRequest(u, "cdn") = Url("cache", "cdn", file)
  <2> DEFINE v == [u EXCEPT !.site = "cache", !.route = "cdn"]
  <2>1. v \in Urls /\ v.site = "cache" /\ v.route = "cdn" /\ v.file = file /\ v.slashes = 1 /\ v.base = 0
    BY <1>1, <1>2 DEF Urls
  <2>2. buildUpstreamRequest(u, "cdn") = v
    BY <1>2 DEF buildUpstreamRequest
  <2> HIDE DEF v
  <2> QED
    BY <1>2, <1>3, <2>1, <2>2
<1>6. AtCache(u, file) = Url("cache", route, file)
  <2> DEFINE v == [u EXCEPT !.site = "cache", !.file = file]
  <2>1. v \in Urls /\ v.site = "cache" /\ v.route = route /\ v.file = file /\ v.slashes = 1 /\ v.base = 0
    BY <1>1, <1>2 DEF Urls
  <2> HIDE DEF v
  <2>2. v = Url("cache", route, file)
    BY <1>3, <2>1
  <2> QED
    BY <2>2 DEF v, AtCache
<1> QED
  BY <1>4, <1>5, <1>6 DEF u

LEMMA LeadsByRoute ==
    ASSUME NEW kind, NEW link, NEW file, NEW forwarding,
           link.site \in {"local", "relative"}, link.slashes = 1,
           link.route \in DOMAIN RegisterHandler(kind, 0, link),
           forwarding = RegisterHandler(kind, 0, link)[link.route],
           forwarding.upstreamURL = Home(kind, 0, file),
           \A path \in forwarding.caches :
              buildUpstreamRequest(forwarding.upstreamURL, path) = AtCache(link, file)
    PROVE  LeadsTo(kind, 0, link, file)
BY Zenon DEF LeadsTo

\* The route of each registry's files leads to them.
LEMMA RoutesLead ==
    ASSUME NEW file \in Nat
    PROVE  /\ LeadsTo("galaxy", 0, Url("relative", "file", file), file)
           /\ LeadsTo("npm", 0, Url("local", "tarball", file), file)
           /\ LeadsTo("pypi", 0, Url("relative", "cdn", file), file)
<1>0. /\ {"relative", "local", "origin", "cdn", "cache"} \subseteq Sites
      /\ {"file", "tarball", "cdn"} \subseteq Routes /\ 0 \in Tails
  BY DEF Sites, Routes, Tails
<1>1. LeadsTo("galaxy", 0, Url("relative", "file", file), file)
  <2> DEFINE link == Url("relative", "file", file)
             forwarding == Plainly(Url("origin", "file", file))
  <2>1. Joined(galaxyServer(0), link, "file") = Url("origin", "file", file)
    BY <1>0, JoinedUrl DEF galaxyServer
  <2>2. "file" \in DOMAIN galaxy(0, link) /\ galaxy(0, link)["file"] = forwarding
    BY <2>1 DEF galaxy
  <2>3. forwarding.upstreamURL = Url("origin", "file", file) /\ forwarding.caches = {""}
    BY DEF Plainly, Forwarding, Same
  <2>4. buildUpstreamRequest(Url("origin", "file", file), "") = Url("cache", "file", file)
    BY <1>0, UpstreamUrl
  <2>5. RegisterHandler("galaxy", 0, link) = galaxy(0, link) /\ Home("galaxy", 0, file) = Url("origin", "file", file)
    BY DEF RegisterHandler, Home
  <2>6. \A path \in forwarding.caches :
           buildUpstreamRequest(forwarding.upstreamURL, path) = AtCache(link, file)
    BY <1>0, <2>3, <2>4, UpstreamUrl
  <2>7. link.site \in {"local", "relative"} /\ link.slashes = 1 /\ link.route = "file"
    BY <1>0, UrlFields
  <2> HIDE DEF forwarding, link
  <2>8. /\ link.route \in DOMAIN RegisterHandler("galaxy", 0, link)
        /\ forwarding = RegisterHandler("galaxy", 0, link)[link.route]
        /\ forwarding.upstreamURL = Home("galaxy", 0, file)
    BY <2>2, <2>3, <2>5, <2>7
  <2>9. LeadsTo("galaxy", 0, link, file)
    BY <2>6, <2>7, <2>8, LeadsByRoute
  <2> QED
    BY <2>9 DEF link
<1>2. LeadsTo("npm", 0, Url("local", "tarball", file), file)
  <2> DEFINE link == Url("local", "tarball", file)
             forwarding == Plainly(Url("origin", "tarball", file))
  <2>1. To(link, "origin", "tarball") = Url("origin", "tarball", file)
    BY <1>0, JoinedUrl DEF To
  <2>2. "tarball" \in DOMAIN npm(link) /\ npm(link)["tarball"] = forwarding
    BY <2>1 DEF npm
  <2>3. forwarding.upstreamURL = Url("origin", "tarball", file) /\ forwarding.caches = {""}
    BY DEF Plainly, Forwarding, Same
  <2>4. buildUpstreamRequest(Url("origin", "tarball", file), "") = Url("cache", "tarball", file)
    BY <1>0, UpstreamUrl
  <2>5. RegisterHandler("npm", 0, link) = npm(link) /\ Home("npm", 0, file) = Url("origin", "tarball", file)
    BY DEF RegisterHandler, Home
  <2>6. \A path \in forwarding.caches :
           buildUpstreamRequest(forwarding.upstreamURL, path) = AtCache(link, file)
    BY <1>0, <2>3, <2>4, UpstreamUrl
  <2>7. link.site \in {"local", "relative"} /\ link.slashes = 1 /\ link.route = "tarball"
    BY <1>0, UrlFields
  <2> HIDE DEF forwarding, link
  <2>8. /\ link.route \in DOMAIN RegisterHandler("npm", 0, link)
        /\ forwarding = RegisterHandler("npm", 0, link)[link.route]
        /\ forwarding.upstreamURL = Home("npm", 0, file)
    BY <2>2, <2>3, <2>5, <2>7
  <2>9. LeadsTo("npm", 0, link, file)
    BY <2>6, <2>7, <2>8, LeadsByRoute
  <2> QED
    BY <2>9 DEF link
<1>3. LeadsTo("pypi", 0, Url("relative", "cdn", file), file)
  <2> DEFINE link == Url("relative", "cdn", file)
             forwarding == Forwarding(Url("cdn", "file", file), {"cdn"}, "nil", FALSE)
  <2>1. [To(link, "cdn", "file") EXCEPT !.base = @ + 0] = Url("cdn", "file", file)
    <3>1. To(link, "cdn", "file") = Url("cdn", "file", file)
      BY <1>0, JoinedUrl DEF To
    <3> QED
      BY <3>1 DEF Url
  <2>2. "cdn" \in DOMAIN pypi(0, link) /\ pypi(0, link)["cdn"] = forwarding
    BY <2>1 DEF pypi
  <2>3. forwarding.upstreamURL = Url("cdn", "file", file) /\ forwarding.caches = {"cdn"}
    BY DEF Forwarding
  <2>4. buildUpstreamRequest(Url("cdn", "file", file), "cdn") = Url("cache", "cdn", file)
    BY <1>0, UpstreamUrl
  <2>5. RegisterHandler("pypi", 0, link) = pypi(0, link) /\ Home("pypi", 0, file) = Url("cdn", "file", file)
    <3>1. RegisterHandler("pypi", 0, link) = pypi(0, link)
      BY DEF RegisterHandler
    <3> QED
      BY <1>0, <3>1, HomeFields DEF Indexed
  <2>6. \A path \in forwarding.caches :
           buildUpstreamRequest(forwarding.upstreamURL, path) = AtCache(link, file)
    BY <1>0, <2>3, <2>4, UpstreamUrl
  <2>7. link.site \in {"local", "relative"} /\ link.slashes = 1 /\ link.route = "cdn"
    BY <1>0, UrlFields
  <2> HIDE DEF forwarding, link
  <2>8. LeadsTo("pypi", 0, link, file)
    BY <2>2, <2>3, <2>5, <2>6, <2>7, LeadsByRoute
  <2> QED
    BY <2>8 DEF link
<1> QED
  BY <1>1, <1>2, <1>3

\* A link that stands before a prefix of it is a link still.
LEMMA ReplacedType ==
    ASSUME NEW link \in Urls, NEW prefix, prefix.slashes \in Nat, HasPrefix(link, prefix), NEW site \in Sites
    PROVE  /\ Replaced(link, prefix, site) \in Urls
           /\ Replaced(link, prefix, site).site = site
           /\ Replaced(link, prefix, site).route = link.route
           /\ Replaced(link, prefix, site).file = link.file
           /\ Replaced(link, prefix, site).slashes = link.slashes - prefix.slashes
           /\ Replaced(link, prefix, site).base = link.base
<1>1. link.slashes - prefix.slashes \in Nat
  BY DEF HasPrefix, Urls
<1> DEFINE slashes == link.slashes - prefix.slashes
           new == [link EXCEPT !.site = site, !.slashes = slashes]
<1>2. Replaced(link, prefix, site) = new
  BY DEF Replaced
<1> HIDE DEF slashes
<1>3. new \in Urls /\ new.site = site /\ new.route = link.route /\ new.file = link.file
      /\ new.slashes = slashes /\ new.base = link.base
  BY <1>1 DEF Urls, slashes
<1> QED
  BY <1>2, <1>3 DEF slashes

LEMMA Prefixes ==
    ASSUME NEW t \in Tails
    PROVE  /\ galaxyServer(t).site = "origin" /\ galaxyServer(t).slashes = t /\ galaxyServer(t).base = 0
           /\ npmUpstream.site = "origin" /\ npmUpstream.slashes = 0 /\ npmUpstream.base = 0
           /\ npmCache(t).site = "cache" /\ npmCache(t).slashes = t /\ npmCache(t).base = 0
           /\ t \in Nat
BY DEF galaxyServer, npmUpstream, npmCache, Prefix, Tails

\* The fates of an index, registry by registry.
LEMMA GalaxyFates ==
    ASSUME NEW t \in Tails, NEW links, NEW fate \in rewriteCollectionVersionV3(t, links)
    PROVE  \/ HasPrefix(links[1], galaxyServer(t))
              /\ fate = Rewritten(<<Replaced(links[1], galaxyServer(t), "relative")>>)
           \/ links[1].site = "relative" /\ fate = Rewritten(links)
           \/ fate \in {Refused, Panics}
BY DEF rewriteCollectionVersionV3

Renamed(links, remote) == [i \in DOMAIN links |-> Here(links[i], remote)]

LEMMA NpmFates ==
    ASSUME NEW t \in Tails, NEW links, NEW fate \in rewriteJson(t, links)
    PROVE  \/ fate \in {Refused, Panics}
           \/ \E first \in DOMAIN links : \E remote \in {npmUpstream, npmCache(t)} :
                 HasPrefix(links[first], remote) /\ fate = Rewritten(Renamed(links, remote))
<1> USE DEF Renamed
<1> DEFINE null(i) == links[i].site = "null"
           none(i) == Remotes(t, links[i]) = {}
           all(i) == {Rewritten([k \in DOMAIN links |-> Here(links[k], remote)]) : remote \in Remotes(t, links[i])}
           fates(first) ==
             CASE null(first) -> {Panics}
               [] ~null(first) /\ none(first) -> {Refused}
               [] ~none(first) /\ (\E i \in DOMAIN links : null(i)) -> {Panics}
               [] ~none(first) /\ (\A i \in DOMAIN links : ~null(i)) -> all(first)
<1>1. PICK first \in DOMAIN links : fate \in fates(first)
  BY DEF rewriteJson
<1> HIDE DEF null, none, all
<1>2. fate \in {Panics, Refused} \/ fate \in all(first)
  BY <1>1
<1>3. CASE fate \in all(first)
  <2>1. PICK remote \in Remotes(t, links[first]) : fate = Rewritten([k \in DOMAIN links |-> Here(links[k], remote)])
    BY <1>3 DEF all
  <2>2. remote \in {npmUpstream, npmCache(t)} /\ HasPrefix(links[first], remote)
    BY DEF Remotes
  <2> QED
    BY <2>1, <2>2
<1> QED
  BY <1>2, <1>3

Relative(links) == [i \in DOMAIN links |-> [links[i] EXCEPT !.site = "relative", !.route = "cdn"]]

LEMMA PypiFates ==
    ASSUME NEW t \in Tails, NEW links, NEW fate \in rewriteJsonV1(t, links)
    PROVE  \/ fate = Refused
           \/ /\ fate = Rewritten(Relative(links))
              /\ (\A i \in DOMAIN links : AtCDN(t, links[i])) \/ (\A i \in DOMAIN links : Encoded(links[i]))
BY Zenon DEF rewriteJsonV1, Relative

LEMMA RewriteOf ==
    ASSUME NEW t, NEW links
    PROVE  /\ Rewrite("galaxy", t, links) = rewriteCollectionVersionV3(t, links)
           /\ Rewrite("npm", t, links) = rewriteJson(t, links)
           /\ Rewrite("pypi", t, links) = rewriteJsonV1(t, links)
BY DEF Rewrite

LEMMA Fates ==
    /\ \A links : Rewritten(links).fate = "rewritten" /\ Rewritten(links).links = links
    /\ Refused.fate = "refused" /\ Panics.fate = "panic"
BY DEF Rewritten, Refused, Panics

-----------------------------------------------------------------------------
(* Types.                                                                  *)

LEMMA LinksOfSize ==
    ASSUME NEW n \in 1 .. 2, NEW links \in [1 .. n -> Urls]
    PROVE links \in Links
BY DEF Links

LEMMA IndexType ==
    ASSUME NEW kind \in Indexed, NEW t \in Tails, NEW links \in Indexes(kind, t)
    PROVE  links \in [1 .. Size(kind) -> Urls] /\ links \in Links
<1>1. DOMAIN links = 1 .. Size(kind) /\ Size(kind) \in 1 .. 2
  BY IndexShape, Sizes
<1>2. ASSUME NEW i \in DOMAIN links PROVE links[i] \in Urls
  <2>1. i \in Nat
    BY <1>1
  <2> QED
    BY <2>1, IndexShape, HomeFields, MirroredFields, StrangerFields
<1>3. links \in [1 .. Size(kind) -> Urls]
  BY <1>1, <1>2, IndexShape
<1> QED
  BY <1>1, <1>3, LinksOfSize

LEMMA HereType ==
    ASSUME NEW t \in Tails, NEW remote \in {npmUpstream, npmCache(t)}, NEW link \in Urls
    PROVE  Here(link, remote) \in Urls
<1>1. remote.slashes \in Nat /\ "local" \in Sites /\ "garbled" \in Sites
  BY Prefixes DEF Sites
<1>2. [link EXCEPT !.site = "garbled"] \in Urls
  BY <1>1 DEF Urls
<1> QED
  BY <1>1, <1>2, ReplacedType DEF Here

LEMMA FateType ==
    ASSUME NEW kind \in Indexed, NEW t \in Tails, NEW links \in Indexes(kind, t), NEW fate \in Rewrite(kind, t, links)
    PROVE  /\ fate.fate \in {"rewritten", "refused", "panic"}
           /\ fate.fate = "rewritten" => fate.links \in Links /\ DOMAIN fate.links = DOMAIN links
<1>1. /\ links \in [1 .. Size(kind) -> Urls] /\ Size(kind) \in 1 .. 2 /\ links \in Links
      /\ DOMAIN links = 1 .. Size(kind)
  BY IndexType, Sizes
<1>2. ASSUME NEW new, new \in [1 .. Size(kind) -> Urls], fate = Rewritten(new)
      PROVE  fate.fate = "rewritten" /\ fate.links \in Links /\ DOMAIN fate.links = DOMAIN links
  BY <1>1, <1>2, Fates, LinksOfSize
<1>3. CASE kind = "galaxy"
  <2>1. Size(kind) = 1 /\ links[1] \in Urls /\ "relative" \in Sites /\ galaxyServer(t).slashes \in Nat
    BY <1>1, <1>3, Prefixes DEF Size, Sites
  <2>2. ASSUME HasPrefix(links[1], galaxyServer(t))
        PROVE  <<Replaced(links[1], galaxyServer(t), "relative")>> \in [1 .. Size(kind) -> Urls]
    <3>1. Replaced(links[1], galaxyServer(t), "relative") \in Urls
      BY <2>1, <2>2, ReplacedType
    <3> QED
      BY <2>1, <3>1
  <2> QED
    BY <1>1, <1>2, <1>3, <2>2, GalaxyFates, RewriteOf, Fates
<1>4. CASE kind = "npm"
  <2>1. ASSUME NEW remote \in {npmUpstream, npmCache(t)} PROVE Renamed(links, remote) \in [1 .. Size(kind) -> Urls]
    BY <1>1, HereType DEF Renamed
  <2> QED
    BY <1>2, <1>4, <2>1, NpmFates, RewriteOf, Fates
<1>5. CASE kind = "pypi"
  <2>1. \A i \in DOMAIN links : [links[i] EXCEPT !.site = "relative", !.route = "cdn"] \in Urls
    BY <1>1 DEF Urls, Sites
  <2>2. Relative(links) \in [1 .. Size(kind) -> Urls]
    BY <1>1, <2>1 DEF Relative
  <2> QED
    BY <1>2, <1>5, <2>2, PypiFates, RewriteOf, Fates
<1> QED
  BY <1>3, <1>4, <1>5 DEF Indexed

\* If nothing is configured that would spoil them, every link of an index that
\* is at the registry, or that a cache has rewritten already, is rewritten to
\* one that leads to its file.
LEMMA RewrittenLeads ==
    ASSUME NEW kind \in Indexed, NEW links \in Indexes(kind, 0),
           NEW fate \in Rewrite(kind, 0, links), fate.fate = "rewritten",
           NEW i \in DOMAIN links, links[i] \notin Strangers(kind, 0, i)
    PROVE  LeadsTo(kind, 0, fate.links[i], i)
<1>1. /\ DOMAIN links = 1 .. Size(kind) /\ Size(kind) \in 1 .. 2 /\ i \in Nat /\ 0 \in Tails
      /\ links \in [1 .. Size(kind) -> Urls]
  BY IndexShape, IndexType, Sizes DEF Tails
<1>2. \/ /\ links[i] = Home(kind, 0, i)
         /\ \A j \in DOMAIN links : links[j] = Home(kind, 0, j) \/ links[j] \in Strangers(kind, 0, j)
      \/ links[i] = Mirrored(kind, 0, i) /\ \A j \in DOMAIN links : links[j] = Mirrored(kind, 0, j)
  BY <1>1, IndexShape
<1>3. {"relative", "local", "origin", "cdn", "cache"} \subseteq Sites /\ {"file", "tarball", "cdn"} \subseteq Routes
  BY DEF Sites, Routes
<1>4. CASE kind = "galaxy"
  <2>1. i = 1 /\ links[1] \in {Url("origin", "file", 1), Url("relative", "file", 1)}
    BY <1>1, <1>2, <1>4, HomeFields, MirroredFields DEF Size
  <2>2. CASE /\ HasPrefix(links[1], galaxyServer(0))
             /\ fate = Rewritten(<<Replaced(links[1], galaxyServer(0), "relative")>>)
    <3>1. links[1] = Url("origin", "file", 1) /\ links[1] \in Urls
      BY <1>1, <1>3, <2>1, <2>2, Prefixes, UrlFields DEF HasPrefix
    <3>2. Replaced(links[1], galaxyServer(0), "relative") = Url("relative", "file", 1)
      <4> DEFINE new == Replaced(links[1], galaxyServer(0), "relative")
      <4>1. /\ links[1].route = "file" /\ links[1].file = 1 /\ links[1].slashes = 1 /\ links[1].base = 0
            /\ galaxyServer(0).slashes = 0
        BY <1>1, <1>3, <3>1, UrlFields, Prefixes
      <4>2. /\ new \in Urls /\ new.site = "relative" /\ new.route = "file" /\ new.file = 1
            /\ new.slashes = 1 /\ new.base = 0
        BY <1>3, <2>2, <3>1, <4>1, ReplacedType
      <4> HIDE DEF new
      <4>3. new = Url("relative", "file", 1)
        BY <1>3, <4>2, IsUrl
      <4> QED
        BY <4>3 DEF new
    <3> QED
      BY <1>1, <1>4, <2>1, <2>2, <3>2, Fates, RoutesLead
  <2>3. CASE links[1].site = "relative" /\ fate = Rewritten(links)
    <3>1. links[1] = Url("relative", "file", 1)
      BY <1>1, <1>3, <2>1, <2>3, UrlFields
    <3> QED
      BY <1>1, <1>4, <2>1, <2>3, <3>1, Fates, RoutesLead
  <2> QED
    BY <1>1, <1>4, <2>2, <2>3, GalaxyFates, RewriteOf, Fates
<1>5. CASE kind = "npm"
  <2>1. PICK first \in DOMAIN links, remote \in {npmUpstream, npmCache(0)} :
          HasPrefix(links[first], remote) /\ fate = Rewritten(Renamed(links, remote))
    BY <1>1, <1>5, NpmFates, RewriteOf, Fates
  <2>2. /\ links[first].site = remote.site /\ remote.site \in {"origin", "cache"}
        /\ remote.slashes = 0 /\ remote.base = 0 /\ first \in Nat
    BY <1>1, <2>1, Prefixes DEF HasPrefix
  <2>3. links[i] = Url(remote.site, "tarball", i)
    <3>1. CASE /\ links[i] = Home(kind, 0, i)
               /\ \A j \in DOMAIN links : links[j] = Home(kind, 0, j) \/ links[j] \in Strangers(kind, 0, j)
      <4>1. links[first].site # "cache"
        <5>1. Home(kind, 0, first).site = "origin"
          BY <1>1, <1>3, <1>5, <2>2, HomeFields, UrlFields
        <5> QED
          BY <1>1, <1>5, <2>2, <3>1, <5>1, StrangerFields
      <4> QED
        BY <1>1, <1>5, <2>2, <3>1, <4>1, HomeFields
    <3>2. CASE links[i] = Mirrored(kind, 0, i) /\ \A j \in DOMAIN links : links[j] = Mirrored(kind, 0, j)
      <4>1. links[first].site = "cache"
        BY <1>1, <1>3, <1>5, <2>2, <3>2, MirroredFields, UrlFields
      <4> QED
        BY <1>1, <1>5, <2>2, <3>2, <4>1, MirroredFields
    <3> QED
      BY <1>2, <3>1, <3>2
  <2>4. /\ links[i] \in Urls /\ links[i].site = remote.site /\ links[i].route = "tarball"
        /\ links[i].file = i /\ links[i].slashes = 1 /\ links[i].base = 0
    BY <1>1, <1>3, <2>2, <2>3, UrlFields
  <2>5. HasPrefix(links[i], remote)
    BY <2>2, <2>4 DEF HasPrefix
  <2>6. Replaced(links[i], remote, "local") = Url("local", "tarball", i)
    <3> DEFINE new == Replaced(links[i], remote, "local")
    <3>1. /\ new \in Urls /\ new.site = "local" /\ new.route = "tarball" /\ new.file = i
          /\ new.slashes = 1 /\ new.base = 0
      BY <1>3, <2>2, <2>4, <2>5, ReplacedType
    <3> HIDE DEF new
    <3>2. new = Url("local", "tarball", i)
      BY <1>1, <1>3, <3>1, IsUrl
    <3> QED
      BY <3>2 DEF new
  <2>7. fate.links[i] = Url("local", "tarball", i)
    BY <2>1, <2>5, <2>6, Fates DEF Renamed, Here
  <2> QED
    BY <1>1, <1>5, <2>7, RoutesLead
<1>6. CASE kind = "pypi"
  <2>1. fate = Rewritten(Relative(links))
    BY <1>1, <1>6, PypiFates, RewriteOf, Fates
  <2>2. links[i] \in {Url("cdn", "file", i), Url("relative", "cdn", i)}
    BY <1>1, <1>2, <1>6, HomeFields, MirroredFields
  <2>3. links[i] \in Urls /\ links[i].file = i /\ links[i].slashes = 1 /\ links[i].base = 0
    BY <1>1, <1>3, <2>2, UrlFields
  <2> DEFINE new == [links[i] EXCEPT !.site = "relative", !.route = "cdn"]
  <2>4. /\ new \in Urls /\ new.site = "relative" /\ new.route = "cdn" /\ new.file = i
        /\ new.slashes = 1 /\ new.base = 0
    BY <1>3, <2>3 DEF Urls
  <2>5. fate.links[i] = new
    <3>1. fate.links = Relative(links)
      BY <2>1, Fates
    <3> QED
      BY <3>1, Zenon DEF Relative
  <2> HIDE DEF new
  <2>6. new = Url("relative", "cdn", i)
    BY <1>1, <1>3, <2>4, IsUrl
  <2> QED
    BY <1>1, <1>6, <2>5, <2>6, RoutesLead
<1> QED
  BY <1>4, <1>5, <1>6 DEF Indexed

-----------------------------------------------------------------------------
(* One request at a time.                                                  *)

LEMMA DocumentTypes ==
    /\ NoDocument \in AllDocuments
    /\ \A q \in Requests, kind \in Indexed, t \in Tails : Documents(q, kind, t) \subseteq AllDocuments
<1>1. <<>> \in Links
  BY DEF Links
<1>2. NoDocument \in AllDocuments
  BY <1>1 DEF NoDocument, Document, AllDocuments
<1>3. ASSUME NEW q \in Requests, NEW kind \in Indexed, NEW t \in Tails
      PROVE  Documents(q, kind, t) \subseteq AllDocuments
  <2>1. Indexes(kind, t) \subseteq Links
    BY <1>3, IndexType
  <2> QED
    BY <1>3, <2>1 DEF Documents, AllDocuments
<1> QED
  BY <1>2, <1>3

LEMMA DocumentFields ==
    ASSUME NEW q, NEW kind, NEW t, NEW d \in Documents(q, kind, t)
    PROVE  /\ d.for = q /\ d.kind = kind /\ d.links \in Indexes(kind, t)
           /\ d = Document(q, kind, d.links)
BY DEF Documents, Document

LEMMA AllHomeDocument ==
    ASSUME NEW q \in Requests, NEW kind \in Indexed, NEW t \in Tails
    PROVE  /\ Document(q, kind, AllHome(kind, t)) \in Documents(q, kind, t)
           /\ Document(q, kind, AllHome(kind, t)).links = AllHome(kind, t)
           /\ Document(q, kind, AllHome(kind, t)) \in Decoders
<1>1. AllHome(kind, t) \in Indexes(kind, t) /\ AllHome(kind, t) \in Links
  BY AllHomeIsIndex, IndexType
<1> QED
  BY <1>1 DEF Documents, Document, Decoders

LEMMA ModifyKinds == \A forwarding \in Forwardings : forwarding.modify \in Indexed \cup {"nil"}
<1> SUFFICES ASSUME NEW kind \in Kinds, NEW route \in DOMAIN RegisterHandler(kind, 0, Root)
             PROVE RegisterHandler(kind, 0, Root)[route].modify \in Indexed \cup {"nil"}
  BY DEF Forwardings
<1> QED
  BY DEF Kinds, RegisterHandler, galaxy, goproxy, npm, oci, proxy, pypi, rubygem,
         Plainly, Forwarding, Indexed

LEMMA NoRequestType == NoRequest \in Request
BY DocumentTypes
   DEF NoRequest, Request, Stages, Modifies, Statuses, Forms, Sources, Lengths, Outs

LEMMA StepKeeps ==
    ASSUME ForwardInv, NEW q \in Requests, NEW new, ReqOK(tail, q, new), Step(q, new)
    PROVE  ForwardInv'
<1>1. new \in Request
  BY DEF ReqOK, ReqType
<1>2. rq' \in [Requests -> Request] /\ \A p \in Requests : ReqOK(tail, p, rq'[p])
  BY <1>1 DEF ForwardInv, Step
<1>3. \A h \in Handlers : HandlerOK(h)'
  BY DEF ForwardInv, Step, HandlerOK
<1> QED
  BY <1>2, <1>3 DEF ForwardInv, Step

\* A request that has ended leaves only whether its body is stored.
LEMMA EndedOK ==
    ASSUME NEW t, NEW q \in Requests, NEW r \in Request,
           r.st \in {"over", "aborted"}, ~r.open, r.form = "unread", r.doc = NoDocument,
           r.answer = NoDocument, r.length = "upstream", r.kept # "rewritten"
    PROVE  ReqOK(t, q, r)
BY DEF ReqOK, ReqType, BodyAt, LengthAt, Settled, Contains, RefusedRightly, LinksLead

LEMMA OverOK ==
    ASSUME NEW t, NEW q \in Requests, NEW r, r.open = FALSE, r.kept \in {"none", "upstream"}
    PROVE  ReqOK(t, q, Over(r)) /\ ReqOK(t, q, Aborted(r))
<1>1. r.kept \in Lengths \cup {"none"} /\ "aborted" \in Stages
  BY DEF Lengths, Stages
<1>2. /\ Over(r) \in Request /\ Over(r).st = "over" /\ ~Over(r).open /\ Over(r).form = "unread"
      /\ Over(r).doc = NoDocument /\ Over(r).answer = NoDocument
      /\ Over(r).length = "upstream" /\ Over(r).kept = r.kept
  <2>1. Over(r) \in Request
    <3> DEFINE open == r.open
               kept == r.kept
    <3>1. open \in BOOLEAN /\ kept \in Lengths \cup {"none"}
      BY <1>1
    <3> HIDE DEF open, kept
    <3>2. [NoRequest EXCEPT !.open = open, !.kept = kept] \in Request
      BY <3>1, NoRequestType DEF Request
    <3> QED
      BY <3>2 DEF Over, open, kept
  <2> QED
    BY <2>1 DEF Over, NoRequest
<1>3. /\ Aborted(r) \in Request /\ Aborted(r).st = "aborted" /\ ~Aborted(r).open /\ Aborted(r).form = "unread"
      /\ Aborted(r).doc = NoDocument /\ Aborted(r).answer = NoDocument
      /\ Aborted(r).length = "upstream" /\ Aborted(r).kept = r.kept
  BY <1>1, <1>2 DEF Aborted, Request
<1> QED
  BY <1>2, <1>3, EndedOK

LEMMA UnansweredStep ==
    ASSUME ForwardInv, NEW q \in Requests, Unforwarded(q) \/ Unreachable(q)
    PROVE  ForwardInv'
<1>1. {501, 403, 200, 500, 502, 504} \subseteq Outs /\ {"over", "aborted"} \subseteq Stages
  BY DEF Outs, Stages
<1>2. CASE Unforwarded(q)
  <2>1. PICK status \in {501, 403}, st \in {"over", "aborted"} : Step(q, [NoRequest EXCEPT !.st = st, !.out = status])
    BY <1>2 DEF Unforwarded
  <2> DEFINE new == [NoRequest EXCEPT !.st = st, !.out = status]
  <2>2. new \in Request
    <3>1. st \in Stages /\ status \in Outs
      BY <1>1
    <3> QED
      BY <3>1, NoRequestType DEF Request
  <2>3. /\ new.st \in {"over", "aborted"} /\ ~new.open /\ new.form = "unread" /\ new.doc = NoDocument
        /\ new.answer = NoDocument /\ new.length = "upstream" /\ new.kept = "none"
    BY DEF NoRequest
  <2> HIDE DEF new
  <2>4. ReqOK(tail, q, new)
    BY <2>2, <2>3, EndedOK
  <2> QED
    BY <2>1, <2>4, StepKeeps DEF new
<1>3. CASE \E status \in {200, 500, 502, 504} : Step(q, [NoRequest EXCEPT !.out = status])
  <2>1. PICK status \in {200, 500, 502, 504} : Step(q, [NoRequest EXCEPT !.out = status])
    BY <1>3
  <2> DEFINE new == [NoRequest EXCEPT !.out = status]
  <2>2. new \in Request
    BY <1>1, NoRequestType DEF Request
  <2>3. /\ new.st \in {"over", "aborted"} /\ ~new.open /\ new.form = "unread" /\ new.doc = NoDocument
        /\ new.answer = NoDocument /\ new.length = "upstream" /\ new.kept = "none"
    BY DEF NoRequest
  <2> HIDE DEF new
  <2>4. ReqOK(tail, q, new)
    BY <2>2, <2>3, EndedOK
  <2> QED
    BY <2>1, <2>4, StepKeeps DEF new
<1>4. CASE Step(q, [NoRequest EXCEPT !.st = "aborted"])
  <2> DEFINE new == [NoRequest EXCEPT !.st = "aborted"]
  <2>2. new \in Request
    BY <1>1, NoRequestType DEF Request
  <2>3. /\ new.st \in {"over", "aborted"} /\ ~new.open /\ new.form = "unread" /\ new.doc = NoDocument
        /\ new.answer = NoDocument /\ new.length = "upstream" /\ new.kept = "none"
    BY DEF NoRequest
  <2> HIDE DEF new
  <2>4. ReqOK(tail, q, new)
    BY <2>2, <2>3, EndedOK
  <2> QED
    BY <1>4, <2>4, StepKeeps DEF new
<1>5. CASE Unreachable(q)
  <2>1. CASE \E recovery \in {forwarding.recovery : forwarding \in Forwardings} :
             \E status \in IF recovery THEN {200} ELSE {500, 502, 504} : Step(q, [NoRequest EXCEPT !.out = status])
    <3>1. PICK recovery \in {forwarding.recovery : forwarding \in Forwardings} :
             \E status \in IF recovery THEN {200} ELSE {500, 502, 504} : Step(q, [NoRequest EXCEPT !.out = status])
      BY <2>1
    <3>2. PICK status \in IF recovery THEN {200} ELSE {500, 502, 504} : Step(q, [NoRequest EXCEPT !.out = status])
      BY <3>1
    <3>3. status \in {200, 500, 502, 504}
      OBVIOUS
    <3> QED
      BY <1>3, <3>2, <3>3
  <2> QED
    BY <1>4, <1>5, <2>1 DEF Unreachable
<1> QED
  BY <1>2, <1>5

LEMMA AnsweredStep ==
    ASSUME ForwardInv, NEW q \in Requests, Answered(q)
    PROVE  ForwardInv'
<1>1. PICK modify \in {forwarding.modify : forwarding \in Forwardings},
           status \in Statuses, src \in {"ingested", "stored", "network"} :
        Step(q, [NoRequest EXCEPT !.st = "answered", !.modify = modify,
                    !.status = status, !.src = src, !.open = TRUE])
  BY DEF Answered
<1> DEFINE new == [NoRequest EXCEPT !.st = "answered", !.modify = modify,
                      !.status = status, !.src = src, !.open = TRUE]
<1>2. modify \in Modifies /\ "answered" \in Stages /\ src \in Sources
  BY ModifyKinds DEF Stages, Modifies, Sources
<1>3. new \in Request
  BY <1>2, NoRequestType DEF Request
<1>4. /\ new.st = "answered" /\ new.open /\ new.modify = modify /\ new.form = "unread"
      /\ new.doc = NoDocument /\ new.src = src /\ new.answer = NoDocument
      /\ new.length = "upstream" /\ new.kept = "none"
  BY DEF NoRequest
<1> HIDE DEF new
<1>5. ReqOK(tail, q, new)
  <2>1. ReqType(tail, q, new) /\ Contains(tail, q, new)
    BY <1>3, <1>4 DEF ReqType, Contains
  <2>2. BodyAt(new) /\ LengthAt(new) /\ Settled(new) /\ RefusedRightly(tail, new) /\ LinksLead(tail, q, new)
    BY <1>4 DEF BodyAt, LengthAt, Settled, RefusedRightly, LinksLead
  <2> QED
    BY <2>1, <2>2 DEF ReqOK
<1> QED
  BY <1>1, <1>5, StepKeeps DEF new

LEMMA SentType ==
    ASSUME NEW r \in Request, NEW out \in Outs
    PROVE  [r EXCEPT !.st = "sent", !.out = out] \in Request
<1>1. "sent" \in Stages
  BY DEF Stages
<1> QED
  BY <1>1 DEF Request

LEMMA RefusedType ==
    ASSUME NEW r \in Request, NEW out \in Outs, NEW h
    PROVE  [r EXCEPT !.st = "sent", !.out = out, !.spoilt = h \in spoilt] \in Request
<1>1. "sent" \in Stages
  BY DEF Stages
<1>2. ASSUME NEW sp \in BOOLEAN
      PROVE  [r EXCEPT !.st = "sent", !.out = out, !.spoilt = sp] \in Request
  BY <1>1 DEF Request
<1>3. (h \in spoilt) = TRUE \/ (h \in spoilt) = FALSE
  OBVIOUS
<1> QED
  BY <1>2, <1>3

LEMMA RewrittenType ==
    ASSUME NEW r \in Request, NEW out \in Outs, NEW h, NEW answer \in AllDocuments
    PROVE  [r EXCEPT !.st = "sent", !.out = out, !.spoilt = h \in spoilt,
                     !.length = "rewritten", !.answer = answer] \in Request
<1>1. "sent" \in Stages /\ "rewritten" \in Lengths
  BY DEF Stages, Lengths
<1>2. ASSUME NEW sp \in BOOLEAN
      PROVE  [r EXCEPT !.st = "sent", !.out = out, !.spoilt = sp,
                       !.length = "rewritten", !.answer = answer] \in Request
  BY <1>1 DEF Request
<1>3. (h \in spoilt) = TRUE \/ (h \in spoilt) = FALSE
  OBVIOUS
<1> QED
  BY <1>2, <1>3

\* An answer that leaves the body to Forward, and is not of an index.
LEMMA SentStep ==
    ASSUME ForwardInv, NEW q \in Requests, NotModified(q) \/ Relay(q) \/ NotGzip(q)
    PROVE  ForwardInv'
<1>1. ReqOK(tail, q, rq[q]) /\ rq[q] \in Request /\ rq[q].st = "answered" /\ rq[q].form = "unread"
  BY DEF ForwardInv, NotModified, Relay, NotGzip, ReqOK, BodyAt
<1>2. PICK status \in {200, 304, 404, 500} : Step(q, Sent(q, status))
  BY <1>1 DEF NotModified, Relay, NotGzip, Request, Statuses
<1> DEFINE new == Sent(q, status)
<1>a. "sent" \in Stages /\ status \in Outs
  BY DEF Stages, Outs
<1>b. new \in Request
  BY <1>1, <1>a DEF Sent, Request
<1>3. /\ new.st = "sent" /\ new.out = status
      /\ new.open = rq[q].open /\ new.modify = rq[q].modify /\ new.form = rq[q].form
      /\ new.doc = rq[q].doc /\ new.src = rq[q].src /\ new.answer = rq[q].answer
      /\ new.length = rq[q].length /\ new.kept = rq[q].kept
  BY <1>1 DEF Sent, Request
<1> HIDE DEF new
<1>4. ReqOK(tail, q, new)
  <2>1. ReqType(tail, q, new) /\ Contains(tail, q, new) /\ LengthAt(new)
    BY <1>1, <1>b, <1>3 DEF ReqOK, ReqType, Contains, LengthAt
  <2>2. BodyAt(new) /\ Settled(new) /\ RefusedRightly(tail, new) /\ LinksLead(tail, q, new)
    BY <1>1, <1>2, <1>3 DEF ReqOK, BodyAt, Settled, RefusedRightly, LinksLead
  <2> QED
    BY <2>1, <2>2 DEF ReqOK
<1> QED
  BY <1>2, <1>4, StepKeeps DEF new

\* Closing the body stores at most the header with its own length.
LEMMA ClosedOK ==
    ASSUME NEW r \in Request, r.length = "upstream", r.kept # "rewritten",
           NEW whole \in BOOLEAN, NEW c \in Closed(r, whole)
    PROVE  \E kept \in {"none", "upstream"} : c = [r EXCEPT !.open = FALSE, !.kept = kept]
BY DEF Closed, Request, Lengths

LEMMA ShortValidatorStep ==
    ASSUME ForwardInv, NEW q \in Requests, ShortValidator(q)
    PROVE  ForwardInv'
<1>1. /\ rq[q] \in Request /\ rq[q].length = "upstream" /\ rq[q].kept # "rewritten"
  BY DEF ForwardInv, ShortValidator, ReqOK, LengthAt
<1>2. PICK whole \in BOOLEAN : \E r \in Closed(rq[q], whole) : Step(q, Aborted(r))
  BY DEF ShortValidator
<1>3. PICK r \in Closed(rq[q], whole) : Step(q, Aborted(r))
  BY <1>2
<1>4. PICK kept \in {"none", "upstream"} : r = [rq[q] EXCEPT !.open = FALSE, !.kept = kept]
  BY <1>1, ClosedOK
<1>5. r.open = FALSE /\ r.kept \in {"none", "upstream"}
  BY <1>1, <1>4 DEF Request
<1> QED
  BY <1>3, <1>5, OverOK, StepKeeps

LEMMA CloseBodyStep ==
    ASSUME ForwardInv, NEW q \in Requests, CloseBody(q)
    PROVE  ForwardInv'
<1>1. ReqOK(tail, q, rq[q]) /\ rq[q] \in Request /\ rq[q].st = "sent"
  BY DEF ForwardInv, CloseBody
<1>2. rq[q].kept \in {"none", "upstream"} /\ rq[q].open \in BOOLEAN
  BY <1>1 DEF ReqOK, LengthAt, Request, Lengths
<1>3. CASE rq[q].src \in {"ingested", "stored"} /\ ~rq[q].open /\ Step(q, Aborted(rq[q]))
  <2>1. rq[q].open = FALSE
    BY <1>2, <1>3
  <2> QED
    BY <1>2, <1>3, <2>1, OverOK, StepKeeps
<1>4. CASE /\ rq[q].src # "buffer" /\ rq[q].open
           /\ \E whole \in BOOLEAN : \E r \in Closed(rq[q], whole) :
                Step(q, Over(r)) \/ Step(q, Aborted(r))
  <2>1. PICK whole \in BOOLEAN : \E r \in Closed(rq[q], whole) : Step(q, Over(r)) \/ Step(q, Aborted(r))
    BY <1>4
  <2>2. PICK r \in Closed(rq[q], whole) : Step(q, Over(r)) \/ Step(q, Aborted(r))
    BY <2>1
  <2>3. rq[q].length = "upstream" /\ rq[q].kept # "rewritten"
    BY <1>1, <1>4 DEF ReqOK, LengthAt
  <2>4. PICK kept \in {"none", "upstream"} : r = [rq[q] EXCEPT !.open = FALSE, !.kept = kept]
    BY <1>1, <2>3, ClosedOK
  <2>5. r.kept \in {"none", "upstream"} /\ r.open = FALSE
    BY <1>1, <2>4 DEF Request
  <2> QED
    BY <2>2, <2>5, OverOK, StepKeeps
<1>5. CASE /\ rq[q].src = "buffer" \/ (rq[q].src = "network" /\ ~rq[q].open)
           /\ Step(q, Over(rq[q]))
  <2>1. rq[q].open = FALSE
    BY <1>1, <1>2, <1>5 DEF ReqOK, BodyAt
  <2> QED
    BY <1>2, <1>5, <2>1, OverOK, StepKeeps
<1> QED
  BY <1>3, <1>4, <1>5 DEF CloseBody

\* What reading the body finds.
LEMMA ReadOK ==
    ASSUME ForwardInv, NEW q \in Requests, rq[q].st = "answered", rq[q].modify # "nil", NEW read \in Read(q)
    PROVE  /\ read \in Request /\ read.modify = rq[q].modify /\ read.modify \in Indexed
           /\ read.form \in Forms
           /\ read.doc = NoDocument \/ read.doc \in Documents(q, read.modify, tail)
           /\ Contains(tail, q, read)
           /\ read.length = "upstream" /\ read.kept # "rewritten" /\ read.answer = NoDocument
           /\ read.src = rq[q].src /\ read.src # "buffer"
<1>1. /\ rq[q] \in Request /\ rq[q].modify \in Indexed /\ rq[q].length = "upstream" /\ rq[q].kept # "rewritten"
      /\ rq[q].answer = NoDocument /\ rq[q].src # "buffer" /\ rq[q].status \in Statuses /\ tail \in Tails
  BY DEF ForwardInv, ReqOK, BodyAt, LengthAt, Request, Modifies
<1>2. PICK form \in Bodies(rq[q].status) :
        \E doc \in Content(q, rq[q].modify, form) : read = [rq[q] EXCEPT !.form = form, !.doc = doc]
  <2>1. PICK form \in Bodies(rq[q].status) :
          read \in {[rq[q] EXCEPT !.form = form, !.doc = doc] : doc \in Content(q, rq[q].modify, form)}
    BY Zenon DEF Read
  <2> QED
    BY <2>1, Zenon
<1>3. PICK doc \in Content(q, rq[q].modify, form) : read = [rq[q] EXCEPT !.form = form, !.doc = doc]
  BY <1>2
<1>4. form \in Forms
  BY <1>1 DEF Bodies, Forms, Statuses
<1>5. /\ doc \in AllDocuments
      /\ doc = NoDocument \/ doc \in Documents(q, rq[q].modify, tail)
      /\ form \in {"good", "trailing"} => doc \in Documents(q, rq[q].modify, tail)
      /\ form = "trailing" => doc.links = AllHome(rq[q].modify, tail)
  <2>1. CASE form \notin {"good", "trailing"}
    BY <2>1, DocumentTypes DEF Content
  <2>2. CASE form = "good"
    <3>1. doc \in Documents(q, rq[q].modify, tail)
      BY <2>2 DEF Content
    <3> QED
      BY <1>1, <2>2, <3>1, DocumentTypes
  <2>3. CASE form = "trailing"
    <3>1. doc = Document(q, rq[q].modify, AllHome(rq[q].modify, tail))
      BY <2>3 DEF Content
    <3> QED
      BY <1>1, <2>3, <3>1, AllHomeDocument, DocumentTypes
  <2> QED
    BY <2>1, <2>2, <2>3
<1>6. read \in Request
  <2>1. form \in Forms \cup {"unread"}
    BY <1>4
  <2>2. [rq[q] EXCEPT !.form = form, !.doc = doc] \in Request
    BY <1>1, <1>5, <2>1 DEF Request
  <2> QED
    BY <1>3, <2>2
<1>7. /\ read.form = form /\ read.doc = doc /\ read.modify = rq[q].modify /\ read.length = rq[q].length
      /\ read.kept = rq[q].kept /\ read.answer = rq[q].answer /\ read.src = rq[q].src
  BY <1>1, <1>3 DEF Request
<1> QED
  BY <1>1, <1>4, <1>5, <1>6, <1>7 DEF Contains

LEMMA ReadBodyStep ==
    ASSUME ForwardInv, NEW q \in Requests, ReadBody(q)
    PROVE  ForwardInv'
<1>1. PICK read \in Read(q) : \E r \in Closed(read, read.form # "cut") : Step(q, Copied(r))
  BY DEF ReadBody
<1>2. PICK r \in Closed(read, read.form # "cut") : Step(q, Copied(r))
  BY <1>1
<1>3. /\ read \in Request /\ read.modify \in Indexed /\ read.form \in Forms
      /\ read.doc = NoDocument \/ read.doc \in Documents(q, read.modify, tail)
      /\ Contains(tail, q, read)
      /\ read.length = "upstream" /\ read.kept # "rewritten" /\ read.answer = NoDocument
      /\ read.src # "buffer"
  BY ReadOK DEF ReadBody
<1>4. PICK kept \in {"none", "upstream"} : r = [read EXCEPT !.open = FALSE, !.kept = kept]
  <2>1. (read.form # "cut") \in BOOLEAN
    OBVIOUS
  <2> QED
    BY <1>3, <2>1, ClosedOK
<1>5. "sent" \in Stages /\ "buffered" \in Stages /\ "buffer" \in Sources /\ 500 \in Outs /\ kept \in Lengths \cup {"none"}
  BY DEF Stages, Outs, Lengths, Sources
<1>6. r \in Request
  <2>1. [read EXCEPT !.open = FALSE, !.kept = kept] \in Request
    BY <1>3, <1>5, ZenonT(60) DEF Request
  <2> QED
    BY <1>4, <2>1
<1>7. /\ ~r.open /\ r.kept = kept /\ r.modify = read.modify /\ r.form = read.form /\ r.doc = read.doc
      /\ r.src = read.src /\ r.length = "upstream" /\ r.answer = NoDocument
  BY <1>3, <1>4 DEF Request
<1>8. CASE r.form = "cut"
  <2> DEFINE new == [r EXCEPT !.st = "sent", !.out = 500]
  <2>0. PICK out \in Outs : out = 500
    BY <1>5
  <2>1. new \in Request
    <3>1. [r EXCEPT !.st = "sent", !.out = out] \in Request
      BY <1>6, SentType
    <3> QED
      BY <2>0, <3>1
  <2>2. /\ new.st = "sent" /\ ~new.open /\ new.kept = kept /\ new.modify = r.modify
        /\ new.form = "cut" /\ new.doc = r.doc /\ new.length = "upstream" /\ new.answer = NoDocument
        /\ new.src = r.src
    BY <1>6, <1>7, <1>8 DEF Request
  <2>3. Copied(r) = new
    BY <1>8 DEF Copied
  <2> HIDE DEF new
  <2>4. ReqType(tail, q, new) /\ Contains(tail, q, new) /\ LengthAt(new)
    BY <1>3, <1>7, <2>1, <2>2 DEF ReqType, Contains, LengthAt
  <2>5. BodyAt(new) /\ Settled(new) /\ RefusedRightly(tail, new) /\ LinksLead(tail, q, new)
    BY <1>3, <1>7, <2>2 DEF BodyAt, Settled, RefusedRightly, LinksLead
  <2>6. ReqOK(tail, q, new)
    BY <2>4, <2>5 DEF ReqOK
  <2> QED
    BY <1>2, <2>3, <2>6, StepKeeps
<1>9. CASE r.form # "cut"
  <2> DEFINE new == [r EXCEPT !.st = "buffered", !.src = "buffer"]
  <2>1. new \in Request
    BY <1>5, <1>6 DEF Request
  <2>2. /\ new.st = "buffered" /\ ~new.open /\ new.kept = kept /\ new.modify = r.modify /\ new.src = "buffer"
        /\ new.form = r.form /\ new.doc = r.doc /\ new.length = "upstream" /\ new.answer = NoDocument
    BY <1>6, <1>7 DEF Request
  <2>3. Copied(r) = new
    BY <1>9 DEF Copied
  <2>4. new.form # "unread"
    BY <1>3, <1>7, <2>2 DEF Forms
  <2> HIDE DEF new
  <2>5. ReqType(tail, q, new) /\ Contains(tail, q, new) /\ LengthAt(new)
    BY <1>3, <1>7, <2>1, <2>2 DEF ReqType, Contains, LengthAt
  <2>6. BodyAt(new) /\ Settled(new) /\ RefusedRightly(tail, new) /\ LinksLead(tail, q, new)
    BY <1>3, <1>7, <1>9, <2>2, <2>4 DEF BodyAt, Settled, RefusedRightly, LinksLead
  <2>7. ReqOK(tail, q, new)
    BY <2>5, <2>6 DEF ReqOK
  <2> QED
    BY <1>2, <2>3, <2>7, StepKeeps
<1> QED
  BY <1>8, <1>9

-----------------------------------------------------------------------------
(* modifyBody with a JSON handler.                                         *)

LEMMA NotDocuments ==
    /\ NoDocument.kind = "nil" /\ Clean.kind = "clean" /\ Failed.kind = "failed" /\ Junk.kind = "junk"
    /\ \A q, t, kind \in Indexed : \A d \in Documents(q, kind, t) : d \notin {NoDocument, Clean, Failed, Junk}
<1>1. NoDocument.kind = "nil" /\ Clean.kind = "clean" /\ Failed.kind = "failed" /\ Junk.kind = "junk"
  BY DEF NoDocument, Clean, Failed, Junk, Document
<1> QED
  BY <1>1, DocumentFields DEF Indexed

\* What handler h makes of the body of r: a document, if any, of this request
\* or of the one that spoilt h, and what h holds afterwards.
LEMMA DecodeOK ==
    ASSUME ForwardInv, NEW q \in Requests, NEW r, ReqOK(tail, q, r), NEW h \in Handlers,
           r.form \notin {"cut", "unread", "untyped"},
           NEW d \in Decode(h, r.form, r.doc)
    PROVE  /\ d[2] \in Decoders
           /\ d[2] # Clean => h \in spoilt \/ r.form \in {"broken", "empty", "trailing"}
           /\ d[2] \notin {Clean, Failed, Junk} => d[2] = Document(q, r.modify, AllHome(r.modify, tail)) /\ r.modify \in Indexed
           /\ \/ d[1] = NoDocument
              \/ \E p \in Requests, kind \in Indexed : d[1] \in Documents(p, kind, tail)
           /\ \/ d[1] \in {NoDocument, r.doc}
              \/ h \in spoilt /\ \E kind \in Indexed : d[1].links = AllHome(kind, tail)
           /\ h \notin spoilt /\ r.form = "good" => d[1] = r.doc
<1>1. /\ json[h] \in Decoders /\ HandlerOK(h)
      /\ r.form \in {"good", "trailing", "broken", "misfit", "empty"} /\ tail \in Tails
      /\ r.doc = NoDocument \/ r.doc \in Documents(q, r.modify, tail)
      /\ Contains(tail, q, r)
  BY DEF ForwardInv, ReqOK, ReqType, Request, Forms
<1>2. {Clean, Failed, Junk} \subseteq Decoders
  BY DEF Decoders
<1>3. Clean # Failed /\ Clean # Junk
  BY NotDocuments
<1>4. CASE json[h] \in {Failed, Junk}
  <2>1. Decode(h, r.form, r.doc) = {<<NoDocument, Failed>>}
    BY <1>3, <1>4 DEF Decode
  <2>2. d[1] = NoDocument /\ d[2] = Failed
    BY <2>1
  <2>3. h \in spoilt
    BY <1>1, <1>3, <1>4 DEF HandlerOK
  <2> QED
    BY <1>2, <2>2, <2>3
<1>5. CASE json[h] \notin {Clean, Failed, Junk}
  <2>1. Decode(h, r.form, r.doc) = {<<json[h], Clean>>}
    BY <1>5 DEF Decode
  <2>2. d[1] = json[h] /\ d[2] = Clean
    BY <2>1
  <2>3. h \in spoilt
    BY <1>1, <1>5 DEF HandlerOK
  <2>4. PICK p \in Requests, kind \in Indexed : json[h] = Document(p, kind, AllHome(kind, tail))
    BY <1>1, <1>5 DEF HandlerOK
  <2>5. json[h] \in Documents(p, kind, tail) /\ json[h].links = AllHome(kind, tail)
    BY <1>1, <2>4, AllHomeDocument
  <2> QED
    BY <1>2, <2>2, <2>3, <2>5
<1>6. CASE json[h] = Clean /\ r.form \in {"broken", "empty", "misfit"}
  <2>1. Decode(h, r.form, r.doc) \in {{<<NoDocument, Failed>>}, {<<NoDocument, Clean>>}}
        /\ (r.form = "misfit" => Decode(h, r.form, r.doc) = {<<NoDocument, Clean>>})
    BY <1>3, <1>6 DEF Decode
  <2>2. d[1] = NoDocument /\ d[2] \in {Failed, Clean} /\ (r.form = "misfit" => d[2] = Clean)
    BY <2>1
  <2> QED
    BY <1>2, <1>6, <2>2
<1>7. CASE json[h] = Clean /\ r.form = "good"
  <2>1. Decode(h, r.form, r.doc) = {<<r.doc, Clean>>}
    BY <1>3, <1>7 DEF Decode
  <2>2. d[1] = r.doc /\ d[2] = Clean
    BY <2>1
  <2>3. r.modify \in Indexed /\ r.doc \in Documents(q, r.modify, tail)
    BY <1>1, <1>7 DEF Contains
  <2> QED
    BY <1>2, <2>2, <2>3
<1>8. CASE json[h] = Clean /\ r.form = "trailing"
  <2>1. Decode(h, r.form, r.doc) = {<<r.doc, left>> : left \in {Clean, Junk, r.doc}}
    BY <1>3, <1>8 DEF Decode
  <2>2. d[1] = r.doc /\ d[2] \in {Clean, Junk, r.doc}
    BY <2>1
  <2>3. /\ r.modify \in Indexed /\ r.doc \in Documents(q, r.modify, tail)
        /\ r.doc = Document(q, r.modify, AllHome(r.modify, tail))
    BY <1>1, <1>8, DocumentFields DEF Contains
  <2>4. r.doc \in Decoders
    BY <1>1, <2>3, AllHomeDocument
  <2> QED
    BY <1>2, <1>8, <2>2, <2>3, <2>4
<1> QED
  BY <1>1, <1>4, <1>5, <1>6, <1>7, <1>8

LEMMA ModifiedOK ==
    ASSUME ForwardInv, NEW q \in Requests, NEW r, ReqOK(tail, q, r), NEW h \in Handlers,
           r.st = "buffered", r.form # "untyped",
           NEW d \in Decode(h, r.form, r.doc), NEW fate \in Fate(r.modify, d[1])
    PROVE  ReqOK(tail, q, Modified(r, h, d[1], fate))
<1>1. /\ r \in Request /\ r.modify \in Indexed /\ r.form \notin {"cut", "unread"}
      /\ ~r.open /\ r.src = "buffer" /\ r.answer = NoDocument /\ r.length = "upstream"
      /\ r.kept # "rewritten" /\ tail \in Tails
  BY DEF ForwardInv, ReqOK, ReqType, BodyAt, LengthAt
<1>2. "sent" \in Stages /\ "buffer" \in Sources /\ 500 \in Outs /\ "rewritten" \in Lengths
  BY DEF Stages, Sources, Outs, Lengths
<1>3. r.status \in Outs /\ r.status # 500
  BY <1>1 DEF Outs, Request, Statuses
<1>4. \/ fate = Refused
      \/ /\ d[1] # NoDocument /\ d[1].kind = r.modify /\ d[1].links \in Indexes(r.modify, tail)
         /\ fate \in Rewrite(r.modify, tail, d[1].links)
         /\ \E p \in Requests : d[1] \in Documents(p, r.modify, tail)
  <2>1. CASE d[1].kind # r.modify
    BY <2>1 DEF Fate
  <2>2. CASE d[1].kind = r.modify
    <3>1. d[1] # NoDocument
      BY <1>1, <2>2, NotDocuments DEF Indexed
    <3>2. PICK p \in Requests, kind \in Indexed : d[1] \in Documents(p, kind, tail)
      BY <1>1, <3>1, DecodeOK
    <3>3. kind = r.modify /\ d[1].links \in Indexes(kind, tail)
      BY <2>2, <3>2, DocumentFields
    <3> QED
      BY <2>2, <3>1, <3>2, <3>3 DEF Fate
  <2> QED
    BY <2>1, <2>2
<1>5. \/ d[1] \in {NoDocument, r.doc}
      \/ h \in spoilt /\ \E kind \in Indexed : d[1].links = AllHome(kind, tail)
  BY <1>1, DecodeOK
<1>6. CASE fate.fate = "panic"
  <2>1. r.open = FALSE /\ r.kept \in {"none", "upstream"}
    BY <1>1 DEF Request, Lengths
  <2>2. Modified(r, h, d[1], fate) = Aborted(r)
    BY <1>6 DEF Modified
  <2> QED
    BY <2>1, <2>2, OverOK
<1>7. CASE fate.fate = "refused"
  <2> DEFINE new == [r EXCEPT !.st = "sent", !.out = 500, !.spoilt = h \in spoilt]
  <2>0. PICK out \in Outs : out = 500
    BY <1>2
  <2>1. Modified(r, h, d[1], fate) = new
    BY <1>7 DEF Modified
  <2>2. new \in Request
    <3>1. [r EXCEPT !.st = "sent", !.out = out, !.spoilt = h \in spoilt] \in Request
      BY <1>1, RefusedType
    <3> QED
      BY <2>0, <3>1
  <2>3. /\ new.st = "sent" /\ ~new.open /\ new.kept = r.kept /\ new.src = "buffer"
        /\ new.modify = r.modify /\ new.form = r.form /\ new.doc = r.doc
        /\ new.answer = NoDocument /\ new.length = "upstream"
    BY <1>1 DEF Request
  <2>4. new.spoilt <=> h \in spoilt
    BY <1>1 DEF Request
  <2> HIDE DEF new
  <2>5. ReqType(tail, q, new) /\ Contains(tail, q, new) /\ LengthAt(new)
    BY <1>1, <2>2, <2>3 DEF ReqOK, ReqType, Contains, LengthAt
  <2>6. BodyAt(new) /\ Settled(new) /\ LinksLead(tail, q, new)
    BY <2>3 DEF BodyAt, Settled, LinksLead
  <2>7. RefusedRightly(tail, new)
    <3> SUFFICES ASSUME new.form = "good", h \notin spoilt,
                        \A i \in DOMAIN new.doc.links : new.doc.links[i] \notin Strangers(new.modify, tail, i)
                 PROVE  FALSE
      BY <2>4 DEF RefusedRightly
    <3>1. d[1] = r.doc /\ r.doc \in Documents(q, r.modify, tail)
      BY <1>1, <2>3, DecodeOK DEF ReqOK, Contains
    <3>2. d[1].kind = r.modify /\ d[1].links \in Indexes(r.modify, tail)
      BY <3>1, DocumentFields
    <3>3. fate \in Rewrite(r.modify, tail, d[1].links)
      BY <3>2 DEF Fate
    <3> QED
      BY <1>1, <1>7, <2>3, <3>1, <3>2, <3>3, RefusedOverStrangers
  <2> QED
    BY <2>1, <2>5, <2>6, <2>7 DEF ReqOK
<1>8. CASE fate.fate = "rewritten"
  <2> DEFINE answer == [d[1] EXCEPT !.links = fate.links]
             new == [r EXCEPT !.st = "sent", !.out = r.status, !.spoilt = h \in spoilt,
                              !.length = "rewritten", !.answer = answer]
  <2>1. Modified(r, h, d[1], fate) = new
    BY <1>8 DEF Modified
  <2>2. /\ d[1] # NoDocument /\ d[1].kind = r.modify /\ d[1].links \in Indexes(r.modify, tail)
        /\ fate \in Rewrite(r.modify, tail, d[1].links)
        /\ \E p \in Requests : d[1] \in Documents(p, r.modify, tail)
    BY <1>4, <1>8 DEF Refused
  <2>3. d[1] \in AllDocuments /\ fate.links \in Links
    BY <1>1, <1>8, <2>2, DocumentTypes, FateType
  <2>4. answer \in AllDocuments
    BY <2>3 DEF AllDocuments
  <2>5. answer.kind = r.modify /\ answer.for = d[1].for /\ answer.links = fate.links
    BY <2>2, <2>3 DEF AllDocuments
  <2> HIDE DEF answer
  <2>6. new \in Request
    BY <1>1, <1>3, <2>4, RewrittenType
  <2>7. /\ new.st = "sent" /\ ~new.open /\ new.kept = r.kept /\ new.src = "buffer"
        /\ new.modify = r.modify /\ new.form = r.form /\ new.doc = r.doc
        /\ new.answer = answer /\ new.out = r.status
    BY <1>1 DEF Request
  <2>8. new.spoilt <=> h \in spoilt
    BY <1>1 DEF Request
  <2> HIDE DEF new
  <2>9. ReqType(tail, q, new) /\ Contains(tail, q, new) /\ LengthAt(new)
    BY <1>1, <2>5, <2>6, <2>7 DEF ReqOK, ReqType, Contains, LengthAt
  <2>10. BodyAt(new) /\ Settled(new) /\ RefusedRightly(tail, new)
    BY <1>3, <2>7 DEF BodyAt, Settled, RefusedRightly
  <2>11. LinksLead(tail, q, new)
    <3> SUFFICES ASSUME h \notin spoilt
                 PROVE  /\ answer.for = q
                        /\ DOMAIN answer.links = DOMAIN r.doc.links
                        /\ tail = 0 =>
                              \A i \in DOMAIN r.doc.links :
                                  r.doc.links[i] \notin Strangers(r.modify, 0, i) =>
                                      LeadsTo(r.modify, 0, answer.links[i], i)
      BY <2>7, <2>8 DEF LinksLead
    <3>1. d[1] = r.doc /\ r.doc \in Documents(q, r.modify, tail)
      BY <1>5, <2>2 DEF ReqOK, ReqType
    <3>2. d[1].for = q
      BY <3>1, DocumentFields
    <3>3. DOMAIN answer.links = DOMAIN r.doc.links
      BY <1>1, <1>8, <2>2, <2>5, <3>1, FateType
    <3>4. ASSUME tail = 0, NEW i \in DOMAIN r.doc.links, r.doc.links[i] \notin Strangers(r.modify, 0, i)
          PROVE  LeadsTo(r.modify, 0, answer.links[i], i)
      BY <1>1, <1>8, <2>2, <2>5, <3>1, <3>4, RewrittenLeads
    <3> QED
      BY <2>5, <3>2, <3>3, <3>4
  <2> QED
    BY <2>1, <2>9, <2>10, <2>11 DEF ReqOK
<1>9. fate.fate \in {"rewritten", "refused", "panic"}
  BY <1>1, <1>4, FateType DEF Refused
<1> QED
  BY <1>6, <1>7, <1>8, <1>9

LEMMA ModifyBodyStep ==
    ASSUME ForwardInv, NEW q \in Requests, NEW h \in Handlers, ModifyBody(q, h)
    PROVE  ForwardInv'
<1>1. /\ ReqOK(tail, q, rq[q]) /\ rq[q] \in Request /\ rq[q].st = "buffered" /\ rq[q].modify \in Indexed
      /\ rq[q].form \notin {"cut", "unread"} /\ ~rq[q].open /\ rq[q].src = "buffer" /\ rq[q].answer = NoDocument
      /\ rq[q].length = "upstream" /\ rq[q].kept # "rewritten"
  BY DEF ForwardInv, ModifyBody, ReqOK, BodyAt, LengthAt
<1>2. "sent" \in Stages /\ "buffer" \in Sources /\ 500 \in Outs /\ "rewritten" \in Lengths /\ rq[q].status \in Outs
  BY <1>1 DEF Stages, Sources, Outs, Lengths, Request, Statuses
<1>3. CASE rq[q].form = "untyped" /\ Step(q, Sent(q, 500))
  <2> DEFINE new == Sent(q, 500)
  <2>0. PICK out \in Outs : out = 500
    BY <1>2
  <2>1. new \in Request
    <3>1. [rq[q] EXCEPT !.st = "sent", !.out = out] \in Request
      BY <1>1, SentType
    <3> QED
      BY <2>0, <3>1 DEF Sent
  <2>2. /\ new.st = "sent" /\ ~new.open /\ new.kept = rq[q].kept /\ new.src = "buffer"
        /\ new.modify = rq[q].modify /\ new.form = "untyped" /\ new.doc = rq[q].doc
        /\ new.answer = NoDocument /\ new.length = "upstream"
    BY <1>1, <1>3 DEF Sent, Request
  <2> HIDE DEF new
  <2>3. ReqType(tail, q, new) /\ Contains(tail, q, new) /\ LengthAt(new)
    BY <1>1, <2>1, <2>2 DEF ReqOK, ReqType, Contains, LengthAt
  <2>4. BodyAt(new) /\ Settled(new) /\ RefusedRightly(tail, new) /\ LinksLead(tail, q, new)
    BY <2>2 DEF BodyAt, Settled, RefusedRightly, LinksLead
  <2>5. ReqOK(tail, q, new)
    BY <2>3, <2>4 DEF ReqOK
  <2> QED
    BY <1>3, <2>5, StepKeeps DEF new
<1>4. ASSUME rq[q].form # "untyped",
             NEW d \in Decode(h, rq[q].form, rq[q].doc), NEW fate \in Fate(rq[q].modify, d[1]),
             rq' = [rq EXCEPT ![q] = Modified(rq[q], h, d[1], fate)],
             json' = [json EXCEPT ![h] = Put(d[2], d[1], fate)],
             spoilt' = IF rq[q].form \in {"broken", "empty", "trailing"} THEN spoilt \cup {h} ELSE spoilt,
             tail' = tail
      PROVE  ForwardInv'
  <2> DEFINE new == Modified(rq[q], h, d[1], fate)
  <2>1. json' \in [Handlers -> Decoders] /\ spoilt' \in SUBSET Handlers
    BY <1>1, <1>4, DecodeOK DEF ForwardInv, Put
  <2>2. ASSUME NEW i \in Handlers PROVE HandlerOK(i)'
    <3>1. CASE i = h
      <4>1. json'[i] = d[2]
        BY <1>4, <3>1 DEF ForwardInv, Put
      <4>2. json'[i] # Clean => i \in spoilt'
        BY <1>1, <1>4, <3>1, <4>1, DecodeOK
      <4>3. json'[i] \notin {Clean, Failed, Junk} =>
              \E p \in Requests, kind \in Indexed : json'[i] = Document(p, kind, AllHome(kind, tail'))
        BY <1>1, <1>4, <4>1, DecodeOK
      <4> QED
        BY <4>2, <4>3 DEF HandlerOK
    <3>2. CASE i # h
      <4>1. json'[i] = json[i] /\ (i \in spoilt => i \in spoilt') /\ tail' = tail
        BY <1>4, <3>2 DEF ForwardInv
      <4> QED
        BY <2>2, <4>1 DEF ForwardInv, HandlerOK
    <3> QED
      BY <3>1, <3>2
  <2>3. ReqOK(tail, q, new)
    BY <1>1, <1>4, ModifiedOK
  <2>4. rq' \in [Requests -> Request] /\ \A p \in Requests : ReqOK(tail, p, rq'[p])
    <3> HIDE DEF new
    <3>1. new \in Request /\ rq' = [rq EXCEPT ![q] = new]
      BY <1>4, <2>3 DEF ReqOK, ReqType, new
    <3> QED
      BY <2>3, <3>1 DEF ForwardInv
  <2> QED
    BY <1>4, <2>1, <2>2, <2>4 DEF ForwardInv
<1> QED
  BY <1>3, <1>4 DEF ModifyBody

LEMMA CollectStep ==
    ASSUME ForwardInv, NEW h \in Handlers, Collect(h)
    PROVE  ForwardInv'
<1>1. Clean \in Decoders
  BY DEF Decoders
<1>2. json' \in [Handlers -> Decoders] /\ spoilt' \in SUBSET Handlers /\ UNCHANGED <<tail, rq>>
  BY <1>1 DEF Collect, ForwardInv
<1>3. ASSUME NEW i \in Handlers PROVE HandlerOK(i)'
  BY DEF Collect, ForwardInv, HandlerOK
<1> QED
  BY <1>2, <1>3 DEF ForwardInv

LEMMA InitForward == Init => ForwardInv
<1> SUFFICES ASSUME Init PROVE ForwardInv
  OBVIOUS
<1>1. /\ NoRequest.st = "over" /\ ~NoRequest.open /\ NoRequest.form = "unread"
      /\ NoRequest.doc = NoDocument /\ NoRequest.answer = NoDocument
      /\ NoRequest.length = "upstream" /\ NoRequest.kept = "none"
  BY DEF NoRequest
<1>2. \A q \in Requests : ReqOK(tail, q, NoRequest)
  BY <1>1, NoRequestType, EndedOK
<1>3. Clean \in Decoders
  BY DEF Decoders
<1>4. \A h \in Handlers : HandlerOK(h)
  BY DEF Init, HandlerOK
<1> QED
  BY <1>2, <1>3, <1>4, NoRequestType DEF Init, ForwardInv

LEMMA NextForward == ForwardInv /\ [Next]_vars => ForwardInv'
<1> SUFFICES ASSUME ForwardInv, [Next]_vars PROVE ForwardInv'
  OBVIOUS
<1>1. CASE UNCHANGED vars
  BY <1>1 DEF vars, ForwardInv, HandlerOK
<1>2. ASSUME NEW q \in Requests,
             \/ Unforwarded(q) \/ Unreachable(q) \/ Answered(q)
             \/ NotModified(q) \/ ShortValidator(q) \/ Relay(q) \/ CloseBody(q)
             \/ NotGzip(q) \/ ReadBody(q) \/ \E h \in Handlers : ModifyBody(q, h)
      PROVE  ForwardInv'
  BY <1>2, UnansweredStep, AnsweredStep, SentStep, ShortValidatorStep, CloseBodyStep,
      ReadBodyStep, ModifyBodyStep
<1>3. ASSUME NEW h \in Handlers, Collect(h) PROVE ForwardInv'
  BY <1>3, CollectStep
<1> QED
  BY <1>1, <1>2, <1>3 DEF Next

-----------------------------------------------------------------------------
(* The type invariant of Forward: in particular, what is passed on to a    *)
(* client as the index of a registry is an index of that registry.         *)
(* (modifyBody)                                                            *)
THEOREM TypeCorrect == Spec => []TypeOK
<1>1. ForwardInv => TypeOK
  BY DEF ForwardInv, ReqOK, ReqType, TypeOK
<1> QED
  BY <1>1, InitForward, NextForward, PTL DEF Spec

(* Whatever bodies upstreams send and however many requests share the JSON *)
(* handlers: a header is stored with the length of the stored body.        *)
(* (modifyBody closes the body before it sets Content-Length)              *)
THEOREM LengthFits == Spec => []StoredHeaderFitsBody
<1>1. ForwardInv => StoredHeaderFitsBody
  BY DEF ForwardInv, ReqOK, LengthAt, StoredHeaderFitsBody
<1> QED
  BY <1>1, InitForward, NextForward, PTL DEF Spec

(* However a request ends, the panics over a client's validator, over a    *)
(* link and over a Close that fails included: its body is closed; and only *)
(* a body that broke off is left for Forward to close a second time.       *)
(* (Forward's deferred Close, modifyBody)                                  *)
THEOREM BodiesSettle == Spec => []BodySettled
<1>1. ForwardInv => BodySettled
  BY DEF ForwardInv, ReqOK, BodyAt, Settled, BodySettled, Ended
<1> QED
  BY <1>1, InitForward, NextForward, PTL DEF Spec

(* However many requests share the JSON handlers: an index that is in      *)
(* order is refused only if an earlier request has spoilt the handler.     *)
(* (modifyBody, JSONHandler)                                               *)
THEOREM RefusalsHaveReasons == Spec => []RefusedForAReason
<1>1. ForwardInv => RefusedForAReason
  BY DEF ForwardInv, ReqOK, RefusedRightly, RefusedForAReason
<1> QED
  BY <1>1, InitForward, NextForward, PTL DEF Spec

(* However many requests share the JSON handlers: the index that is passed *)
(* on is the one that was asked for; and where no configured URL has a     *)
(* slash or a path too many, its links lead through this server to their   *)
(* files.  (rewriteJson, rewriteJsonV1, rewriteCollectionVersionV3 and the *)
(* routes of RegisterHandler)                                              *)
THEOREM LinksLeadThrough == Spec => []LinksLeadToFiles
<1>1. ForwardInv => LinksLeadToFiles
  BY DEF ForwardInv, ReqOK, LinksLead, LinksLeadToFiles
<1> QED
  BY <1>1, InitForward, NextForward, PTL DEF Spec
=============================================================================
