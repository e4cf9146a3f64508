----------------------------- MODULE Registries -----------------------------
(***************************************************************************)
(* The handlers that internal/server/server.go sets up, one package each   *)
(* under internal/handlers: which requests they answer, what they forward  *)
(* a request to, and how they rewrite the links of an index.               *)
(*                                                                         *)
(* A URL is a site, the route of the path there and the number of the file *)
(* it is about.  The sites are the upstream ("origin"), the places the     *)
(* configuration names ("cdn", "sumdb", "cache": an upstream cache, itself *)
(* a locaccel), this server, by its own name ("local") or by a path alone  *)
(* ("relative"), and others: "elsewhere", "garbled" (two URLs run          *)
(* together), "none" (the empty string) and "null" (nothing, not even a    *)
(* string).                                                                *)
(*                                                                         *)
(* The handlers cut URLs and put them together as strings.  What becomes   *)
(* wrong then is counted: slashes, those between the site and its path,    *)
(* where none makes one name of the two; and base, how many times the path *)
(* that the CDN has itself comes first.  Queries and escapes are left out. *)
(***************************************************************************)
EXTENDS Naturals

Sites == {"origin", "cdn", "sumdb", "cache", "local", "relative",
          "elsewhere", "garbled", "none", "null"}

Url(site, route, file) ==
    [site |-> site, route |-> route, file |-> file, slashes |-> 1, base |-> 0]

\* What a configured URL has after its host, besides what its handler adds or
\* takes away: 0, nothing; 1, a slash, if it is galaxyServer or the URL of a
\* cache for npm, or a path, if it is the CDN of pypi.
Tails == 0 .. 1

\* A configured URL, as the start of others.
Prefix(site, slashes, base) == [site |-> site, slashes |-> slashes, base |-> base]

galaxyServer(tail) == Prefix("origin", tail, 0)
npmUpstream == Prefix("origin", 0, 0)
npmCache(tail) == Prefix("cache", tail, 0)
expectedCDN(tail) == Prefix("cdn", 1, tail)

HasPrefix(url, prefix) ==
    url.site = prefix.site /\ url.slashes >= prefix.slashes /\ url.base >= prefix.base

\* With site put in place of the prefix.
Replaced(url, prefix, site) == [url EXCEPT !.site = site, !.slashes = @ - prefix.slashes]

\* The path of a request to this server, after the prefix.
Joined(prefix, path, route) ==
    [path EXCEPT !.site = prefix.site, !.route = route, !.slashes = @ + prefix.slashes]

-----------------------------------------------------------------------------
\* The parameters of Forward: upstreamURL, the paths of upstreamCache, modify
\* (the registry whose index is rewritten) and whether there is a recovery.
Forwarding(upstreamURL, caches, modify, recovery) ==
    [upstreamURL |-> upstreamURL, caches |-> caches, modify |-> modify, recovery |-> recovery]

Same == {""}
Plainly(url) == Forwarding(url, Same, "nil", FALSE)

\* RegisterHandler of each package: what it forwards, by the pattern of the
\* mux, a request for a path to.  All but galaxy take a slash off the upstream.
To(path, site, route) == Joined(Prefix(site, 0, 0), path, route)

galaxy(tail, path) == [
    version |-> Forwarding(Joined(galaxyServer(tail), path, "version"), Same, "galaxy", FALSE),
    file |-> Plainly(Joined(galaxyServer(tail), path, "file"))]

\* The list of the caches for sumdb is never filled.
goproxy(path) == [
    module |-> Plainly(To(path, "origin", "module")),
    sumdb |-> Forwarding(To(path, "sumdb", "file"), {}, "nil", FALSE)]

npm(path) == [
    index |-> Forwarding(To(path, "origin", "index"), Same, "npm", FALSE),
    tarball |-> Plainly(To(path, "origin", "tarball"))]

oci(path) == [
    ping |-> Forwarding(To(path, "origin", "ping"), Same, "nil", TRUE),
    blob |-> Plainly(To(path, "origin", "blob"))]

\* For the hosts that it allows.
proxy(path) == [allowed |-> Plainly(To(path, "origin", "allowed"))]

\* encodedCDN, as prefix of a path, says that the rest is at the CDN; the slash
\* between the two is in the pattern.
pypi(tail, path) == [
    simple |-> Forwarding(To(path, "origin", "simple"), Same, "pypi", FALSE),
    cdn |-> Forwarding([To(path, "cdn", "file") EXCEPT !.base = @ + tail], {"cdn"}, "nil", FALSE)]

rubygem(path) == [file |-> Plainly(To(path, "origin", "file"))]

RegisterHandler(kind, tail, path) ==
    CASE kind = "galaxy" -> galaxy(tail, path)
      [] kind = "go" -> goproxy(path)
      [] kind = "npm" -> npm(path)
      [] kind = "oci" -> oci(path)
      [] kind = "proxy" -> proxy(path)
      [] kind = "pypi" -> pypi(tail, path)
      [] kind = "rubygem" -> rubygem(path)

Kinds == {"galaxy", "go", "npm", "oci", "proxy", "pypi", "rubygem"}
Root == Url("relative", "", 0)
Forwardings ==
    UNION {{RegisterHandler(kind, 0, Root)[route] : route \in DOMAIN RegisterHandler(kind, 0, Root)} :
           kind \in Kinds}

\* The request that goes to a cache: the same path there, after its own.
buildUpstreamRequest(url, path) ==
    [url EXCEPT !.site = "cache", !.route = IF path = "" THEN @ ELSE path]

-----------------------------------------------------------------------------
(* Indexes.  An index has a link per file; the file it is about is its     *)
(* position in the index.                                                  *)

\* Where the upstream keeps a file, and where the index of a cache, which
\* has rewritten it, has it.
Home(kind, tail, file) ==
    CASE kind = "galaxy" -> Url("origin", "file", file)
      [] kind = "npm" -> Url("origin", "tarball", file)
      [] kind = "pypi" -> [Url("cdn", "file", file) EXCEPT !.base = tail]

Mirrored(kind, tail, file) ==
    CASE kind = "galaxy" -> Url("relative", "file", file)
      [] kind = "npm" -> Url("cache", "tarball", file)
      [] kind = "pypi" -> [Url("relative", "cdn", file) EXCEPT !.base = tail]

\* Links that are not at the registry: on another host, or on one whose name
\* starts like the registry's; of galaxy, no link, or one that a cache with a
\* slash after its galaxyServer made; of npm, a version that is null.
Strangers(kind, tail, file) ==
    {Url("elsewhere", "file", file), [Home(kind, tail, file) EXCEPT !.slashes = 0]}
    \cup CASE kind = "galaxy" -> {Url("none", "file", file), [Url("relative", "file", file) EXCEPT !.slashes = 0]}
           [] kind = "npm" -> {Url("null", "tarball", file)}
           [] kind = "pypi" -> {}

Indexed == {"galaxy", "npm", "pypi"}
Size(kind) == IF kind = "galaxy" THEN 1 ELSE 2

AllHome(kind, tail) == [i \in 1 .. Size(kind) |-> Home(kind, tail, i)]

\* The indexes that the upstream may have, and what its caches make of them.
Indexes(kind, tail) ==
    {links \in [1 .. Size(kind) -> UNION {{Home(kind, tail, i)} \cup Strangers(kind, tail, i) : i \in 1 .. Size(kind)}] :
        \A i \in DOMAIN links : links[i].file = i}
    \cup {[i \in 1 .. Size(kind) |-> Mirrored(kind, tail, i)]}

\* What becomes of an index: rewritten, refused with an error, or a panic.
Rewritten(links) == [fate |-> "rewritten", links |-> links]
Refused == [fate |-> "refused", links |-> <<>>]
Panics == [fate |-> "panic", links |-> <<>>]

\* galaxy: the upstream is cut off, and nothing looks at what is left; a link
\* without it has to have a first character, which has to be a slash.
rewriteCollectionVersionV3(tail, links) ==
    LET link == links[1] IN
    CASE HasPrefix(link, galaxyServer(tail)) ->
             {Rewritten(<<Replaced(link, galaxyServer(tail), "relative")>>)}
      [] ~HasPrefix(link, galaxyServer(tail)) /\ link.site = "none" -> {Panics}
      [] ~HasPrefix(link, galaxyServer(tail)) /\ link.site = "relative" /\ link.slashes > 0 ->
             {Rewritten(links)}
      [] OTHER -> {Refused}

\* npm: what is cut off all tarballs, by the first of them; its own name goes
\* before all of them, also those from which nothing was cut off.
Remotes(tail, link) == {remote \in {npmUpstream, npmCache(tail)} : HasPrefix(link, remote)}

Here(link, remote) ==
    IF HasPrefix(link, remote) THEN Replaced(link, remote, "local") ELSE [link EXCEPT !.site = "garbled"]

\* The first version in the order of the map, which may be any, decides; a null
\* version is dereferenced when it is its turn.
rewriteJson(tail, links) ==
    UNION {
        CASE links[first].site = "null" -> {Panics}
          [] links[first].site # "null" /\ Remotes(tail, links[first]) = {} -> {Refused}
          [] Remotes(tail, links[first]) # {} /\ (\E i \in DOMAIN links : links[i].site = "null") -> {Panics}
          [] Remotes(tail, links[first]) # {} /\ (\A i \in DOMAIN links : links[i].site # "null") ->
                 {Rewritten([i \in DOMAIN links |-> Here(links[i], remote)]) : remote \in Remotes(tail, links[first])}
        : first \in DOMAIN links}

\* pypi: all files are on the CDN, or all have its route already.
AtCDN(tail, link) == HasPrefix(link, expectedCDN(tail))
Encoded(link) == link.site = "relative"

\* Fault: the prefix is put before a path that has it already.
rewriteJsonV1Twice(tail, links) ==
    {IF (\A i \in DOMAIN links : AtCDN(tail, links[i])) \/ (\A i \in DOMAIN links : Encoded(links[i]))
     THEN Rewritten([i \in DOMAIN links |->
              [links[i] EXCEPT !.site = IF Encoded(links[i]) THEN "garbled" ELSE "relative", !.route = "cdn"]])
     ELSE Refused}

\* The path of the URL, with what the CDN's own has of it, goes after the route.
rewriteJsonV1(tail, links) ==
    {IF (\A i \in DOMAIN links : AtCDN(tail, links[i])) \/ (\A i \in DOMAIN links : Encoded(links[i]))
     THEN Rewritten([i \in DOMAIN links |-> [links[i] EXCEPT !.site = "relative", !.route = "cdn"]])
     ELSE Refused}

Rewrite(kind, tail, links) ==
    CASE kind = "galaxy" -> rewriteCollectionVersionV3(tail, links)
      [] kind = "npm" -> rewriteJson(tail, links)
      [] kind = "pypi" -> rewriteJsonV1(tail, links)

-----------------------------------------------------------------------------
\* A link at a cache, with the right file.
AtCache(link, file) == [link EXCEPT !.site = "cache", !.file = file]

\* A client that follows the link gets the file, from where the upstream
\* keeps it or by the same route of a cache.
LeadsTo(kind, tail, link, file) ==
    /\ link.site \in {"local", "relative"} /\ link.slashes = 1
    /\ link.route \in DOMAIN RegisterHandler(kind, tail, link)
    /\ LET forwarding == RegisterHandler(kind, tail, link)[link.route] IN
         /\ forwarding.upstreamURL = Home(kind, tail, file)
         /\ \A path \in forwarding.caches :
                buildUpstreamRequest(forwarding.upstreamURL, path) = AtCache(link, file)
=============================================================================
