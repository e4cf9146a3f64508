# TLA+ specifications of locaccel

locaccel is a caching proxy for package registries. A request that reaches one
of its handlers is rewritten and sent through an HTTP client that keeps
responses: the headers in a badger database, the bodies in a directory of files
named after their hash. This directory holds models of the parts that keep
state, TLC configurations that check them on small instances, and proofs that
TLAPS checks for all instances. `PROJECT.json` says for every definition which
lines of the source it models.

- [The system](#the-system)
- [Modules](#modules)
- [Runs](#runs)
- [Fairness](#fairness)
- [Proofs](#proofs)
- [What the runs say about the code](#what-the-runs-say-about-the-code)
- [What is left out](#what-is-left-out)
- [Plan](#plan)

## The system

| part | state | operations | correct if |
|---|---|---|---|
| database (`internal/database`) | per key a value and its badger version; in memory `Entry` objects with the version they were read at | `Get`, `Save`, `New`, `Delete`, `Iterate`, `Close` | no update is lost, conflicts are real |
| file cache (`internal/filecache`, `internal/teereader`) | files by hash with modification times; temporary files | `SetupIngestion` (a reader that copies), `Open`, `Stat`, `Delete`, `Prune`, `GetAllHashes` | only whole bodies, each ingestion settled once, Prune removes the least recently used and ends |
| caching rules (`internal/httpclient/internal/httpcaching`, `internal/httpheaders`) | none | parsing of Cache-Control, cacheability, age, freshness, Vary, etags | RFC 9111, which the comments quote |
| HTTP client (`internal/httpclient/client.go`) | a pool of `Entry` objects; what it stores | `Do`, with ingestion and revalidation | what is served is for that request, as recent as promised; every request is answered |
| cache (`internal/httpclient/cache.go`) | database and file cache together, the management goroutine | calls of the client, `Remove`, the sweep every 15 minutes, `Close` | entries and files agree in the end, nothing valid is swept, `Close` returns |
| response rewriting (`internal/handlers/utils.go`) | a pool of JSON handlers | `Forward`, `modifyBody` | each body closed once, handlers usable after an error |
| registry handlers (`internal/handlers/*`) | none | rewrite URLs in documents, choose upstreams | every download goes through the proxy |
| server (`internal/server`, `cmd/locaccel`) | several HTTP servers, signals, a channel of errors | start, shutdown, saving of statistics | shutdown ends and happens in order |
| statistics and middleware (`internal/middleware`) | counters, a file | count, `Save`, `LoadSavedStatistics` | survive a restart, complete |
| quotas, units, configuration | none | parsing and formatting | |

Who talks to whom: a handler calls `Forward`, that calls `Client.Do`; `Do` takes
an `Entry` from a pool and reads the database; it serves a stored response by
opening a file, or asks upstream, with the validators of what is stored; the
body of an answer worth keeping is returned wrapped in a `TeeReader`, whose
`Close`, called by the handler much later, moves the file into place and runs
callbacks that save to the database and give the `Entry` back to the pool.
Meanwhile the management goroutine prunes files and sweeps the database, the
administrator's page removes keys with their files, and the process may end.

What is hard about it:

- nothing makes a file and the database entry that names it change together, so
  each is met without the other at every step;
- an `Entry` is read in one call and written in another, with a round trip to
  upstream and the transfer of a body between, and many goroutines do so for the
  same key; versions must catch every conflict;
- the `Entry` objects are reused, and a call that fails leaves what an earlier
  request put there;
- Prune and the sweep work from listings that are old when they are used;
- a 304 is about one of several stored responses and has to be matched to it;
- ages, lifetimes and clocks meet at boundaries, and zero stands for "not given";
- the JSON handlers are shared by all registries, and a decoder keeps errors and
  bytes from one request to the next;
- a body is read and closed by `modifyBody`, closed again by `Forward`, and its
  close stores a header that is about to be changed;
- the servers, their shutdowns, the requests under way, the signal and the saving
  of the statistics all run at once, and one channel ties them together.

The list of hazards in `PROJECT.json` has these at their lines, with the
properties that watch them.

## Modules

```
VersionedStore  <-- refined by --  Database   <-- DatabaseProofs
BlobStore       <-- refined by --  FileCache  <-- FileCacheProofs <-- PruneProofs
HttpCaching  --extended by-->  StoredResponse <-- StoredResponseProofs
             --extended by-->  Client         <-- ClientProofs
                                 (uses VersionedStore and BlobStore as atomic: see below)
Cache                                         <-- CacheProofs
Registries   --extended by-->  Forward        <-- ForwardProofs
Server                                        <-- ServerProofs
```

Each component has an `MC` module with the values its configurations need.

**Database.** `store[k]` is badger's latest version of a key; badger itself is
external, modelled by what the code relies on: a transaction sees the snapshot
it began with and fails at commit when a key it read was written since. So
`Save`, `New` and `Delete` are two steps, `PutCheck`/`Begin` and `Commit`,
between which everything else may happen. `entry[h]` is the `Entry` that
goroutine `h` owns; as in the code, a failed `Get` leaves it alone, a missing
key resets only its version, and a successful `Save` does not bring the version
up to date. `Iterate` reads ahead of its callback, the callback may write, and
its error ends the iteration. Versions (badger timestamps) only grow. `seen` is
a history variable.

**VersionedStore** is what callers rely on: a register per key, changed by
compare-and-swap with a version that is 0 or was once read.

**FileCache.** A body of `Size[c]` blocks; a file with its first `n` blocks is
`<<c, n>>`, and the hash that names a file is what it holds, so that a cut body
would be a file of its own. Every system call of the code is a step: reading a
block, the rename in `Close` and the callbacks after it, opening and touching,
and in Prune the directory, each file's information, `Stat` and `Remove`. A
block read can fail upstream or on the disk, a temporary file may be impossible
to create or to remove, and the process may end anywhere.

**BlobStore** is what callers rely on: a set of whole contents; a submission
appears whole, or never; anything may vanish at any time.

**HttpCaching** has the pure functions, with headers abstracted to what they
look at. `Duration` keeps the width of `time.Duration` as a parameter, and `Atoi`
gives the nearest number of that width for an Age out of range, as Go's does.
**StoredResponse** sends one response through them: received after a delay, its
Date repaired (to full seconds, so by up to a second too early), stored or not, ageing; the `Rfc...` operators are an independent
reading of RFC 9111 to compare with.

**Client.** One request of `Client.Do` per goroutine, with two kinds of steps:
up to the request to upstream (`Do`), and the handling of the answer
(`Answer...`); then the ingestion's end (`Ingest...`). A body is identified by
key, variant and edition, so that a property can say whether the right one was
served; time is cut into epochs, and what was obtained in an earlier epoch is
stale. Upstream is external: `style[k]` says which validators, Vary fields and
directives it uses, including odd ones.

In `Client` and `Cache` the database is a register that is read and compared
and written in one step, and the file cache a set of hashes. `Database` and
`FileCache` implement `VersionedStore` and `BlobStore`, which is exactly that; a
transaction that fails for another reason than a conflict changes nothing, as a
conflict does. In `Client`, `Get` and the opening of the body it leads to are
one step: the file may be evicted before that step, which is the case the code
looks for, and once it is open its removal does not matter. The loop over the
candidates opens the first that is there.

**Cache.** The sweep in detail (Prune, the listing, the iteration, the second
look at each file, the write), with a request that stores a response, the
administrator's `Remove` and `Close`, and a restart between any two of them. The
sweep's write may meet a conflict or any other error of the database; both end the
iteration. `slot` stands for what tells the responses of a key apart. Three history
variables say what a sweep can be blamed for: `missed`, the hashes that were without
a file at some moment since it took up the entry at hand; `lost`, those whose file
someone removed since it began to list the files; `late`, the keys that a request
saved after it had read them.

**Registries** has what the seven handler packages are made of, as operators: for
each route of the mux the parameters that it gives to `Forward` (the upstream's
URL, the caches and the path there, the rewriting, the recovery), and the three
functions that rewrite an index. A URL is a site, a route and a file. The code cuts
and joins URLs as strings, and what that can get wrong is counted: `slashes`, those
between the site and its path, and `base`, how often the CDN's own path comes first.
`tail` is the configuration: 0 if the configured URLs end where the code expects it,
1 if galaxyServer or the URL of an npm cache has a slash at its end, or pypi's CDN a
path. `Indexes` are the documents that an upstream, or a cache that has rewritten
them, may send: links at the registry, elsewhere, on a host whose name only starts
like the registry's, mixed, empty, and null versions (`Strangers`). `rewriteJson`
returns a set of outcomes because it goes by the iteration order of a Go map;
outcomes may be panics.

**Forward.** `rq[q]` goes through `Forward` with one of those forwardings: `Do`
fails or panics (`Unreachable`) or returns a response (`Answered`), of any status,
with a body that is being stored, comes from the cache or from the network alone;
then the client's own validators match (`NotModified`) or are too short to be
compared, which panics (`ShortValidator`), or the body, of any of seven forms or not
even gzip, is relayed (`Relay`), or `modifyBody` reads and closes it (`ReadBody`), takes
a JSON handler and decodes, rewrites and encodes (`ModifyBody`); last the
deferred `Close` (`CloseBody`). `json[h]` is what the decoder of a handler has
left: nothing, an error, the start of something else, a whole document; the
pool may be emptied at any time (`Collect`). A handler belongs to one request
from Get to Put and nobody else sees it meanwhile, so that this is one step.
What a cache makes of the body that `Close` completes is in `FileCache` and
`Client`; here it is that the header of that moment is kept (`kept`), or not.

**Server.** One process after another: `Start` loads the statistics and sets up
the servers (`New`, which panics when two servers would register the same
metrics), `Notify` asks for signals; the goroutine of each server goes through
`http.Server.ListenAndServe` (`Listen`, `Serve`, `Fail`), `SelectStop` and
`SelectError(s)` are the branches of the `select`, `Shutdown...(s)` the
goroutines that shut down, `Return` the end of `ListenAndServe`, which closes
the channel of errors. Then the deferred calls of `startServer`, in order:
`SaveCreate` truncates the file, `SaveEncode`, `SaveServed` and `SaveWrite` load one
counter after the other, the last of them writes (the four counters by cache state
are one, and loading them in turn is loading their sum at some moment in between), `CloseCache` closes the cache, `Exit` ends
the process. A request moves through the middleware (`Accept`, `CountState`,
`CountDownload`, `CountServed`), each counter a step of its own. `total` is a
history variable: what the answered requests add up to. With `Faults` the
process may be killed and writing the statistics may fail.

## Runs

| run | instance | shows |
|---|---|---|
| `database` | 2 keys, 2 values, a caller and the sweeper, 3 commits | `NoLostUpdate`: a committed write replaces the value that its caller read from that key; `ConflictIsReal`; refinement of `VersionedStore` |
| `filecache` | bodies of 2, 2 and 3 blocks in two directories, quota 4/2, an ingestion, a reader, two seconds | `OnlyWholeFiles`, `CleanupExactlyOnce`, refinement of `BlobStore`; `PruneReachesLow`, `PruneEvictsOldest` when nobody interferes; `PruneTerminates`, `IngestionSettles` |
| `stored_response` | about 8600 responses, 3 seconds in half-second ticks | `FreshAsLongAsRFC`, `NeverYoungerThanReported`, `StoredIsAllowed`, `StaleStaysStale` |
| `client` | 2 requests at a time, 2 variants told apart by Etag, 2 editions, 2 epochs | `PoolExclusive`, `ServedRightVariant`, `RevalidatedIsCurrent`, `OneResponsePerVariant`, `FreshIsRecent`, `StoredNeverRegresses` |
| `client_styles` | 1 request at a time, 8 ways of answering, clients with validators, failing `Get`, an upstream cache | `NotModifiedOnlyIfClientCurrent`, `EveryRequestAnswered` |
| `cache` | 1 key with 2 responses, 2 bodies, a request, an administrator, the sweep | `SweepDropsOnlyMissing`, `SweepLeavesNoDangling`, `CloseReturns`, `SweepEnds` |
| `forward` | 2 requests at a time, a JSON handler, all routes, both configurations, all forms of bodies, all indexes of up to 2 links | `LinksLeadToFiles`, `RefusedForAReason`, `BodySettled`, `StoredHeaderFitsBody` |
| `server` | 2 servers and the administrator's, a request that counts, kills, a full disk | `NoRequestOnClosedCache`, `OrderlyEndKeepsCounts`, `ShutdownEnds` |
| `filecache_panic`, `client_wrong_variant`, `client_panic`, `server_statistics` | small | disagreements, see below |

Three more configurations are kept to be run by hand: `ClientStalePool.cfg`
(`MCClient`), `StoredResponseZeroMaxAge.cfg` (`MCStoredResponse`) and
`ForwardNotModified.cfg` (`MCForward`). TLC refutes the property of each, as
described below.

Why these bounds are enough to be interesting:

- `database`: one caller, the sweeper, and the second write of either are the
  two parties of every conflict; the third commit allows a value to be replaced,
  deleted and written again under a version held by someone.
- `filecache`: two bodies reach the quota together, so that Prune has a choice;
  they are in directories read one after the other, so that files come and go in
  directories already read and not yet read; the third is larger than half the
  quota; two seconds let a file be touched in and after the second in which it
  was listed.
- `client`: two concurrent requests for the same or for different variants,
  while a third party publishes, evicts, sweeps and removes. The cache is empty at
  first, or holds what an earlier run left, a response for each variant
  (`Before`), so that requests meet two stored responses early. `MaxClock` bounds
  the number of database writes after which no request is started; those under
  way still finish. The view of that run forgets what an object in the pool
  holds: as long as no `Get` fails, `Get` overwrites value and version, or sets
  the version to 0, after which the code never looks at the value.
- `client_styles` has one request at a time, since its questions are about a
  sequence of requests, and no view.
- `cache`: with one writer and one administrator the sweep can lose every race:
  a response saved after the listing, after the iteration's read, between the
  second look and the write. One key is enough for those. It starts empty or
  with two responses of an earlier run (`Before`), so that the races also happen
  to an entry of which one response stays and the other goes.
- `forward`: all that requests share is the JSON handlers. What one request may
  do to another is to leave something in the handler that the other gets; a
  second request and a handler show it, and a third could only leave what the
  first one could have left. Two links are the least for an index to be mixed.
  The configuration is chosen at the start, and all registries have theirs at once;
  no request sees the configuration of another registry than its own. The requests are interchangeable, so the run uses symmetry.
- `server`: with two servers one can fail, be late or have a request while the
  other ends; the third, the administrator's, has statistics of its own. One
  request that counts (`MaxRequests`) is enough to be half counted when the
  statistics are encoded. Processes follow one another without bound. The
  configurations are registries with names of their own and two entries of
  `proxies`, which share one.

Each property is known to be able to fail: for each there is a faulty version of
some definition (the operators marked `Fault:`) under which TLC finds it violated.

## Fairness

- `FileCache`: handlers close the bodies they serve (a deferred `Close`), and the
  goroutine that prunes runs on: weak fairness of `Close(i)` and of Prune's steps.
  Reading need not continue, a client may stall; `Close` is possible at any time.
- `Client`: upstream answers or the transport times out, and handlers read and
  close bodies: weak fairness of `Answer(q)` and `Ingest(q)`. No kind of answer
  is promised.
- `Cache`: weak fairness of the sweep's steps and of the end of `Close`. When
  the stop signal and a tick are both there, `select` chooses at random each
  time, so that the stop signal is not passed over for ever: strong fairness
  of `ManageStop`.

- `Server`: the main goroutine and the goroutines that call `Shutdown` run: weak
  fairness of `Main` and of `Stopping(s)`, which includes the deadline of five
  minutes. Requests need not end and clients need not read; nobody promises
  a signal.

Restarts are never fair: they may always happen and never have to.

## Proofs

`DatabaseProofs` proves, for any keys, values, goroutines and bound:

- `TypeCorrect`, `NoUpdateIsLost`, `ConflictsAreReal`: the type invariant and the
  two action properties of `Database`;
- `ImplementsStore`: `Database` implements `VersionedStore`, with `store` as the
  registers and the versions of the entries as what clients hold.

The invariant behind them says more than the properties. Timestamps are not
after `clock`, and no two keys share one (`StampsIssued`); so a version,
wherever it is kept (an `Entry`, an item read by the iteration, a transaction
under way), that is the current one of a key determines the value: if
`entry[h].version` is not 0 it was read with the key and the value in `seen[h]`,
and whichever key now has that timestamp is that key with that value
(`VersionNamesWrite`). For a transaction under way the version it compared is
either still the current one or the key has a timestamp after the transaction's
snapshot, in which case badger refuses the commit (`CheckStillHolds`). This is
what makes the cut between comparison and commit harmless; none of it can be
dropped, since `NoLostUpdate` alone says nothing about a version in flight.

The assumptions are those of `DatabaseAssumption`: the sweeper is one of the
goroutines, and `Absent` and `Zero` are no values.

`FileCacheProofs` proves, for any bodies, quotas, ingestions and readers:

- `TypeCorrect`, `FilesAreWhole`, `CleanupOnce`: the type invariant,
  `OnlyWholeFiles` and `CleanupExactlyOnce`;
- `ImplementsBlobs`: `FileCache` implements `BlobStore`; an ingestion is pending
  until the rename, or until it is given up, and the contents present are those
  whose whole file exists.

`OnlyWholeFiles` is not inductive: it needs to know what a temporary file holds.
`CopiesOK` says that while an ingestion reads and no error has happened, as many
blocks were written as were read, and that after the rename the file is whole and
small enough; `NotifiedAtEnd` says that `onIngest` was called only for ingestions
that are over, whose record does not change any more. For the refinement, a file
that Prune removes is the whole file of some body, because of `OnlyWholeFiles`,
and so one content is evicted. `FileCacheAssumption` asks that sizes and quotas
are numbers and that what an earlier run left is finite and respects the limit.

`PruneProofs` proves, for any number of files:

- `PruneReaches` (`PruneReachesLow`) and `OldestGoFirst` (`PruneEvictsOldest`).

Prune works from a list that it took earlier, so `PruneInv` says what the list is
worth as long as nobody else changes the cache: what is listed is there, as old as
listed, and `total` is its size (`Tallied`); while directories are read, every
file is listed once, or is in the directory at hand, or in one to come, and then
the list is the cache (`Covered`); what was removed is no younger than anything
still listed, and before the last removal the total was above the low quota
(`Ordered`). The size of a set of files is a fold that takes the elements in an
order of its own; `SizeRemove` says that any element may be taken first, so that
subtracting the size of the file Prune chose leaves the size of the rest. That is
why the cache has to be finite, which `PruneInv` says too.

`ServerProofs` proves, for any finite set of servers, any configurations and any
number of requests:

- `TypeCorrect`: the type invariant;
- `CacheClosesLast`: `NoRequestOnClosedCache`. It rests on `OrderInv`: a server
  that is shut down does not listen, so that no request comes back after it
  reported (`ShutIsShut`), and `ListenAndServe` returns when all have reported,
  or when `New` has panicked and there is none (`AllReported`);
- `CountsAreKept`: `OrderlyEndKeepsCounts`. The counters of a request that is in
  the middle of the middleware differ from `total` by what it has yet to count.
  `Balance` says that the difference is the number of such requests, `LatePanics`
  that an orderly end has no late server; together with `OrderInv` no request is
  left when `Save` begins, so that the difference is 0 and stays so although
  `Save` loads the counters one after the other (`SaveInv`).

`ServerAssumption` asks that the servers are finitely many and that a missing
and an empty file are not counters.

`CacheProofs` proves, for any keys, slots, hashes, requests and administrators:

- `TypeCorrect`: the type invariant;
- `SweepIsThorough`: `SweepLeavesNoDangling`; and `SweepIsCareful`:
  `SweepDropsOnlyMissing`.

The sweep works from copies, so `CacheInv` says what each copy is worth. A version
names one write (`VersionNamesWrite`): an item in the iteration's buffer that
still has the current version is the current entry, which is why a write with
that version drops nothing that was saved after the read. Whatever the second look
did not find was without a file after the entry was taken up (`LookedUp`, about
`missed`). For thoroughness, each key is read at most once (`ReadOnce`), and
`Thorough` says of a sweep that is under way what it has achieved, whatever the
others do: of keys that it is done with and that nobody saved behind its back, the
responses name files that are there or were removed since (`Sound`); an item that is
yet to be looked at is what the entry still holds, unless the key was removed
(`Current`); and a file that the listing or the second look has found and the cache
has not any more was removed since.
`CacheAssumption` asks that `NoKey` is no key and that an earlier run left
complete entries.

`ForwardProofs` proves, for any number of requests and of JSON handlers, in both
configurations:

- `TypeCorrect`, `LengthFits` (`StoredHeaderFitsBody`), `BodiesSettle`
  (`BodySettled`), `RefusalsHaveReasons` (`RefusedForAReason`) and
  `LinksLeadThrough` (`LinksLeadToFiles`).

Nearly all of `ForwardInv` is about one request at a time: until when its body is
open and who closed it (`BodyAt`), that its length is rewritten only when nothing
can be stored any more (`LengthAt`), what its body holds (`Contains`). A panic, of
`EtagsMatch`, of a rewriting function or of the deferred `Close`, is a step like the
others, after which the body is closed (`Settled`). Requests meet
in the JSON handlers only, and `HandlerOK` says what one may leave there: a decoder
that holds something is marked as spoilt, and if what it holds is a document, that
one's links are all at the registry. The lemmas before it say what the three
functions that rewrite indexes make of every index; that the links lead to their
files is proved of them for `tail` = 0, the condition that `LinksLeadToFiles` states.

`ClientProofs` proves, for any requests, keys, variants, ways of answering, pool
objects and bounds:

- without a condition, `TypeCorrect`, `EntriesAreExclusive` (`PoolExclusive`) and
  `NotModifiedIsTheClients` (`NotModifiedOnlyIfClientCurrent`);
- if `Get` does not fail, `OneAnswerEach` (`OneResponsePerVariant`),
  `OwnKeyIfDatabaseAnswers` (`OwnKeyOnly`), `FreshMeansRecent` (`FreshIsRecent`) and
  `NothingRegresses` (`StoredNeverRegresses`);
- if, besides, every way in which upstream answers is such that a 304 tells the
  stored responses apart (`TellsApart`), `RevalidationIsRight`
  (`RevalidatedIsCurrent`);
- if, besides, Vary names the header that decides, spelled as Go spells it
  (`Spelled`), `VariantIsRight` (`ServedRightVariant`).

The conditions are those that the code needs. `ClientStalePool.cfg` shows what
happens when `Get` fails, `client_wrong_variant` what happens when variants are
matched by Last-Modified; `TellsApart` is that a key has no variants, or no
Last-Modified, or Etags that every 304 repeats and that no client sends of its
own. `Spelled` excludes a lower-case Vary, which matches every request
(`vary.go:42`). The styles of the `client` run satisfy all of them.

The invariant has three parts. `TypeInv` has who holds which entry. `ValidatorInv`
says what a request has sent: at the first attempt the client's validators and
those of all responses in its entry, at the second the client's alone; so a 304
that matches nothing stored is about the client's own. `StoreInv` says of every
stored response, in the database, in an entry that is held, or about to be
stored, that it was made for some request's headers, that its validators are of
its edition, and that if its creation time is in this epoch, so is its edition
(`StoredOK`); that the responses of a key are for different headers (`ValOK`); and
of an entry that is held, that the database has the same responses if it has the
same version, and that no response in it is newer than the answer that is about
to be stored (`HolderOK`). The last is what `StoredNeverRegresses` lacks: an answer
is received after the entry was read, and so replaces what is not newer, unless the
entry moved on and `Save` refuses. The proofs go action by action over the shape
that each gives to the one request that moves (`StoreMoves`), with separate
lemmas for a database that moves alone (`DbAloneStore`) and for editions and
epochs (`WorldStore`).

`ClientAssumption` asks that `None` is neither a pool object nor an Etag, that an
earlier run left one response for each of different variants, and that the bounds
are numbers.

`StoredResponseProofs` proves, for any responses, with any number of Cache-Control
directives, and any clock and width of `time.Duration`:

- without a condition, `OnlyAllowedIsStored` (`StoredIsAllowed`) and `StaleForGood`
  (`StaleStaysStale`), the latter also where headers overflow;
- if every Age fits a `Duration` (`AgeFits`), `NothingIsRejuvenated`
  (`NeverYoungerThanReported`);
- if, besides, no max-age or s-maxage is zero or overflows and Expires parses
  (`Ordinary`), `FreshByTheRFC` (`FreshAsLongAsRFC`).

The conditions are those under which code and RFC agree:
`StoredResponseZeroMaxAge.cfg` refutes the theorem for max-age=0, and the other
cases are in the next section; the responses of the run satisfy all of them. The
invariant `ResponseInv` is short, since little moves: the response is one that upstream
sends, with a Date, its creation time is the one computed on its arrival, and it
was not refused. The work is in the functions. `ParserGathers` says what the
parser, a fold over the directives, has gathered after any number of them: each
directive counts where it first appears, a flag only without argument unless it
may have one. From it follow that the parser's flags and times are those that the
RFC reads off the header (`FlagsAreRfc`, `TimesAreRfc`). The rest is arithmetic
with `div` and the wrap-around of `Duration`.

Neither fold can be reasoned about by the library's induction theorems, whose
parameter is an operator. Both proofs suppose instead that something fails, take
the shortest prefix or the smallest set that does (`LeastExists`, from the
well-foundedness of `<`) and refute it.

Only model-checked are the liveness properties (`IngestionSettles`,
`PruneTerminates`, `EveryRequestAnswered`, `SweepEnds`, `CloseReturns`,
`ShutdownEnds`), since proofs about fairness are out of the prover's reach, and
what the runs refute.

## What the runs say about the code

The passing runs say that the version check, the whole-file check and the second
look of the sweep do what they are for; that links in rewritten indexes lead to
the same files, through this server and through its caches, if the configured URLs
have no slash or path too many; that bodies are
closed and stored with their own headers although two functions close them and
one changes the header; that an orderly shutdown loses no count and closes the
cache last. Some runs show where the code does not do what its own comments and
messages say:

- `filecache_panic`: `Prune` logs that a file could not be examined and then
  uses its information, which is nil (`filecache.go:255-259`).
- `client_panic`: a body that was pruned is expected when serving from the cache
  (`client.go:155`) and a panic when revalidating (`client.go:625`). The entry has
  been saved as fresh by then; later requests skip it, ask upstream, get a 304
  and panic again until a sweep. A 304 with an Etag about a response that was
  stored without one panics as well (`etag.go:10`).
- `client_wrong_variant`: a 304 that only has Last-Modified is matched to the
  first response of that date, of whatever variant (`client.go:572-588`).
- `server_statistics`: a server that fails while the others shut down sends its
  error on a channel that `ListenAndServe` has closed (`server.go:126`); the panic
  may come between the truncation and the write of `Save` (`statistics.go:50-62`),
  and the next start refuses the empty file. `OrderlyEndKeepsCounts` is about
  ends without such a panic.

By the configurations that are run by hand:

- `ClientStalePool.cfg`: a `Get` that fails leaves the pooled entry as the previous
  request left it (`database.go:82`), and `Do` goes on with its version and value:
  `OwnKeyOnly` is refuted.
- `StoredResponseZeroMaxAge.cfg`: max-age=0 counts as no max-age
  (`freshness.go:25`): `ZeroMaxAgeNeverFresh` is refuted.
- `ForwardNotModified.cfg`: on a route whose index is rewritten, a 304 that `Do`
  passes through is given to `modifyBody`, which finds no JSON (`utils.go:123`), and
  the client gets a 500: `NotModifiedPassed` is refuted. The same goes for a 404
  whose body is not an index.

What the exceptions in the properties of `Forward` stand for: a body without
bytes (the answer to a HEAD), or broken JSON, leaves its error in the decoder of
the pooled handler, and good indexes that get that handler are answered with 500
until the garbage collector drops it; bytes after a document stay in the decoder
and may answer for the next request (`spoilt` in `RefusedForAReason` and
`LinksLeadToFiles`); a body that breaks off is closed twice, over which
`Forward` panics (`BodySettled`). `LinksLeadToFiles` asks for `tail` = 0 before it
says where links lead, because each of three registries breaks it otherwise: a slash
after galaxyServer leaves relative links without one, and the comparison with `/`
does not look at them (`galaxy.go:92-96`); a slash after the URL of a cache in
`upstream_caches` glues npm's host to the path (`npm.go:136`); a path in pypi's CDN is
kept in the link and put before it again by the route (`pypi.go:99`, `152`).

Other panics in a handler, all modelled: a client's If-None-Match of fewer than two
characters, such as `*`, when the response has an Etag (`etag.go:10`); a version that is
null in an npm index (`npm.go:120`); an empty link in galaxy's document
(`galaxy.go:94`); an answer that cannot be written (`handlers.go:13`). `BodySettled`
says that they leave no body open. They end the request's connection only. Two entries of
`proxies` have the same name, and with metrics the second makes `New` panic.

Seen by reading and not made into runs: `DiskQuota.Bytes` does not use the
percentage (`quota.go:63-76`), so that a quota in percent is the whole disk and
the default low and high mark are the same; sizes of 1 PiB and more index out of
the table of units; the list of caches for sumdb is never filled
(`goproxy.go:23-28`); an npm index from the cache that names a former upstream cache is refused. A response with a
malformed Expires falls back to the heuristic, which section 5.3 of the RFC does
not allow; a lifetime of more than 292 years overflows; `IsCacheable` looks for
Authorization in the response (`caching.go:75`), where there is none; a
lower-case name in Vary never matches a request header (`vary.go:42`), so that
variants are taken for one another, and with `Vary: *` each response is appended
and none is ever used; a 304 without the Etag is passed on to a client whose own
validators may be old (`client.go:298`); a `Save` that follows a `Delete` brings
the entry back (`database.go:115`), with responses whose files are gone;
`quota_high` is looked at every 15 minutes only, between which the cache may
outgrow it.

`FreshAsLongAsRFC` is therefore checked and proved for responses without max-age=0,
malformed Expires and lifetimes that overflow (`Ordinary`); `NotModifiedOnlyIfClientCurrent` is about
upstreams that repeat their Etag in a 304.

## What is left out

- Values in the database that do not unmarshal, and errors of `ReadDir`: they are
  errors like the ones modelled, or keep the process from starting.
- Methods other than GET and HEAD, which `Do` forwards and does not keep.
- The names of files and the digits of hashes; two bodies with the same hash.
- Statistics of the cache, `List`, the admin pages: they only read.
- Quotas and units: parsing and formatting without state; the quotas are
  constants of `FileCache`.
- Configuration: YAML and environment variables, read once; what comes of it
  are the constants of `Server`, the routes of `Registries` and the quotas.
- Log lines, the values of metrics, templates, the profiling handlers, the
  health check (a client of its own that keeps no state).
- Re-compression of a rewritten body and the pools of byte buffers, which are
  emptied at every use.
- Test utilities and benchmark scripts.
- badger's garbage collection, which does not change what a reader sees.

## Plan

Done: all the components that keep state, and proofs of every safety property and
refinement that a passing run checks. What is left:

1. `PruneTerminates` and `SweepEnds` rest on a measure that every step of Prune and
   of the sweep lowers (directories and files to read, files to remove; keys to
   visit). That the measure falls is an action property, within the prover's reach,
   although the conclusion under fairness is not.
2. `ClientProofs`: what is left of the properties when `Get` may fail.
