---------------------------- MODULE HttpCaching -----------------------------
(***************************************************************************)
(* internal/httpclient/internal/httpcaching and httpheaders/etag.go: the   *)
(* decisions of RFC 9111 as functions of the headers.                      *)
(*                                                                         *)
(* Headers are abstracted to what the decisions look at: a Cache-Control   *)
(* header is a sequence of directives [key, arg]; a date is a time, None   *)
(* (no such header) or Bad (does not parse); times and durations count     *)
(* ticks, Second of them to a second.                                      *)
(***************************************************************************)
EXTENDS Integers, SequencesExt

CONSTANTS
    Second,     \* ticks in a second (time.Second, in nanoseconds)
    Half,       \* half the range of a time.Duration (2^63)
    None, Bad   \* a header that is missing, one that does not parse

ASSUME HttpCachingAssumption ==
    /\ Second \in Nat \ {0}
    /\ Half \in Nat \ {0}
    /\ None # Bad /\ None \notin Int /\ Bad \notin Int

\* int64 arithmetic: multiplication by time.Second wraps around.
Duration(x) == ((x + Half) % (2 * Half)) - Half
Seconds(n) == Duration(n * Second)

Larger(x, y) == IF x >= y THEN x ELSE y

-----------------------------------------------------------------------------
(* cachecontrol.go                                                         *)

Flags == {"immutable", "must-revalidate", "must-understand", "no-cache", "no-store",
          "no-transform", "private", "proxy-revalidate", "public"}
Timed == {"max-age", "s-maxage", "stale-while-revalidate", "stale-if-error"}
Qualifiable == {"no-cache", "private"}

\* What ParseCacheControlDirective has gathered so far; err stops it.
NoDirectives == [flags |-> {}, time |-> [k \in Timed |-> 0], seen |-> {}, err |-> FALSE]

\* Fault: private="..." is taken for an unknown directive.
ParseOneUnqualified(cc, d) ==
    LET marked == [cc EXCEPT !.seen = @ \cup {d.key}]
    IN  IF cc.err \/ d.key \in cc.seen THEN cc
        ELSE IF d.arg # None
        THEN IF d.key \notin Timed THEN marked
             ELSE IF d.arg = Bad THEN [marked EXCEPT !.err = TRUE]
             ELSE [marked EXCEPT !.time[d.key] = Seconds(d.arg)]
        ELSE IF d.key \in Flags THEN [marked EXCEPT !.flags = @ \cup {d.key}]
        ELSE marked

ParseOne(cc, d) ==
    LET marked == [cc EXCEPT !.seen = @ \cup {d.key}]
    IN  CASE cc.err \/ d.key \in cc.seen -> cc          \* only the first one counts
          [] OTHER ->
             IF d.arg # None
             THEN IF d.key \in Timed
                  THEN IF d.arg = Bad THEN [marked EXCEPT !.err = TRUE]
                       ELSE [marked EXCEPT !.time[d.key] = Seconds(d.arg)]
                  ELSE IF d.key \in Qualifiable THEN [marked EXCEPT !.flags = @ \cup {d.key}]
                  ELSE marked
             ELSE IF d.key \in Flags THEN [marked EXCEPT !.flags = @ \cup {d.key}]
             ELSE marked

ParseCacheControlDirective(ds) == FoldLeft(ParseOne, NoDirectives, ds)

-----------------------------------------------------------------------------
(* caching.go.  A response is [status, cc (directives), ranged, auth,      *)
(* expires, etag, modified, date, age]; auth is the presence of an         *)
(* Authorization header in the RESPONSE, which is where the code looks.    *)

Verdict(cacheable, explicit) == [cacheable |-> cacheable, explicit |-> explicit]

IsCacheable(r, isPrivate) ==
    LET cc == ParseCacheControlDirective(r.cc)
        sMaxAge == cc.time["s-maxage"]
        never == \/ r.status # 200 \/ cc.err \/ r.ranged
                 \/ "no-store" \in cc.flags
        authorized == /\ r.auth /\ ~isPrivate
                      /\ {"must-revalidate", "public"} \cap cc.flags = {} /\ sMaxAge = 0
        reason == \/ "public" \in cc.flags \/ cc.time["max-age"] # 0 \/ sMaxAge # 0
                  \/ r.expires # None \/ r.etag # None
                  \/ r.modified \notin {None, Bad}
    IN  CASE never -> Verdict(FALSE, TRUE)
          [] ~never /\ "private" \in cc.flags -> Verdict(isPrivate, TRUE)
          [] ~never /\ "private" \notin cc.flags /\ authorized -> Verdict(FALSE, TRUE)
          [] OTHER -> Verdict(reason, reason)

-----------------------------------------------------------------------------
(* freshness.go                                                            *)

IsTime(h) == h \notin {None, Bad}

\* Go's integer division truncates toward zero.
Quotient(x, n) == IF x >= 0 THEN x \div n ELSE -((-x) \div n)

\* Fault: max-age before s-maxage.
getFreshnessLifetimeSwapped(r, cc) ==
    IF cc.time["max-age"] # 0 THEN cc.time["max-age"]
    ELSE IF cc.time["s-maxage"] # 0 THEN cc.time["s-maxage"]
    ELSE IF IsTime(r.expires) /\ IsTime(r.date) THEN r.expires - r.date
    ELSE IF IsTime(r.modified) /\ IsTime(r.date) THEN Quotient(r.date - r.modified, 10)
    ELSE 0

getFreshnessLifetime(r, cc) ==
    IF cc.time["s-maxage"] # 0 THEN cc.time["s-maxage"]
    ELSE IF cc.time["max-age"] # 0 THEN cc.time["max-age"]
    ELSE IF IsTime(r.expires) /\ IsTime(r.date) THEN r.expires - r.date
    ELSE IF IsTime(r.modified) /\ IsTime(r.date) THEN Quotient(r.date - r.modified, 10)
    ELSE 0

\* strconv.Atoi of an Age.  What is no number gives 0, one out of range the
\* nearest int64; the error is only logged.  (In a directive both are Bad.)
Atoi(h) ==
    IF ~IsTime(h) THEN 0
    ELSE IF h >= Half THEN Half - 1
    ELSE IF h < -Half THEN -Half
    ELSE h

\* Fault: the Age header is not looked at.
GetEstimatedResponseCreationAgeless(r, requestTime, responseTime, now) ==
    LET date == IF IsTime(r.date) THEN r.date ELSE now
    IN  responseTime - Larger(Larger(0, responseTime - date), responseTime - requestTime)

\* When the response was made, as far as its Age and Date headers tell.  A Date
\* that does not parse counts as now.
GetEstimatedResponseCreation(r, requestTime, responseTime, now) ==
    LET date == IF IsTime(r.date) THEN r.date ELSE now
        apparentAge == Larger(0, responseTime - date)
        correctedAgeValue == Duration(Seconds(Atoi(r.age)) + (responseTime - requestTime))
    IN  responseTime - Larger(apparentAge, correctedAgeValue)

\* Fault: the difference is taken the wrong way round.
GetCurrentAgeSwapped(creation, now) == Quotient(creation - now, Second) * Second

GetCurrentAge(creation, now) == Quotient(now - creation, Second) * Second

IsFresh(r, cc, creation, now) == getFreshnessLifetime(r, cc) > GetCurrentAge(creation, now)

-----------------------------------------------------------------------------
(* vary.go.  Request headers are a function from canonical names to the    *)
(* values on their lines, each a sequence of items; a field name in a Vary *)
(* header is [name, canonical]: whether upstream spelled it canonically.   *)

AnyField == [name |-> "*", canonical |-> TRUE]

\* reqHeaders[header]: a Go map is keyed by the exact spelling, and net/http
\* files a request's headers under their canonical names.
Lookup(reqHeaders, field) ==
    IF field.canonical /\ field.name \in DOMAIN reqHeaders THEN reqHeaders[field.name] ELSE <<>>

\* Several lines are joined with commas, which is a list of their items.
normalizeVaryHeaders(values) ==
    IF Len(values) <= 1 THEN values ELSE <<FlattenSeq(values)>>

ExtractVaryHeaders(reqHeaders, varyFields) ==
    [f \in varyFields |-> normalizeVaryHeaders(Lookup(reqHeaders, f))]

MatchVaryHeaders(reqHeaders, varyHeaders) ==
    /\ AnyField \notin DOMAIN varyHeaders
    /\ \A f \in DOMAIN varyHeaders :
         normalizeVaryHeaders(Lookup(reqHeaders, f)) = varyHeaders[f]

-----------------------------------------------------------------------------
(* etag.go.  An etag is [weak, tag].                                       *)

\* Comparing two different etags slices off two characters of the first and,
\* if it is strong, of the second; "None", the empty string, has none.
EtagsMatchPanics(e1, e2) == e1 # e2 /\ (e1 = None \/ (~e1.weak /\ e2 = None))

EtagsMatch(e1, e2) ==
    \/ e1 = e2
    \/ e1 # None /\ e2 # None /\ e1.weak /\ ~e2.weak /\ e1.tag = e2.tag
    \/ e1 # None /\ e2 # None /\ ~e1.weak /\ e2.weak /\ e1.tag = e2.tag
=============================================================================
