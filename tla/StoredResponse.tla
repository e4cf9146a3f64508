--------------------------- MODULE StoredResponse ---------------------------
(***************************************************************************)
(* One response on its way through httpclient's caching decisions: it is   *)
(* requested, received some time later, its Date is repaired, it is stored *)
(* or not (IsCacheable), and while stored it ages until it is not fresh.   *)
(* The functions are HttpCaching's; the Rfc definitions state what RFC     *)
(* 9111, which the comments in the code quote, asks of them.               *)
(***************************************************************************)
EXTENDS HttpCaching

CONSTANTS
    Responses,      \* the responses upstream may send (see HttpCaching)
    MaxDelay,       \* bound: ticks an answer may take
    MaxNow          \* bound: ticks explored

\* A header's number or date: strconv.Atoi takes a negative number, too.
Header == Int \cup {None, Bad}
Directive == [key : STRING, arg : Header]
Response == [
    status : Nat, cc : Seq(Directive), ranged : BOOLEAN, auth : BOOLEAN, expires : Header,
    etag : {None, "e"}, modified : Header, date : Header, age : Header]

ASSUME StoredResponseAssumption ==
    /\ Responses \subseteq Response
    /\ MaxDelay \in Nat /\ MaxNow \in Nat

VARIABLES
    now,            \* ticks since the request was made
    phase,          \* "waiting", "rejected" or "stored"
    isPrivate,      \* the cache is configured as a private one
    resp,           \* the response, once received
    respTime,       \* when it was received
    creation        \* TimeAtResponseCreation

vars == <<now, phase, isPrivate, resp, respTime, creation>>

Init ==
    /\ now = 0 /\ phase = "waiting"
    /\ isPrivate \in BOOLEAN
    /\ resp = None /\ respTime = 0 /\ creation = 0

\* forwardRequest: a Date that is missing or does not parse is replaced by the
\* time in full seconds, some fraction of a second ago.
WithValidDate(r, fraction) == IF IsTime(r.date) THEN r ELSE [r EXCEPT !.date = now - fraction]

\* Do keeps a response unless IsCacheable explicitly refuses it.
Kept(r) == LET v == IsCacheable(r, isPrivate) IN v.cacheable \/ ~v.explicit

Receive(raw, fraction) ==
    LET r == WithValidDate(raw, fraction)
    IN  /\ phase = "waiting" /\ now <= MaxDelay
        /\ resp' = r
        /\ respTime' = now
        /\ phase' = IF Kept(r) THEN "stored" ELSE "rejected"
        /\ creation' = GetEstimatedResponseCreation(r, 0, now, now)
        /\ UNCHANGED <<now, isPrivate>>

Tick ==
    /\ phase # "rejected" /\ now < MaxNow
    /\ now' = now + 1
    /\ UNCHANGED <<phase, isPrivate, resp, respTime, creation>>

\* The next request, to a cache that holds nothing.
Again ==
    /\ phase = "rejected" \/ now = MaxNow
    /\ now' = 0 /\ phase' = "waiting"
    /\ resp' = None /\ respTime' = 0 /\ creation' = 0
    /\ UNCHANGED isPrivate

Next ==
    \/ \E r \in Responses, fraction \in 0 .. Second - 1 : Receive(r, fraction)
    \/ Tick \/ Again

Spec == Init /\ [][Next]_vars

-----------------------------------------------------------------------------
Stored == phase = "stored"
Directives == ParseCacheControlDirective(resp.cc)
Fresh == Stored /\ IsFresh(resp, Directives, creation, now)

\* The RFC's reading of a Cache-Control header, without a parser: what the
\* first directive of that name says.
Occurs(ds, k) == \E i \in DOMAIN ds : ds[i].key = k
First(ds, k) == ds[CHOOSE i \in DOMAIN ds : ds[i].key = k /\ \A j \in 1 .. i - 1 : ds[j].key # k].arg
RfcFlag(ds, k) == Occurs(ds, k) /\ (First(ds, k) = None \/ k \in Qualifiable)
RfcSeconds(ds, k) == IF Occurs(ds, k) /\ First(ds, k) \notin {None, Bad} THEN First(ds, k) * Second ELSE None

\* Section 4.2.1, and 4.2.2 with the usual tenth.  An Expires that does not
\* parse is in the past (section 5.3).
RfcLifetime(r) ==
    CASE RfcSeconds(r.cc, "s-maxage") # None -> RfcSeconds(r.cc, "s-maxage")
      [] RfcSeconds(r.cc, "s-maxage") = None /\ RfcSeconds(r.cc, "max-age") # None ->
            RfcSeconds(r.cc, "max-age")
      [] OTHER -> IF r.expires = Bad THEN 0
                  ELSE IF r.expires # None THEN r.expires - r.date
                  ELSE IF IsTime(r.modified) THEN (r.date - r.modified) \div 10
                  ELSE 0

\* Section 4.2.3, in full seconds.
RfcAge(r) ==
    LET apparent == Larger(0, respTime - r.date)
        corrected == (IF IsTime(r.age) THEN r.age * Second ELSE 0) + respTime
    IN  ((Larger(apparent, corrected) + (now - respTime)) \div Second) * Second

\* What the code and the RFC agree on: no number of seconds overflows a
\* Duration, no lifetime is zero seconds, which getFreshnessLifetime takes for
\* none, and Expires parses, which getFreshnessLifetime passes over otherwise.
AgeFits(r) ==
    LET age == (IF IsTime(r.age) THEN r.age ELSE 0) * Second
    IN  -Half <= age /\ age + MaxDelay < Half

Ordinary(r) ==
    /\ AgeFits(r)
    /\ r.expires # Bad
    /\ \A i \in DOMAIN r.cc :
         r.cc[i].key \in {"max-age", "s-maxage"} /\ IsTime(r.cc[i].arg) =>
             /\ r.cc[i].arg # 0
             /\ -Half <= r.cc[i].arg * Second /\ r.cc[i].arg * Second < Half

\* A response is called fresh exactly as long as sections 4.2.1 to 4.2.3 of
\* RFC 9111 say so (IsFresh with getFreshnessLifetime, GetCurrentAge and
\* GetEstimatedResponseCreation, on what the parser made of the header).
FreshAsLongAsRFC == Stored => (Fresh <=> RfcLifetime(resp) > RfcAge(resp))

\* A stored response that is stale never becomes fresh again by itself.
StaleStaysStale == [][Stored /\ ~Fresh /\ phase' = "stored" => ~Fresh']_vars

\* The cache never makes a response younger than upstream said it was: it was
\* created no later than it was received, nor than a Date that is not in the
\* future, and its age counts the Age header.
NeverYoungerThanReported ==
    Stored => /\ creation <= respTime
              /\ IsTime(resp.age) => respTime - creation >= resp.age * Second
              /\ resp.date <= respTime => creation <= resp.date

\* What IsCacheable lets through is what section 3 of RFC 9111 allows, as
\* quoted in caching.go, Authorization aside.
StoredIsAllowed ==
    Stored => /\ resp.status = 200
              /\ ~RfcFlag(resp.cc, "no-store")
              /\ RfcFlag(resp.cc, "private") => isPrivate
              /\ ~resp.ranged

\* Section 4.2.1, "Implements https://datatracker.ietf.org/doc/html/rfc9111#section-4.2.1":
\* max-age gives the lifetime, so a response with max-age=0 is never fresh.
ZeroMaxAgeNeverFresh ==
    Stored /\ ~Occurs(resp.cc, "s-maxage") /\ RfcSeconds(resp.cc, "max-age") = 0 => ~Fresh

=============================================================================
