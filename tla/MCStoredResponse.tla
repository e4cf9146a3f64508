-------------------------- MODULE MCStoredResponse --------------------------
(* Small families of responses for StoredResponse.  Two ticks make a       *)
(* second.  No lifetime here overflows a Duration.                         *)
EXTENDS StoredResponse

D(k, a) == [key |-> k, arg |-> a]

Plain == [status |-> 200, cc |-> <<>>, ranged |-> FALSE, auth |-> FALSE, expires |-> None,
          etag |-> None, modified |-> None, date |-> 0, age |-> None]

UpTo2(S) == {<<>>} \cup {<<x>> : x \in S} \cup {<<x, y>> : x \in S, y \in S}

\* Directives that decide whether a response is kept.
Deciding == {D("max-age", 1), D("max-age", Bad), D("s-maxage", 1), D("public", None),
             D("public", 1), D("private", None), D("private", 1), D("no-store", None),
             D("must-revalidate", None)}

Cacheability ==
    {[Plain EXCEPT !.status = s, !.cc = cc, !.ranged = rg, !.auth = au, !.expires = ex,
                   !.etag = et, !.modified = lm] :
        s \in {200, 404}, cc \in UpTo2(Deciding), rg \in BOOLEAN, au \in BOOLEAN,
        ex \in {None, 3}, et \in {None, "e"}, lm \in {None, Bad}}

\* Lifetimes of one and two seconds, given in every way, with and without an
\* Age, and clocks that run behind or ahead.
Ages ==
    {[Plain EXCEPT !.cc = cc, !.expires = ex, !.modified = lm, !.date = dt, !.age = ag] :
        cc \in UpTo2({D("max-age", 1), D("max-age", 2), D("s-maxage", 2), D("max-age", None)}),
        ex \in {None, 3, -1}, lm \in {None, Bad, -40}, dt \in {0, 1, 3, None, Bad},
        ag \in {None, Bad, 1}}

MCResponses == Cacheability \cup Ages

ASSUME MCResponsesAreOrdinary == \A r \in MCResponses : Ordinary(r)

\* "max-age=0": do not use without asking.
MCZeroMaxAge == {[Plain EXCEPT !.cc = <<D("max-age", 0)>>, !.modified = -40]}

=============================================================================
