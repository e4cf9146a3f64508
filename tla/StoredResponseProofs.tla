------------------------ MODULE StoredResponseProofs ------------------------
(***************************************************************************)
(* Proofs about StoredResponse, for any responses, clock and bounds, and   *)
(* for a Cache-Control header with any number of directives.               *)
(***************************************************************************)
EXTENDS StoredResponse, SequenceTheorems, WellFoundedInduction, TLAPS

-----------------------------------------------------------------------------
(* What the parser has gathered after n directives of ds.                  *)

Parsed == [flags : SUBSET STRING, time : [Timed -> Int], seen : SUBSET STRING, err : BOOLEAN]

\* ds[i] is the directive k that counts.
Leads(ds, k, i) == ds[i].key = k /\ \A j \in 1 .. i - 1 : ds[j].key # k

\* cc is what the first n directives of ds say, unless one of them is in error.
Gathered(cc, ds, n) ==
    /\ cc \in Parsed
    /\ ~cc.err =>
         /\ cc.seen = {ds[i].key : i \in 1 .. n}
         /\ \A k \in Flags :
              k \in cc.flags <=> \E i \in 1 .. n : Leads(ds, k, i) /\ (ds[i].arg = None \/ k \in Qualifiable)
         /\ \A k \in Timed :
              \/ \E i \in 1 .. n :
                   Leads(ds, k, i) /\ ds[i].arg \in Int /\ cc.time[k] = Seconds(ds[i].arg)
              \/ cc.time[k] = 0 /\ \A i \in 1 .. n : Leads(ds, k, i) => ds[i].arg = None

\* FoldLeft, on the first n directives, as a function of the set of their indices.
Folding(g, ds, n) ==
    g = [s \in SUBSET (1 .. n) |->
            IF s = {} THEN NoDirectives ELSE ParseOne(g[s \ {Max(s)}], ds[Max(s)])]

-----------------------------------------------------------------------------
(* The inductive invariant: the response in hand is one of those that      *)
(* upstream sends, with a Date; creation is computed from when it came,    *)
(* and only what IsCacheable did not refuse is stored.                     *)

Received ==
    /\ resp \in Response /\ resp.date \in Int
    /\ respTime \in 0 .. MaxDelay /\ respTime <= now
    /\ creation = GetEstimatedResponseCreation(resp, 0, respTime, respTime)
    /\ \E r \in Responses : resp.cc = r.cc /\ resp.age = r.age /\ resp.expires = r.expires

ResponseInv ==
    /\ now \in Nat /\ isPrivate \in BOOLEAN
    /\ phase \in {"waiting", "rejected", "stored"}
    /\ phase # "waiting" => Received
    /\ Stored => Kept(resp)

-----------------------------------------------------------------------------
(* The fold.                                                               *)

LEMMA LeastExists ==
    ASSUME NEW S \in SUBSET Nat, S # {}
    PROVE  \E i \in S : \A j \in S : i <= j
<1>1. PICK i \in S : \A j \in S : ~(<<j, i>> \in OpToRel(<, Nat))
  BY NatLessThanWellFounded, WFMin
<1>2. \A j \in S : ~(j < i)
  BY <1>1 DEF OpToRel
<1> QED
  BY <1>2

LEMMA MaxOfPrefix ==
    ASSUME NEW n \in Nat, NEW s \in SUBSET (1 .. n + 1), n + 1 \in s
    PROVE  Max(s) = n + 1
<1>1. \A y \in s : n + 1 >= y
  OBVIOUS
<1>2. \A x \in s : (\A y \in s : x >= y) => x = n + 1
  <2> SUFFICES ASSUME NEW x \in s, \A y \in s : x >= y PROVE x = n + 1
    OBVIOUS
  <2>1. x >= n + 1 /\ x \in 1 .. n + 1
    OBVIOUS
  <2> QED
    BY <2>1
<1> QED
  BY <1>1, <1>2 DEF Max

LEMMA FoldingExtends ==
    ASSUME NEW ds, NEW n \in Nat, NEW g, Folding(g, ds, n)
    PROVE  \E h : Folding(h, ds, n + 1)
<1> DEFINE h == [s \in SUBSET (1 .. n + 1) |->
                    IF n + 1 \in s THEN ParseOne(g[s \ {n + 1}], ds[n + 1]) ELSE g[s]]
           step(f, s) == IF s = {} THEN NoDirectives ELSE ParseOne(f[s \ {Max(s)}], ds[Max(s)])
<1>1. ASSUME NEW s \in SUBSET (1 .. n + 1)
      PROVE  h[s] = step(h, s)
  <2>1. CASE n + 1 \in s
    <3>1. Max(s) = n + 1
      BY <2>1, MaxOfPrefix
    <3>2. PICK t : t = s \ {n + 1} /\ n + 1 \notin t /\ t \in SUBSET (1 .. n + 1)
      <4>1. s \ {n + 1} \in SUBSET (1 .. n + 1) /\ n + 1 \notin s \ {n + 1}
        OBVIOUS
      <4> QED
        BY <4>1
    <3>3. h[t] = g[t]
      BY <3>2
    <3>4. h[s] = ParseOne(g[t], ds[n + 1])
      BY <2>1, <3>2
    <3>5. step(h, s) = ParseOne(h[t], ds[n + 1])
      BY <2>1, <3>1, <3>2
    <3> QED
      BY <3>3, <3>4, <3>5
  <2>2. CASE n + 1 \notin s
    <3>1. s \in SUBSET (1 .. n)
      BY <2>2
    <3>2. PICK t \in SUBSET (1 .. n + 1) : t = s \ {Max(s)} /\ n + 1 \notin t
      BY <2>2
    <3>3. h[t] = g[t] /\ h[s] = g[s]
      BY <2>2, <3>2
    <3>4. g[s] = step(g, s)
      BY <3>1 DEF Folding
    <3>5. step(g, s) = step(h, s)
      BY <3>2, <3>3
    <3> QED
      BY <3>3, <3>4, <3>5
  <2> QED
    BY <2>1, <2>2
<1>2. h = [s \in SUBSET (1 .. n + 1) |-> step(h, s)]
  <2> HIDE DEF step
  <2>1. h = [s \in SUBSET (1 .. n + 1) |-> h[s]]
    OBVIOUS
  <2> HIDE DEF h
  <2> QED
    BY <1>1, <2>1
<1> HIDE DEF h
<1> QED
  BY <1>2 DEF Folding

LEMMA FoldingStarts ==
    ASSUME NEW ds
    PROVE  \E g : Folding(g, ds, 0)
<1> DEFINE g == [s \in SUBSET (1 .. 0) |-> NoDirectives]
<1>1. \A s \in SUBSET (1 .. 0) : s = {}
  OBVIOUS
<1>2. Folding(g, ds, 0)
  BY <1>1 DEF Folding
<1> QED
  BY <1>2

LEMMA FoldingExists ==
    ASSUME NEW ds, NEW n \in Nat
    PROVE  \E g : Folding(g, ds, n)
<1> DEFINE Fails == {m \in Nat : ~\E g : Folding(g, ds, m)}
<1> SUFFICES ASSUME Fails # {} PROVE FALSE
  OBVIOUS
<1>1. PICK m \in Fails : \A j \in Fails : m <= j
  BY LeastExists
<1>2. m # 0
  BY <1>1, FoldingStarts
<1>3. m - 1 \in Nat /\ m - 1 \notin Fails
  BY <1>1, <1>2
<1>4. \E g : Folding(g, ds, m - 1)
  BY <1>3
<1>5. \E g : Folding(g, ds, (m - 1) + 1)
  BY <1>3, <1>4, FoldingExtends
<1> QED
  BY <1>1, <1>5

LEMMA ParserFolds ==
    ASSUME NEW S, NEW ds \in Seq(S)
    PROVE  \E g : Folding(g, ds, Len(ds)) /\ ParseCacheControlDirective(ds) = g[1 .. Len(ds)]
<1>1. DOMAIN ds = 1 .. Len(ds) /\ Len(ds) \in Nat
  OBVIOUS
<1>2. ParseCacheControlDirective(ds) = (CHOOSE g : Folding(g, ds, Len(ds)))[1 .. Len(ds)]
  BY <1>1 DEF ParseCacheControlDirective, FoldLeft, MapThenFoldSet, Folding
<1> QED
  BY <1>1, <1>2, FoldingExists

-----------------------------------------------------------------------------
(* Time.                                                                   *)

LEMMA DurationIsInt ==
    ASSUME NEW x \in Int
    PROVE  Duration(x) \in Int
<1>1. Half \in Nat \ {0}
  BY HttpCachingAssumption
<1>2. (x + Half) % (2 * Half) \in Int
  BY <1>1
<1> QED
  BY <1>1, <1>2 DEF Duration

LEMMA DurationFits ==
    ASSUME NEW x \in Int, -Half <= x, x < Half
    PROVE  Duration(x) = x
<1>1. Half \in Nat \ {0}
  BY HttpCachingAssumption
<1>2. PICK m \in Nat : m = 2 * Half /\ m # 0
  BY <1>1
<1>3. PICK y \in Nat : y = x + Half /\ y < m
  BY <1>1, <1>2
<1>4. y % m = y
  BY <1>2, <1>3
<1> QED
  BY <1>1, <1>2, <1>3, <1>4 DEF Duration

LEMMA SecondsIsInt ==
    ASSUME NEW x \in Int
    PROVE  Seconds(x) \in Int
<1>1. x * Second \in Int
  BY HttpCachingAssumption
<1> QED
  BY <1>1, DurationIsInt DEF Seconds

LEMMA DivMonotone ==
    ASSUME NEW n \in Nat \ {0}, NEW x \in Int, NEW y \in Int, x <= y
    PROVE  x \div n <= y \div n
OBVIOUS

LEMMA AgeIsInt ==
    ASSUME NEW c \in Int, NEW t \in Int
    PROVE  GetCurrentAge(c, t) \in Int
BY HttpCachingAssumption DEF GetCurrentAge, Quotient

\* Time makes nothing younger.
LEMMA AgeMonotone ==
    ASSUME NEW c \in Int, NEW t \in Int
    PROVE  GetCurrentAge(c, t) <= GetCurrentAge(c, t + 1)
<1>1. Second \in Nat \ {0}
  BY HttpCachingAssumption
<1>2. Quotient(t - c, Second) \in Int /\ Quotient(t + 1 - c, Second) \in Int
  BY <1>1 DEF Quotient
<1>3. Quotient(t - c, Second) <= Quotient(t + 1 - c, Second)
  <2>1. CASE t - c >= 0
    BY <1>1, <2>1, DivMonotone DEF Quotient
  <2>2. CASE t + 1 - c < 0
    BY <1>1, <2>2, DivMonotone DEF Quotient
  <2>3. CASE t - c < 0 /\ t + 1 - c >= 0
    <3>1. 0 \div Second = 0
      BY <1>1
    <3>2. (-(t - c)) \div Second >= 0 /\ (t + 1 - c) \div Second >= 0
      BY <1>1, <2>3, <3>1, DivMonotone
    <3> QED
      BY <1>1, <2>3, <3>2 DEF Quotient
  <2> QED
    BY <2>1, <2>2, <2>3
<1>4. \A a \in Int, b \in Int : a <= b => a * Second <= b * Second
  BY <1>1
<1> QED
  BY <1>2, <1>3, <1>4 DEF GetCurrentAge

-----------------------------------------------------------------------------
(* One directive.                                                          *)

LEMMA Vocabulary ==
    /\ Qualifiable \subseteq Flags /\ Flags \cap Timed = {}
    /\ "no-store" \in Flags \ Qualifiable /\ "private" \in Qualifiable
    /\ "max-age" \in Timed /\ "s-maxage" \in Timed
<1>1. Qualifiable \subseteq Flags
  BY DEF Flags, Qualifiable
<1>2. \A k \in Timed : k \notin Flags
  BY DEF Flags, Timed
<1>3. "no-store" \in Flags \ Qualifiable /\ "private" \in Qualifiable
  BY DEF Flags, Qualifiable
<1>4. "max-age" \in Timed /\ "s-maxage" \in Timed
  BY DEF Timed
<1> QED
  BY <1>1, <1>2, <1>3, <1>4

LEMMA NothingYet == \A ds : Gathered(NoDirectives, ds, 0)
<1>1. /\ NoDirectives.flags = {} /\ NoDirectives.seen = {} /\ ~NoDirectives.err
      /\ NoDirectives.time = [k \in Timed |-> 0]
  BY DEF NoDirectives
<1>2. NoDirectives \in Parsed
  BY DEF NoDirectives, Parsed
<1> QED
  BY <1>1, <1>2 DEF Gathered

\* A record of what was gathered, with its fields.
LEMMA ParsedFields ==
    ASSUME NEW f \in SUBSET STRING, NEW t \in [Timed -> Int], NEW s \in SUBSET STRING, NEW e \in BOOLEAN,
           NEW new, new = [flags |-> f, time |-> t, seen |-> s, err |-> e]
    PROVE  /\ new \in Parsed /\ new.flags = f /\ new.time = t /\ new.seen = s /\ (new.err <=> e)
BY DEF Parsed

\* What ParseOne does with a directive of a new name, field by field.
TakesIn(cc, d, new) ==
    /\ new \in Parsed
    /\ new.seen = cc.seen \cup {d.key}
    /\ new.err <=> d.key \in Timed /\ d.arg = Bad
    /\ new.flags = IF d.key \in Flags /\ (d.arg = None \/ d.key \in Qualifiable)
                   THEN cc.flags \cup {d.key} ELSE cc.flags
    /\ new.time = IF d.key \in Timed /\ d.arg \in Int
                  THEN [cc.time EXCEPT ![d.key] = Seconds(d.arg)] ELSE cc.time

LEMMA ParseOneEffect ==
    ASSUME NEW cc \in Parsed, ~cc.err, NEW d \in Directive, d.key \notin cc.seen,
           NEW new, new = ParseOne(cc, d)
    PROVE  TakesIn(cc, d, new)
<1>1. /\ d.key \in STRING /\ d.arg \in Int \cup {None, Bad}
      /\ cc.flags \in SUBSET STRING /\ cc.time \in [Timed -> Int] /\ cc.seen \in SUBSET STRING
  BY DEF Directive, Header, Parsed
<1>2. PICK f \in SUBSET STRING, t \in [Timed -> Int], s \in SUBSET STRING, e \in BOOLEAN :
        f = cc.flags /\ t = cc.time /\ s = cc.seen \cup {d.key} /\ e = cc.err /\ ~e
  BY <1>1 DEF Parsed
<1>3. PICK marked : marked = [cc EXCEPT !.seen = cc.seen \cup {d.key}]
  OBVIOUS
<1>4. marked = [flags |-> f, time |-> t, seen |-> s, err |-> e]
  BY <1>2, <1>3 DEF Parsed
<1>5. marked \in Parsed /\ marked.flags = f /\ marked.time = t /\ marked.seen = s /\ ~marked.err
  BY <1>2, <1>4, ParsedFields
<1>6. new = IF d.arg # None
            THEN IF d.key \in Timed
                 THEN IF d.arg = Bad THEN [marked EXCEPT !.err = TRUE]
                      ELSE [marked EXCEPT !.time[d.key] = Seconds(d.arg)]
                 ELSE IF d.key \in Qualifiable THEN [marked EXCEPT !.flags = marked.flags \cup {d.key}]
                 ELSE marked
            ELSE IF d.key \in Flags THEN [marked EXCEPT !.flags = marked.flags \cup {d.key}]
            ELSE marked
  BY <1>3 DEF ParseOne
<1>7. CASE d.key \in Timed /\ d.arg \in Int
  <2>1. PICK t2 \in [Timed -> Int] : t2 = [t EXCEPT ![d.key] = Seconds(d.arg)]
    BY <1>7, SecondsIsInt
  <2>2. new = [marked EXCEPT !.time[d.key] = Seconds(d.arg)]
    BY <1>6, <1>7, HttpCachingAssumption
  <2>3. new = [flags |-> f, time |-> t2, seen |-> s, err |-> e]
    BY <1>4, <2>1, <2>2
  <2>4. new \in Parsed /\ new.flags = f /\ new.time = t2 /\ new.seen = s /\ ~new.err
    BY <1>2, <2>3, ParsedFields
  <2>5. d.key \notin Flags /\ d.arg # Bad
    BY <1>7, Vocabulary, HttpCachingAssumption
  <2> QED
    BY <1>2, <1>7, <2>1, <2>4, <2>5 DEF TakesIn
<1>8. CASE d.key \in Timed /\ d.arg = Bad
  <2>1. new = [marked EXCEPT !.err = TRUE]
    BY <1>6, <1>8, HttpCachingAssumption
  <2>2. new = [flags |-> f, time |-> t, seen |-> s, err |-> TRUE]
    BY <1>4, <2>1
  <2>3. new \in Parsed /\ new.flags = f /\ new.time = t /\ new.seen = s /\ new.err
    BY <2>2 DEF Parsed
  <2>4. d.key \notin Flags /\ d.arg \notin Int
    BY <1>8, Vocabulary, HttpCachingAssumption
  <2> QED
    BY <1>2, <1>8, <2>3, <2>4 DEF TakesIn
<1>9. CASE d.key \in Flags /\ (d.arg = None \/ d.key \in Qualifiable)
  <2>1. PICK f2 \in SUBSET STRING : f2 = f \cup {d.key}
    BY <1>1
  <2>2. d.key \notin Timed
    BY <1>9, Vocabulary
  <2>3. new = [marked EXCEPT !.flags = f2]
    BY <1>5, <1>6, <1>9, <2>1, <2>2
  <2>4. new = [flags |-> f2, time |-> t, seen |-> s, err |-> e]
    BY <1>4, <2>3
  <2>5. new \in Parsed /\ new.flags = f2 /\ new.time = t /\ new.seen = s /\ ~new.err
    BY <1>2, <2>4, ParsedFields
  <2> QED
    BY <1>2, <1>9, <2>1, <2>2, <2>5 DEF TakesIn
<1>10. CASE /\ ~(d.key \in Timed /\ d.arg # None)
            /\ ~(d.key \in Flags /\ (d.arg = None \/ d.key \in Qualifiable))
  <2>1. new = marked
    BY <1>6, <1>10, Vocabulary
  <2> QED
    BY <1>2, <1>5, <1>10, <2>1, HttpCachingAssumption DEF TakesIn
<1> QED
  BY <1>1, <1>7, <1>8, <1>9, <1>10

\* One more directive.
LEMMA GatheredStep ==
    ASSUME NEW ds \in Seq(Directive), NEW n \in Nat, n < Len(ds),
           NEW cc, Gathered(cc, ds, n), NEW new, new = ParseOne(cc, ds[n + 1])
    PROVE  Gathered(new, ds, n + 1)
<1>1. cc \in Parsed /\ ds[n + 1] \in Directive
  BY DEF Gathered
<1>2. \A i : i \in 1 .. n + 1 <=> i \in 1 .. n \/ i = n + 1
  OBVIOUS
<1>3. CASE cc.err
  BY <1>1, <1>3 DEF ParseOne, Gathered
<1>4. CASE ~cc.err /\ ds[n + 1].key \in cc.seen
  <2>1. new = cc
    BY <1>4 DEF ParseOne
  <2>2. PICK j \in 1 .. n : ds[j].key = ds[n + 1].key
    BY <1>4 DEF Gathered
  <2>3. \A k : ~Leads(ds, k, n + 1)
    BY <2>2 DEF Leads
  <2>4. {ds[i].key : i \in 1 .. n + 1} = {ds[i].key : i \in 1 .. n}
    BY <1>2, <2>2
  <2>5. \A k \in Flags :
          k \in cc.flags <=> \E i \in 1 .. n + 1 : Leads(ds, k, i) /\ (ds[i].arg = None \/ k \in Qualifiable)
    BY <1>2, <1>4, <2>3 DEF Gathered
  <2>6. \A k \in Timed :
          \/ \E i \in 1 .. n + 1 :
               Leads(ds, k, i) /\ ds[i].arg \in Int /\ cc.time[k] = Seconds(ds[i].arg)
          \/ cc.time[k] = 0 /\ \A i \in 1 .. n + 1 : Leads(ds, k, i) => ds[i].arg = None
    BY <1>2, <1>4, <2>3 DEF Gathered
  <2> QED
    BY <1>1, <1>4, <2>1, <2>4, <2>5, <2>6 DEF Gathered
<1>5. CASE ~cc.err /\ ds[n + 1].key \notin cc.seen
  <2>1. PICK d \in Directive : d = ds[n + 1]
    BY <1>1
  <2>2. new \in Parsed /\ TakesIn(cc, d, new)
    <3>1. d.key \notin cc.seen /\ new = ParseOne(cc, d)
      BY <1>5, <2>1
    <3>2. TakesIn(cc, d, new)
      BY <1>1, <1>5, <3>1, ParseOneEffect
    <3> QED
      BY <3>2 DEF TakesIn
  <2>3. \A i \in 1 .. n : ds[i].key # d.key
    BY <1>5, <2>1 DEF Gathered
  <2>4. Leads(ds, d.key, n + 1) /\ \A k : k # d.key => ~Leads(ds, k, n + 1)
    BY <2>1, <2>3 DEF Leads
  <2>5. \A i \in 1 .. n : ~Leads(ds, d.key, i)
    BY <2>3 DEF Leads
  <2>6. new.seen = {ds[i].key : i \in 1 .. n + 1}
    <3>1. cc.seen = {ds[i].key : i \in 1 .. n}
      BY <1>5 DEF Gathered
    <3> QED
      BY <1>2, <2>1, <2>2, <3>1 DEF TakesIn
  <2>7. ASSUME NEW k \in Flags
        PROVE  k \in new.flags <=>
                 \E i \in 1 .. n + 1 : Leads(ds, k, i) /\ (ds[i].arg = None \/ k \in Qualifiable)
    <3>1. k \in cc.flags <=> \E i \in 1 .. n : Leads(ds, k, i) /\ (ds[i].arg = None \/ k \in Qualifiable)
      BY <1>5 DEF Gathered
    <3>2. CASE k = d.key
      <4>1. k \notin cc.flags
        BY <2>5, <3>1, <3>2
      <4>2. k \in new.flags <=> d.arg = None \/ k \in Qualifiable
        BY <2>2, <3>2, <4>1 DEF TakesIn
      <4> QED
        BY <1>2, <2>1, <2>4, <2>5, <3>2, <4>2
    <3>3. CASE k # d.key
      <4>1. k \in new.flags <=> k \in cc.flags
        BY <2>2, <3>3 DEF TakesIn
      <4> QED
        BY <1>2, <2>4, <3>1, <3>3, <4>1
    <3> QED
      BY <3>2, <3>3
  <2>8. ASSUME ~new.err, NEW k \in Timed
        PROVE  \/ \E i \in 1 .. n + 1 :
                    Leads(ds, k, i) /\ ds[i].arg \in Int /\ new.time[k] = Seconds(ds[i].arg)
               \/ new.time[k] = 0 /\ \A i \in 1 .. n + 1 : Leads(ds, k, i) => ds[i].arg = None
    <3>1. \/ \E i \in 1 .. n :
               Leads(ds, k, i) /\ ds[i].arg \in Int /\ cc.time[k] = Seconds(ds[i].arg)
          \/ cc.time[k] = 0 /\ \A i \in 1 .. n : Leads(ds, k, i) => ds[i].arg = None
      BY <1>5 DEF Gathered
    <3>2. cc.time \in [Timed -> Int] /\ d.arg \in Int \cup {None, Bad}
      BY <1>1 DEF Parsed, Directive, Header
    <3>3. CASE k = d.key /\ d.arg \in Int
      <4>1. new.time[k] = Seconds(d.arg)
        BY <2>2, <3>2, <3>3 DEF TakesIn
      <4> QED
        BY <1>2, <2>1, <2>4, <3>3, <4>1
    <3>4. CASE k = d.key /\ d.arg = None
      <4>1. new.time = cc.time
        BY <2>2, <3>4, HttpCachingAssumption DEF TakesIn
      <4>2. cc.time[k] = 0
        BY <2>5, <3>1, <3>4
      <4> QED
        BY <1>2, <2>1, <2>5, <3>4, <4>1, <4>2
    <3>5. CASE k # d.key
      <4>1. new.time[k] = cc.time[k]
        BY <2>2, <3>2, <3>5 DEF TakesIn
      <4> QED
        BY <1>2, <2>4, <3>1, <3>5, <4>1
    <3> QED
      BY <2>2, <2>8, <3>2, <3>3, <3>4, <3>5 DEF TakesIn
  <2> QED
    BY <2>2, <2>6, <2>7, <2>8 DEF Gathered
<1> QED
  BY <1>3, <1>4, <1>5

\* All directives.
LEMMA ParserGathers ==
    ASSUME NEW ds \in Seq(Directive)
    PROVE  Gathered(ParseCacheControlDirective(ds), ds, Len(ds))
<1>1. PICK g : Folding(g, ds, Len(ds)) /\ ParseCacheControlDirective(ds) = g[1 .. Len(ds)]
  BY ParserFolds
<1> DEFINE Fails == {m \in 0 .. Len(ds) : ~Gathered(g[1 .. m], ds, m)}
<1> SUFFICES ASSUME Fails # {} PROVE FALSE
  BY <1>1
<1>2. Fails \in SUBSET Nat
  OBVIOUS
<1>3. PICK m \in Fails : \A j \in Fails : m <= j
  BY <1>2, LeastExists
<1>4. ASSUME NEW s \in SUBSET (1 .. Len(ds))
      PROVE  g[s] = IF s = {} THEN NoDirectives ELSE ParseOne(g[s \ {Max(s)}], ds[Max(s)])
  BY <1>1 DEF Folding
<1>5. CASE m = 0
  <2>1. 1 .. 0 = {}
    OBVIOUS
  <2>2. g[1 .. 0] = NoDirectives
    BY <1>4, <2>1
  <2>3. Gathered(NoDirectives, ds, 0)
    BY NothingYet
  <2> QED
    BY <1>3, <1>5, <2>2, <2>3
<1>6. CASE m # 0
  <2>1. PICK n \in Nat : m = n + 1 /\ n < Len(ds) /\ n \notin Fails
    <3>1. m - 1 \in Nat /\ m = (m - 1) + 1 /\ m - 1 < Len(ds) /\ m - 1 \notin Fails
      BY <1>2, <1>3, <1>6
    <3> QED
      BY <3>1
  <2>2. Gathered(g[1 .. n], ds, n)
    BY <2>1
  <2>3. PICK s \in SUBSET (1 .. n + 1) : s = 1 .. n + 1 /\ n + 1 \in s
    BY <2>1
  <2>4. s \in SUBSET (1 .. Len(ds)) /\ s # {} /\ Max(s) = n + 1 /\ s \ {n + 1} = 1 .. n
    <3>1. Max(s) = n + 1
      BY <2>3, MaxOfPrefix
    <3>2. s \ {n + 1} = 1 .. n
      BY <2>3
    <3>3. n + 1 <= Len(ds) /\ Len(ds) \in Nat
      BY <2>1
    <3>4. 1 .. n + 1 \subseteq 1 .. Len(ds)
      BY <3>3
    <3> QED
      BY <2>3, <3>1, <3>2, <3>4
  <2>5. g[s] = ParseOne(g[1 .. n], ds[n + 1])
    BY <1>4, <2>4
  <2>6. Gathered(g[s], ds, n + 1)
    BY <2>1, <2>2, <2>5, GatheredStep
  <2> QED
    BY <1>3, <2>1, <2>3, <2>6
<1> QED
  BY <1>5, <1>6

-----------------------------------------------------------------------------
(* What the parser makes of a header is what the RFC's reading is.         *)

LEMMA FirstLeads ==
    ASSUME NEW ds \in Seq(Directive), NEW k, NEW i \in DOMAIN ds, Leads(ds, k, i)
    PROVE  Occurs(ds, k) /\ First(ds, k) = ds[i].arg
<1>1. Occurs(ds, k)
  BY DEF Occurs, Leads
<1>2. \A j \in DOMAIN ds : Leads(ds, k, j) => j = i
  <2> SUFFICES ASSUME NEW j \in DOMAIN ds, Leads(ds, k, j), j # i PROVE FALSE
    OBVIOUS
  <2>1. i \in Nat \ {0} /\ j \in Nat \ {0}
    OBVIOUS
  <2>2. i \in 1 .. j - 1 \/ j \in 1 .. i - 1
    BY <2>1
  <2> QED
    BY <2>2 DEF Leads
<1>3. i = CHOOSE j \in DOMAIN ds : ds[j].key = k /\ \A l \in 1 .. j - 1 : ds[l].key # k
  BY <1>2 DEF Leads
<1> QED
  BY <1>1, <1>3 DEF First

LEMMA OneLeads ==
    ASSUME NEW ds \in Seq(Directive), NEW k, Occurs(ds, k)
    PROVE  \E i \in DOMAIN ds : Leads(ds, k, i)
<1> DEFINE S == {i \in DOMAIN ds : ds[i].key = k}
<1>1. S \in SUBSET Nat /\ S # {}
  BY DEF Occurs
<1>2. PICK i \in S : \A j \in S : i <= j
  BY <1>1, LeastExists
<1>3. \A j \in 1 .. i - 1 : j \in DOMAIN ds /\ j < i /\ j \in Nat
  BY <1>2
<1>4. \A j \in 1 .. i - 1 : ds[j].key # k
  BY <1>1, <1>2, <1>3
<1> QED
  BY <1>2, <1>4 DEF Leads

LEMMA FlagsAreRfc ==
    ASSUME NEW ds \in Seq(Directive), NEW cc, cc = ParseCacheControlDirective(ds), ~cc.err,
           NEW k \in Flags
    PROVE  k \in cc.flags <=> RfcFlag(ds, k)
<1>1. Gathered(cc, ds, Len(ds)) /\ DOMAIN ds = 1 .. Len(ds)
  BY ParserGathers
<1>2. k \in cc.flags <=> \E i \in DOMAIN ds : Leads(ds, k, i) /\ (ds[i].arg = None \/ k \in Qualifiable)
  BY <1>1 DEF Gathered
<1> QED
  BY <1>2, FirstLeads, OneLeads DEF RfcFlag

LEMMA TimesAreRfc ==
    ASSUME NEW ds \in Seq(Directive), NEW cc, cc = ParseCacheControlDirective(ds), ~cc.err,
           NEW k \in Timed
    PROVE  \/ RfcSeconds(ds, k) = None /\ cc.time[k] = 0
           \/ \E i \in DOMAIN ds : /\ ds[i].key = k /\ ds[i].arg \in Int
                                   /\ cc.time[k] = Seconds(ds[i].arg)
                                   /\ RfcSeconds(ds, k) = ds[i].arg * Second
<1>1. Gathered(cc, ds, Len(ds)) /\ DOMAIN ds = 1 .. Len(ds)
  BY ParserGathers
<1>2. CASE \E i \in DOMAIN ds : Leads(ds, k, i) /\ ds[i].arg \in Int /\ cc.time[k] = Seconds(ds[i].arg)
  <2>1. PICK i \in DOMAIN ds : Leads(ds, k, i) /\ ds[i].arg \in Int /\ cc.time[k] = Seconds(ds[i].arg)
    BY <1>2
  <2>2. Occurs(ds, k) /\ First(ds, k) = ds[i].arg
    BY <2>1, FirstLeads
  <2>3. RfcSeconds(ds, k) = ds[i].arg * Second
    BY <2>1, <2>2, HttpCachingAssumption DEF RfcSeconds
  <2> QED
    BY <2>1, <2>3 DEF Leads
<1>3. CASE cc.time[k] = 0 /\ \A i \in DOMAIN ds : Leads(ds, k, i) => ds[i].arg = None
  <2>1. Occurs(ds, k) => First(ds, k) = None
    BY <1>3, FirstLeads, OneLeads
  <2> QED
    BY <1>3, <2>1 DEF RfcSeconds
<1> QED
  BY <1>1, <1>2, <1>3 DEF Gathered

LEMMA ParserType ==
    ASSUME NEW ds \in Seq(Directive)
    PROVE  ParseCacheControlDirective(ds) \in Parsed
BY ParserGathers DEF Gathered

-----------------------------------------------------------------------------
(* The invariant.                                                          *)

LEMMA InitResponse == Init => ResponseInv
BY DEF Init, ResponseInv, Stored

LEMMA NextResponse == ResponseInv /\ [Next]_vars => ResponseInv'
<1> SUFFICES ASSUME ResponseInv, [Next]_vars PROVE ResponseInv'
  OBVIOUS
<1>1. ASSUME NEW raw \in Responses, NEW fraction \in 0 .. Second - 1, Receive(raw, fraction)
      PROVE  ResponseInv'
  <2>1. PICK r : r = WithValidDate(raw, fraction)
    OBVIOUS
  <2>2. /\ now \in Nat /\ now <= MaxDelay /\ MaxDelay \in Nat /\ raw \in Response
    BY <1>1, StoredResponseAssumption DEF Receive, ResponseInv
  <2>3. /\ r \in Response /\ r.date \in Int
        /\ r.cc = raw.cc /\ r.age = raw.age /\ r.expires = raw.expires
    <3>1. CASE IsTime(raw.date)
      BY <2>1, <2>2, <3>1 DEF WithValidDate, IsTime, Response, Header
    <3>2. CASE ~IsTime(raw.date)
      <4>1. r = [raw EXCEPT !.date = now - fraction]
        BY <2>1, <3>2 DEF WithValidDate
      <4>2. now - fraction \in Int
        BY <2>2, HttpCachingAssumption
      <4> QED
        BY <2>2, <4>1, <4>2 DEF Response, Header
    <3> QED
      BY <3>1, <3>2
  <2>4. /\ resp' = r /\ respTime' = now /\ now' = now /\ isPrivate' = isPrivate
        /\ creation' = GetEstimatedResponseCreation(r, 0, now, now)
        /\ phase' = IF Kept(r) THEN "stored" ELSE "rejected"
    BY <1>1, <2>1 DEF Receive
  <2>5. Received'
    BY <2>2, <2>3, <2>4 DEF Received
  <2>6. Stored' => Kept(resp)'
    BY <2>4 DEF Stored, Kept
  <2> QED
    BY <2>4, <2>5, <2>6 DEF ResponseInv
<1>2. CASE Tick
  <2>1. now' = now + 1 /\ UNCHANGED <<phase, isPrivate, resp, respTime, creation>>
    BY <1>2 DEF Tick
  <2>2. Received => Received'
    BY <2>1, StoredResponseAssumption DEF Received, ResponseInv
  <2>3. Kept(resp)' = Kept(resp)
    BY <2>1 DEF Kept
  <2> QED
    BY <2>1, <2>2, <2>3 DEF ResponseInv, Stored
<1>3. CASE Again
  BY <1>3 DEF Again, ResponseInv, Stored
<1>4. CASE UNCHANGED vars
  <2>1. UNCHANGED <<now, phase, isPrivate, resp, respTime, creation>>
    BY <1>4 DEF vars
  <2>2. Received' = Received /\ Kept(resp)' = Kept(resp)
    BY <2>1 DEF Received, Kept
  <2> QED
    BY <2>1, <2>2 DEF ResponseInv, Stored
<1> QED
  BY <1>1, <1>2, <1>3, <1>4 DEF Next

LEMMA ResponseHolds == Spec => []ResponseInv
BY InitResponse, NextResponse, PTL DEF Spec

\* A header in error is never kept: its directives would count for nothing.
LEMMA KeptParses ==
    ASSUME NEW r, Kept(r)
    PROVE  ~ParseCacheControlDirective(r.cc).err
BY DEF Kept, IsCacheable, Verdict

-----------------------------------------------------------------------------
(* What is stored.                                                         *)

(***************************************************************************)
(* Whatever upstream sends, and however long its Cache-Control header,     *)
(* what IsCacheable lets through is what section 3 of RFC 9111 allows:     *)
(* StoredIsAllowed (IsCacheable on what ParseCacheControlDirective made of *)
(* the header, against the header itself).                                 *)
(***************************************************************************)
THEOREM OnlyAllowedIsStored == Spec => []StoredIsAllowed
<1>1. ResponseInv => StoredIsAllowed
  <2> SUFFICES ASSUME ResponseInv, Stored
               PROVE  /\ resp.status = 200 /\ ~RfcFlag(resp.cc, "no-store")
                      /\ RfcFlag(resp.cc, "private") => isPrivate
                      /\ ~resp.ranged
    BY DEF StoredIsAllowed
  <2>1. resp \in Response /\ Kept(resp)
    BY DEF ResponseInv, Received, Stored
  <2>2. PICK cc : cc = ParseCacheControlDirective(resp.cc)
    OBVIOUS
  <2>3. resp.cc \in Seq(Directive)
    BY <2>1 DEF Response
  <2>4. ~cc.err
    BY <2>1, <2>2, KeptParses
  <2>5. /\ resp.status = 200 /\ "no-store" \notin cc.flags /\ ~resp.ranged
        /\ "private" \in cc.flags => isPrivate
    BY <2>1, <2>2 DEF Kept, IsCacheable, Verdict
  <2>6. "no-store" \in cc.flags <=> RfcFlag(resp.cc, "no-store")
    BY <2>2, <2>3, <2>4, FlagsAreRfc, Vocabulary
  <2>7. "private" \in cc.flags <=> RfcFlag(resp.cc, "private")
    BY <2>2, <2>3, <2>4, FlagsAreRfc, Vocabulary
  <2> QED
    BY <2>5, <2>6, <2>7
<1> QED
  BY <1>1, ResponseHolds, PTL

-----------------------------------------------------------------------------
(* How old it is.                                                          *)

AgeHeader(r) == IF IsTime(r.age) THEN r.age ELSE 0
Corrected(r) == Duration(Seconds(Atoi(r.age)) + respTime)

LEMMA AtoiIsInt ==
    ASSUME NEW r \in Response
    PROVE  AgeHeader(r) \in Int /\ Atoi(r.age) \in Int
<1>1. AgeHeader(r) \in Int
  BY HttpCachingAssumption DEF IsTime, AgeHeader, Response, Header
<1> QED
  BY <1>1, HttpCachingAssumption DEF AgeHeader, Atoi

\* A number of seconds that fits a Duration fits an int64.
LEMMA AtoiFits ==
    ASSUME NEW r \in Response, NEW age \in Int, age = AgeHeader(r) * Second,
           -Half <= age, age < Half
    PROVE  Atoi(r.age) = AgeHeader(r)
<1>1. AgeHeader(r) \in Int /\ Second \in Nat /\ Second >= 1 /\ Half \in Nat \ {0}
  BY AtoiIsInt, HttpCachingAssumption
<1>2. PICK n \in Int, m \in Nat : n = AgeHeader(r) /\ m = Second - 1
  BY <1>1
<1>3. age = n + n * m
  BY <1>1, <1>2
<1>4. n >= 0 => n * m >= 0
  BY <1>2
<1>5. n <= 0 => n * m <= 0
  BY <1>2
<1>6. n * m \in Int
  BY <1>2
<1>7. -Half <= n /\ n < Half
  BY <1>1, <1>3, <1>4, <1>5, <1>6
<1> QED
  BY <1>1, <1>2, <1>7 DEF AgeHeader, Atoi

LEMMA CreationOf ==
    ASSUME ResponseInv, Stored
    PROVE  /\ now \in Nat /\ respTime \in Nat /\ respTime <= MaxDelay /\ respTime <= now
           /\ resp.date \in Int /\ AgeHeader(resp) \in Int /\ Corrected(resp) \in Int
           /\ creation = respTime - Larger(Larger(0, respTime - resp.date), Corrected(resp))
           /\ creation \in Int /\ creation <= respTime
           /\ resp.date <= respTime => creation <= resp.date
           /\ respTime - creation >= Corrected(resp)
<1>1. /\ resp \in Response /\ resp.date \in Int /\ now \in Nat /\ MaxDelay \in Nat
      /\ respTime \in 0 .. MaxDelay /\ respTime <= now
      /\ creation = GetEstimatedResponseCreation(resp, 0, respTime, respTime)
  BY StoredResponseAssumption DEF ResponseInv, Received, Stored
<1>2. IsTime(resp.date) /\ AgeHeader(resp) \in Int /\ Atoi(resp.age) \in Int
  BY <1>1, AtoiIsInt, HttpCachingAssumption DEF IsTime
<1>3. Seconds(Atoi(resp.age)) \in Int
  BY <1>2, SecondsIsInt
<1>4. Corrected(resp) \in Int
  BY <1>1, <1>3, DurationIsInt DEF Corrected
<1>5. creation = respTime - Larger(Larger(0, respTime - resp.date), Corrected(resp))
  <2>1. respTime - 0 = respTime
    BY <1>1
  <2> QED
    BY <1>1, <1>2, <2>1 DEF GetEstimatedResponseCreation, Corrected
<1> QED
  BY <1>1, <1>2, <1>4, <1>5 DEF Larger

\* With an Age that fits a Duration nothing wraps around.
LEMMA CorrectedFits ==
    ASSUME ResponseInv, Stored, \A r \in Responses : AgeFits(r)
    PROVE  Corrected(resp) = AgeHeader(resp) * Second + respTime
<1>1. PICK r \in Responses : resp.age = r.age
  BY DEF ResponseInv, Received, Stored
<1>2. AgeFits(resp)
  BY <1>1 DEF AgeFits
<1>3. PICK age \in Int : age = AgeHeader(resp) * Second
  BY CreationOf, HttpCachingAssumption
<1>4. -Half <= age /\ age + MaxDelay < Half
  BY <1>2, <1>3 DEF AgeFits, AgeHeader
<1>5. MaxDelay \in Nat /\ Half \in Nat /\ respTime \in Nat /\ respTime <= MaxDelay
  BY CreationOf, StoredResponseAssumption, HttpCachingAssumption
<1>6. age < Half /\ -Half <= age + respTime /\ age + respTime < Half
  BY <1>3, <1>4, <1>5
<1>7. Seconds(Atoi(resp.age)) = age
  <2>1. resp \in Response
    BY DEF ResponseInv, Received, Stored
  <2>2. Atoi(resp.age) = AgeHeader(resp)
    BY <1>3, <1>4, <1>6, <2>1, AtoiFits
  <2> QED
    BY <1>3, <1>4, <1>6, <2>2, DurationFits DEF Seconds
<1>8. Duration(age + respTime) = age + respTime
  BY <1>3, <1>5, <1>6, DurationFits
<1> QED
  BY <1>3, <1>7, <1>8 DEF Corrected

(***************************************************************************)
(* If every Age fits a Duration, no response is taken to be younger than   *)
(* upstream said: NeverYoungerThanReported (GetEstimatedResponseCreation). *)
(* One that does not wraps around, and the age it gives may be anything.   *)
(***************************************************************************)
THEOREM NothingIsRejuvenated ==
    ASSUME \A r \in Responses : AgeFits(r)
    PROVE  Spec => []NeverYoungerThanReported
<1>1. ResponseInv => NeverYoungerThanReported
  <2> SUFFICES ASSUME ResponseInv, Stored
               PROVE  /\ creation <= respTime
                      /\ IsTime(resp.age) => respTime - creation >= resp.age * Second
                      /\ resp.date <= respTime => creation <= resp.date
    BY DEF NeverYoungerThanReported
  <2>1. /\ respTime \in Nat /\ creation \in Int /\ creation <= respTime
        /\ resp.date <= respTime => creation <= resp.date
        /\ respTime - creation >= Corrected(resp)
    BY CreationOf
  <2>2. ASSUME IsTime(resp.age) PROVE respTime - creation >= resp.age * Second
    <3>1. AgeHeader(resp) = resp.age /\ AgeHeader(resp) \in Int
      BY <2>2, CreationOf DEF AgeHeader
    <3>2. PICK age \in Int : age = resp.age * Second
      BY <3>1, HttpCachingAssumption
    <3>3. Corrected(resp) = age + respTime
      BY <3>1, <3>2, CorrectedFits
    <3> QED
      BY <2>1, <3>2, <3>3
  <2> QED
    BY <2>1, <2>2
<1> QED
  BY <1>1, ResponseHolds, PTL

-----------------------------------------------------------------------------
(* How long it is fresh.                                                   *)

LEMMA LifetimeIsInt ==
    ASSUME NEW r \in Response, NEW cc \in Parsed
    PROVE  getFreshnessLifetime(r, cc) \in Int
<1>1. cc.time["s-maxage"] \in Int /\ cc.time["max-age"] \in Int
  BY Vocabulary DEF Parsed
<1>2. \A x \in Int : Quotient(x, 10) \in Int
  BY DEF Quotient
<1>3. \A h \in Header : IsTime(h) => h \in Int
  BY DEF Header, IsTime
<1>4. r.expires \in Header /\ r.date \in Header /\ r.modified \in Header
  BY DEF Response
<1> QED
  BY <1>1, <1>2, <1>3, <1>4 DEF getFreshnessLifetime

(***************************************************************************)
(* A stored response that is stale stays so, whatever its headers, also    *)
(* where they overflow: StaleStaysStale (IsFresh, GetCurrentAge).          *)
(***************************************************************************)
THEOREM StaleForGood == Spec => StaleStaysStale
<1>1. ASSUME ResponseInv, [Next]_vars, Stored, ~Fresh, phase' = "stored"
      PROVE  ~Fresh'
  <2>1. Tick \/ UNCHANGED vars
    BY <1>1 DEF Next, Receive, Again, Stored
  <2>2. (now' = now + 1 \/ now' = now) /\ UNCHANGED <<resp, creation>>
    BY <2>1 DEF Tick, vars
  <2>3. PICK life : life = getFreshnessLifetime(resp, Directives)
    OBVIOUS
  <2>4. resp \in Response /\ now \in Nat /\ creation \in Int
    BY <1>1, CreationOf DEF ResponseInv, Received, Stored
  <2>5. Directives \in Parsed
    BY <2>4, ParserType DEF Response, Directives
  <2>6. life \in Int
    BY <2>3, <2>4, <2>5, LifetimeIsInt
  <2>7. GetCurrentAge(creation, now) \in Int /\ GetCurrentAge(creation, now + 1) \in Int
    BY <2>4, AgeIsInt
  <2>8. GetCurrentAge(creation, now) <= GetCurrentAge(creation, now + 1)
    BY <2>4, AgeMonotone
  <2>9. ~(life > GetCurrentAge(creation, now))
    BY <1>1, <2>3 DEF Fresh, IsFresh
  <2>10. ~(life > GetCurrentAge(creation, now'))
    BY <2>2, <2>6, <2>7, <2>8, <2>9
  <2>11. Fresh' => life > GetCurrentAge(creation, now')
    BY <2>2, <2>3 DEF Fresh, IsFresh, Directives
  <2> QED
    BY <2>10, <2>11
<1>2. ResponseInv /\ [Next]_vars => [Stored /\ ~Fresh /\ phase' = "stored" => ~Fresh']_vars
  BY <1>1
<1> QED
  BY <1>2, ResponseHolds, PTL DEF Spec, StaleStaysStale

\* GetCurrentAge is the age of section 4.2.3.
LEMMA AgesAgree ==
    ASSUME ResponseInv, Stored, \A r \in Responses : AgeFits(r)
    PROVE  GetCurrentAge(creation, now) = RfcAge(resp) /\ RfcAge(resp) \in Nat
<1> DEFINE apparent == Larger(0, respTime - resp.date)
           corrected == AgeHeader(resp) * Second + respTime
<1>1. /\ now \in Nat /\ respTime \in Nat /\ respTime <= now
      /\ resp.date \in Int /\ AgeHeader(resp) \in Int
      /\ creation = respTime - Larger(apparent, corrected)
  BY CreationOf, CorrectedFits
<1>2. Second \in Nat \ {0}
  BY HttpCachingAssumption
<1>3. corrected \in Int
  BY <1>1, <1>2
<1>4. RfcAge(resp) = ((Larger(apparent, corrected) + (now - respTime)) \div Second) * Second
  <2>1. AgeHeader(resp) * Second = IF IsTime(resp.age) THEN resp.age * Second ELSE 0
    BY <1>2 DEF AgeHeader
  <2> QED
    BY <2>1 DEF RfcAge
<1> HIDE DEF corrected
<1>5. Larger(apparent, corrected) \in Nat
  BY <1>1, <1>3 DEF Larger
<1> HIDE DEF apparent
<1>6. PICK age \in Nat : age = Larger(apparent, corrected) + (now - respTime)
  BY <1>1, <1>5
<1>7. now - creation = age
  BY <1>1, <1>5, <1>6
<1>8. Quotient(now - creation, Second) = age \div Second
  BY <1>6, <1>7 DEF Quotient
<1>9. (age \div Second) * Second \in Nat
  BY <1>2, <1>6
<1> QED
  BY <1>4, <1>6, <1>8, <1>9 DEF GetCurrentAge

\* Where the RFC's reading finds a number of seconds, so does the parser.
LEMMA TimesAgree ==
    ASSUME ResponseInv, Stored, \A r \in Responses : Ordinary(r), NEW k \in {"max-age", "s-maxage"}
    PROVE  \/ RfcSeconds(resp.cc, k) = None /\ Directives.time[k] = 0
           \/ /\ RfcSeconds(resp.cc, k) \in Int
              /\ Directives.time[k] = RfcSeconds(resp.cc, k) /\ Directives.time[k] # 0
<1>1. PICK r \in Responses : resp.cc = r.cc
  BY DEF ResponseInv, Received, Stored
<1>2. resp.cc \in Seq(Directive)
  BY DEF ResponseInv, Received, Stored, Response
<1>3. ~Directives.err
  BY KeptParses DEF ResponseInv, Directives
<1>4. k \in Timed
  BY Vocabulary
<1>5. \/ RfcSeconds(resp.cc, k) = None /\ Directives.time[k] = 0
      \/ \E i \in DOMAIN resp.cc : /\ resp.cc[i].key = k /\ resp.cc[i].arg \in Int
                                   /\ Directives.time[k] = Seconds(resp.cc[i].arg)
                                   /\ RfcSeconds(resp.cc, k) = resp.cc[i].arg * Second
  BY <1>2, <1>3, <1>4, TimesAreRfc DEF Directives
<1>6. ASSUME NEW i \in DOMAIN resp.cc, resp.cc[i].key = k, resp.cc[i].arg \in Int,
             Directives.time[k] = Seconds(resp.cc[i].arg),
             RfcSeconds(resp.cc, k) = resp.cc[i].arg * Second
      PROVE  /\ RfcSeconds(resp.cc, k) \in Int
             /\ Directives.time[k] = RfcSeconds(resp.cc, k) /\ Directives.time[k] # 0
  <2>1. IsTime(resp.cc[i].arg)
    BY <1>6, HttpCachingAssumption DEF IsTime
  <2>2. PICK n \in Int : n = resp.cc[i].arg
    BY <1>6
  <2>3. n # 0 /\ -Half <= n * Second /\ n * Second < Half
    BY <1>1, <1>6, <2>1, <2>2 DEF Ordinary
  <2>4. n * Second \in Int /\ n * Second # 0
    BY <2>2, <2>3, HttpCachingAssumption
  <2>5. Seconds(n) = n * Second
    BY <2>3, <2>4, DurationFits DEF Seconds
  <2> QED
    BY <1>6, <2>2, <2>4, <2>5
<1> QED
  BY <1>5, <1>6

\* getFreshnessLifetime is the lifetime of section 4.2.1, up to how a negative
\* one is rounded.
LEMMA LifetimesAgree ==
    ASSUME ResponseInv, Stored, \A r \in Responses : Ordinary(r),
           NEW life, life = getFreshnessLifetime(resp, Directives),
           NEW rfc, rfc = RfcLifetime(resp)
    PROVE  life \in Int /\ rfc \in Int /\ (life = rfc \/ (life <= 0 /\ rfc <= 0))
<1>1. /\ resp \in Response /\ resp.date \in Int
      /\ resp.expires \in Int \cup {None, Bad} /\ resp.modified \in Int \cup {None, Bad}
  BY DEF ResponseInv, Received, Stored, Response, Header
<1>2. IsTime(resp.date) /\ None # Bad
  BY <1>1, HttpCachingAssumption DEF IsTime
<1>3. resp.expires # Bad
  BY DEF ResponseInv, Received, Stored, Ordinary
<1>4. CASE RfcSeconds(resp.cc, "s-maxage") # None
  <2>1. /\ RfcSeconds(resp.cc, "s-maxage") \in Int
        /\ Directives.time["s-maxage"] = RfcSeconds(resp.cc, "s-maxage")
        /\ Directives.time["s-maxage"] # 0
    BY <1>4, TimesAgree
  <2>2. rfc = RfcSeconds(resp.cc, "s-maxage")
    BY <1>4 DEF RfcLifetime
  <2> QED
    BY <2>1, <2>2 DEF getFreshnessLifetime
<1>5. CASE RfcSeconds(resp.cc, "s-maxage") = None /\ RfcSeconds(resp.cc, "max-age") # None
  <2>1. /\ RfcSeconds(resp.cc, "max-age") \in Int
        /\ Directives.time["max-age"] = RfcSeconds(resp.cc, "max-age")
        /\ Directives.time["max-age"] # 0
    BY <1>5, TimesAgree
  <2>2. Directives.time["s-maxage"] = 0
    BY <1>5, TimesAgree, HttpCachingAssumption
  <2>3. rfc = RfcSeconds(resp.cc, "max-age")
    BY <1>5 DEF RfcLifetime
  <2> QED
    BY <2>1, <2>2, <2>3 DEF getFreshnessLifetime
<1>6. CASE RfcSeconds(resp.cc, "s-maxage") = None /\ RfcSeconds(resp.cc, "max-age") = None
  <2>1. Directives.time["s-maxage"] = 0 /\ Directives.time["max-age"] = 0
    BY <1>6, TimesAgree, HttpCachingAssumption
  <2>2. rfc = IF resp.expires # None THEN resp.expires - resp.date
              ELSE IF IsTime(resp.modified) THEN (resp.date - resp.modified) \div 10
              ELSE 0
    BY <1>3, <1>6 DEF RfcLifetime
  <2>3. life = IF resp.expires # None THEN resp.expires - resp.date
               ELSE IF IsTime(resp.modified) THEN Quotient(resp.date - resp.modified, 10)
               ELSE 0
    BY <1>2, <1>3, <2>1 DEF getFreshnessLifetime, IsTime
  <2>4. \A x \in Int : /\ Quotient(x, 10) \in Int /\ x \div 10 \in Int
                       /\ Quotient(x, 10) = x \div 10 \/ (Quotient(x, 10) <= 0 /\ x \div 10 <= 0)
    BY DEF Quotient
  <2>5. CASE resp.expires # None
    <3>1. resp.expires \in Int
      BY <1>1, <1>3, <2>5
    <3> QED
      BY <1>1, <2>2, <2>3, <2>5, <3>1
  <2>6. CASE resp.expires = None /\ IsTime(resp.modified)
    <3>1. resp.date - resp.modified \in Int
      BY <1>1, <2>6 DEF IsTime
    <3> QED
      BY <2>2, <2>3, <2>4, <2>6, <3>1
  <2>7. CASE resp.expires = None /\ ~IsTime(resp.modified)
    BY <2>2, <2>3, <2>7
  <2> QED
    BY <2>5, <2>6, <2>7
<1> QED
  BY <1>4, <1>5, <1>6

(***************************************************************************)
(* For any responses that are Ordinary, a stored one is called fresh       *)
(* exactly as long as sections 4.2.1 to 4.2.3 of RFC 9111 say:             *)
(* FreshAsLongAsRFC (IsFresh, with all it calls and the parser).           *)
(***************************************************************************)
THEOREM FreshByTheRFC ==
    ASSUME \A r \in Responses : Ordinary(r)
    PROVE  Spec => []FreshAsLongAsRFC
<1>1. \A r \in Responses : AgeFits(r)
  BY DEF Ordinary
<1>2. ResponseInv => FreshAsLongAsRFC
  <2> SUFFICES ASSUME ResponseInv, Stored PROVE Fresh <=> RfcLifetime(resp) > RfcAge(resp)
    BY DEF FreshAsLongAsRFC
  <2>1. PICK life : life = getFreshnessLifetime(resp, Directives)
    OBVIOUS
  <2>2. PICK rfc : rfc = RfcLifetime(resp)
    OBVIOUS
  <2>3. PICK age : age = RfcAge(resp)
    OBVIOUS
  <2>4. life \in Int /\ rfc \in Int /\ (life = rfc \/ (life <= 0 /\ rfc <= 0))
    BY <2>1, <2>2, LifetimesAgree
  <2>5. age \in Nat /\ GetCurrentAge(creation, now) = age
    BY <1>1, <2>3, AgesAgree
  <2>6. Fresh <=> life > age
    BY <2>1, <2>5 DEF Fresh, IsFresh
  <2>7. life > age <=> rfc > age
    BY <2>4, <2>5
  <2> QED
    BY <2>2, <2>3, <2>6, <2>7
<1> QED
  BY <1>2, ResponseHolds, PTL
=============================================================================
