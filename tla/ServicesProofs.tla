--------------------------- MODULE ServicesProofs ---------------------------
(***************************************************************************)
(* What the services the studio talks to are promised, for any number of   *)
(* callers, scrapes, tabs and grants, any gap, cap, limit and time:        *)
(* requests of one supplier are a gap apart, the studio's own store is     *)
(* read without robots rules or password of a stranger, only the refresh   *)
(* under way when the owner connects or disconnects Google can undo it, a  *)
(* cover loses its backdrop and nothing else and is framed around its rug, *)
(* a form is filled from one reading of a page, robots.txt is read as the  *)
(* standard says, the tabs of the catalogue are those of its cards, and no *)
(* edit of the sheet is forgotten by its notifier.                         *)
(***************************************************************************)
EXTENDS HostThrottle, Scraping, Revalidation, GoogleConnection, CoverPhoto, Ladder, RobotsRules, CatalogueView,
        WellFoundedInduction, FiniteSetTheorems, SequenceTheorems, TLAPS

-----------------------------------------------------------------------------
(* Requests to one supplier: the slots are in the order they were taken    *)

ThrottleRequest == [is : {"unasked", "waiting", "started", "given up"}, at : Nat, capped : BOOLEAN]

ThrottleTypeOK == now \in Nat /\ next \in Nat /\ request \in [Callers -> ThrottleRequest]

\* A slot is held from its reservation on, also by a request that is under way or done.
Holds(c) == request[c].is \in {"waiting", "started"} /\ ~request[c].capped

HeldBeforeNext == \A c \in Callers : Holds(c) => request[c].at + MIN_HOST_GAP <= next
HeldApart == \A c, d \in Callers : Holds(c) /\ Holds(d) => Apart(c, d)

ThrottleInv == ThrottleTypeOK /\ HeldBeforeNext /\ HeldApart

\* The later of two times is a time, and no earlier than either.
LEMMA LaterBounds ==
    ASSUME NEW a \in Nat, NEW b \in Nat
    PROVE  Later(a, b) \in Nat /\ Later(a, b) >= a /\ Later(a, b) >= b
  BY DEF Later

LEMMA ThrottleNumbers == MIN_HOST_GAP \in Nat /\ MIN_HOST_GAP > 0 /\ MAX_HOST_WAIT \in Nat
  BY ThrottleConstants

LEMMA ThrottleInitInv == ThrottleInit => ThrottleInv
  BY ThrottleConstants DEF ThrottleInit, ThrottleInv, ThrottleTypeOK, ThrottleRequest, HeldBeforeNext, HeldApart, Holds

\* A slot is reserved behind all that are held: take() moves the next one on before it waits.
LEMMA TakeKeepsInv ==
    ASSUME ThrottleInv, NEW c \in Callers, take(c)
    PROVE  ThrottleInv'
  <1> DEFINE start == Later(now, next)
             capped == start - now > MAX_HOST_WAIT
             slot == [is |-> "waiting", at |-> IF capped THEN now + MAX_HOST_WAIT ELSE start, capped |-> capped]
  <1>types. now \in Nat /\ next \in Nat /\ request \in [Callers -> ThrottleRequest]
    BY DEF ThrottleInv, ThrottleTypeOK
  <1>1. start \in Nat /\ start >= now /\ start >= next
    BY <1>types, LaterBounds
  <1>2. /\ next' = start + MIN_HOST_GAP /\ now' = now
        /\ request' = [request EXCEPT ![c] = slot]
    BY DEF take
  <1> HIDE DEF start
  <1>3. slot \in ThrottleRequest
    <2>1. now + MAX_HOST_WAIT \in Nat
      BY <1>types, ThrottleNumbers
    <2>2. capped \in BOOLEAN
      OBVIOUS
    <2> HIDE DEF capped
    <2>3. (IF capped THEN now + MAX_HOST_WAIT ELSE start) \in Nat
      BY <2>1, <1>1
    <2> QED BY <2>2, <2>3 DEF ThrottleRequest
  <1>4. ThrottleTypeOK'
    <2> HIDE DEF slot
    <2>1. next' \in Nat
      BY <1>1, <1>2, ThrottleNumbers
    <2>2. request' \in [Callers -> ThrottleRequest]
      BY <1>types, <1>2, <1>3
    <2> QED BY <2>1, <2>2, <1>types, <1>2 DEF ThrottleTypeOK
  <1>5. /\ request'[c] = slot
        /\ \A d \in Callers \ {c} : request'[d] = request[d]
    BY <1>types, <1>2
  <1>6. Holds(c)' => request'[c].at = start
    <2>1. request'[c].capped = capped /\ request'[c].at = IF capped THEN now + MAX_HOST_WAIT ELSE start
      BY <1>5
    <2> QED BY <2>1 DEF Holds
  <1>numbers. /\ MIN_HOST_GAP \in Nat /\ MIN_HOST_GAP > 0 /\ next \in Nat
        /\ \A d \in Callers : request[d].at \in Nat /\ request'[d].at \in Nat
    <2>1. \A d \in Callers : request[d].at \in Nat /\ request'[d].at \in Nat
      BY <1>types, <1>4 DEF ThrottleTypeOK, ThrottleRequest
    <2> QED BY <2>1, <1>types, ThrottleNumbers
  <1>7. \A d \in Callers \ {c} : Holds(d)' => Holds(d) /\ request'[d].at + MIN_HOST_GAP <= start
    <2> SUFFICES ASSUME NEW d \in Callers \ {c}, Holds(d)'
                 PROVE  Holds(d) /\ request'[d].at + MIN_HOST_GAP <= start
      OBVIOUS
    <2>1. Holds(d) /\ request'[d].at = request[d].at
      BY <1>5 DEF Holds
    <2>2. request[d].at + MIN_HOST_GAP <= next
      BY <2>1 DEF ThrottleInv, HeldBeforeNext
    <2> QED BY <2>1, <2>2, <1>1, <1>numbers
  <1>8. HeldBeforeNext'
    <2> SUFFICES ASSUME NEW d \in Callers, Holds(d)' PROVE request'[d].at + MIN_HOST_GAP <= next'
      BY DEF HeldBeforeNext
    <2>1. CASE d = c
      BY <2>1, <1>1, <1>2, <1>6, <1>numbers
    <2>2. CASE d # c
      BY <2>2, <1>1, <1>2, <1>7, <1>numbers
    <2> QED BY <2>1, <2>2
  <1>9. HeldApart'
    <2> SUFFICES ASSUME NEW d \in Callers, NEW e \in Callers, Holds(d)', Holds(e)' PROVE Apart(d, e)'
      BY DEF HeldApart
    <2>1. CASE d = c /\ e # c
      <3>1. request'[d].at = start /\ request'[e].at + MIN_HOST_GAP <= start
        BY <2>1, <1>6, <1>7
      <3>2. request'[d].at - request'[e].at >= MIN_HOST_GAP
        BY <3>1, <1>1, <1>numbers
      <3> QED BY <3>2 DEF Apart
    <2>2. CASE d # c /\ e = c
      <3>1. request'[e].at = start /\ request'[d].at + MIN_HOST_GAP <= start
        BY <2>2, <1>6, <1>7
      <3>2. request'[e].at - request'[d].at >= MIN_HOST_GAP
        BY <3>1, <1>1, <1>numbers
      <3> QED BY <3>2 DEF Apart
    <2>3. CASE d # c /\ e # c
      BY <2>3, <1>5, <1>7 DEF ThrottleInv, HeldApart, Apart
    <2>4. CASE d = c /\ e = c
      BY <2>4 DEF Apart
    <2> QED BY <2>1, <2>2, <2>3, <2>4
  <1> QED BY <1>4, <1>8, <1>9 DEF ThrottleInv

\* Nobody's slot moves, and nobody comes to hold one, in the other steps.
LEMMA OthersKeepInv ==
    ASSUME ThrottleInv, ThrottleTypeOK', next' = next,
           \A c \in Callers : Holds(c)' => Holds(c) /\ request'[c].at = request[c].at
    PROVE  ThrottleInv'
  <1>1. HeldBeforeNext'
    BY DEF ThrottleInv, HeldBeforeNext
  <1>2. HeldApart'
    BY DEF ThrottleInv, HeldApart, Apart
  <1> QED BY <1>1, <1>2 DEF ThrottleInv

LEMMA ThrottleStepKeepsInv == ThrottleInv /\ [ThrottleNext]_throttleVars => ThrottleInv'
  <1> SUFFICES ASSUME ThrottleInv, [ThrottleNext]_throttleVars PROVE ThrottleInv'
    OBVIOUS
  <1>1. ASSUME NEW c \in Callers, take(c) PROVE ThrottleInv'
    BY <1>1, TakeKeepsInv
  <1>2. ASSUME NEW c \in Callers, Wake(c) PROVE ThrottleInv'
    <2>1. ThrottleTypeOK' /\ next' = next
      BY <1>2 DEF Wake, ThrottleInv, ThrottleTypeOK, ThrottleRequest
    <2>2. \A d \in Callers : Holds(d)' => Holds(d) /\ request'[d].at = request[d].at
      BY <1>2 DEF Wake, ThrottleInv, ThrottleTypeOK, ThrottleRequest, Holds
    <2> QED BY <2>1, <2>2, OthersKeepInv
  <1>3. ASSUME NEW c \in Callers, AbortWait(c) PROVE ThrottleInv'
    <2>1. ThrottleTypeOK' /\ next' = next
      BY <1>3 DEF AbortWait, ThrottleInv, ThrottleTypeOK, ThrottleRequest
    <2>2. \A d \in Callers : Holds(d)' => Holds(d) /\ request'[d].at = request[d].at
      BY <1>3 DEF AbortWait, ThrottleInv, ThrottleTypeOK, ThrottleRequest, Holds
    <2> QED BY <2>1, <2>2, OthersKeepInv
  <1>4. CASE Second
    <2>1. now' = now + 1 /\ next' = next /\ request' = request
      BY <1>4 DEF Second
    <2>types. ThrottleTypeOK'
      <3>1. now \in Nat /\ next \in Nat /\ request \in [Callers -> ThrottleRequest]
        BY DEF ThrottleInv, ThrottleTypeOK
      <3>2. now' \in Nat
        BY <2>1, <3>1
      <3> QED BY <2>1, <3>1, <3>2 DEF ThrottleTypeOK
    <2>2. \A d \in Callers : Holds(d)' => Holds(d) /\ request'[d].at = request[d].at
      BY <2>1 DEF Holds
    <2> QED BY <2>1, <2>types, <2>2, OthersKeepInv
  <1>5. CASE UNCHANGED throttleVars
    <2>1. ThrottleTypeOK' /\ next' = next
      BY <1>5 DEF throttleVars, ThrottleInv, ThrottleTypeOK
    <2>2. \A d \in Callers : Holds(d)' => Holds(d) /\ request'[d].at = request[d].at
      BY <1>5 DEF throttleVars, Holds
    <2> QED BY <2>1, <2>2, OthersKeepInv
  <1> QED BY <1>1, <1>2, <1>3, <1>4, <1>5 DEF ThrottleNext

\* Two requests that waited as long as they had to go out a gap apart, whoever gave up before them
\* (throttle.ts:77-92).
THEOREM SlotsApartHolds == ThrottleSpec => []SlotsApart
  <1>1. ThrottleInv => SlotsApart
    BY DEF ThrottleInv, HeldApart, Holds, SlotsApart, Started
  <1> QED BY <1>1, ThrottleInitInv, ThrottleStepKeepsInv, PTL DEF ThrottleSpec

-----------------------------------------------------------------------------
(* Scrapes of the studio's own store                                       *)

\* The requests and the records of a scrape of the studio's own store.
ScrapePages == {"robots", "js", "json", "page", "password"}
Stages == ScrapePages \cup Failures \cup {"unasked", "ok"}
AScrape == [at : Stages, elsewhere : BOOLEAN, rules : Refusals, late : BOOLEAN,
            error : Failures \cup {"none"}, password : BOOLEAN, cookie : Nat, product : BOOLEAN,
            trouble : BOOLEAN, strayed : BOOLEAN]

ScrapingTypeOK ==
    /\ world \in [of : {"ecg", "shop", "own"}, refused : Refusals, locked : BOOLEAN, known : {"none", "wrong", "right"},
                  sign : Nat]
    /\ robots \in {Unknown} \cup Refusals /\ session \in Nat
    /\ world.of = "own" => scrape \in [Scrapes -> AScrape]

\* The own store, with its password where it is locked.
HasItsPassword == world.of = "own" /\ (world.locked => world.known = "right")
Untroubled(s) == ~s.late /\ ~s.trouble

\* Where a scrape of the own store that met no trouble is: it can still sign in, or carries the
\* sign-in the shop honours, and the product is read before the page is.
OnItsWay(s) ==
    /\ s.at \in {"unasked", "ok", "robots", "js", "password", "page"}
    /\ s.at \in {"robots", "js"} /\ world.locked => s.password \/ s.cookie = world.sign
    /\ s.at = "password" => world.locked
    /\ s.at = "page" => s.product

ScrapingInv == ScrapingTypeOK /\ (HasItsPassword => \A j \in Scrapes : Untroubled(scrape[j]) => OnItsWay(scrape[j]))

LEMMA UnaskedForm ==
    /\ Unasked \in AScrape /\ Unasked.at = "unasked" /\ ~Unasked.late /\ ~Unasked.trouble
  BY DEF Unasked, AScrape, Refusals, Failures, Stages

\* What the steps of a scrape make of its record.
LEMMA FinishForm ==
    \A s \in AScrape, outcome \in Failures \cup {"ok"} :
        /\ Finish(s, outcome) \in AScrape
        /\ Finish(s, outcome).late = s.late /\ Finish(s, outcome).trouble = s.trouble
        /\ ~s.late => Finish(s, outcome).at = outcome
  <1> TAKE s \in AScrape, outcome \in Failures \cup {"ok"}
  <1> DEFINE at == IF outcome # "ok" /\ s.late THEN "timeout" ELSE outcome
  <1>1. at \in Stages /\ s.late \in BOOLEAN /\ s.trouble \in BOOLEAN /\ s.strayed \in BOOLEAN /\ (~s.late => at = outcome)
    BY DEF Failures, AScrape, Stages
  <1>2. Finish(s, outcome) = [Unasked EXCEPT !.at = at, !.late = s.late, !.trouble = s.trouble, !.strayed = s.strayed]
    BY DEF Finish
  <1> HIDE DEF at
  <1>3. \A u \in AScrape, a \in Stages, b, c, d \in BOOLEAN :
            /\ [u EXCEPT !.at = a, !.late = b, !.trouble = c, !.strayed = d] \in AScrape
            /\ [u EXCEPT !.at = a, !.late = b, !.trouble = c, !.strayed = d].at = a
            /\ [u EXCEPT !.at = a, !.late = b, !.trouble = c, !.strayed = d].late = b
            /\ [u EXCEPT !.at = a, !.late = b, !.trouble = c, !.strayed = d].trouble = c
    <2> TAKE u \in AScrape, a \in Stages, b, c, d \in BOOLEAN
    <2> DEFINE v == [u EXCEPT !.at = a, !.late = b, !.trouble = c, !.strayed = d]
    <2>1. v.at = a /\ v.late = b /\ v.trouble = c
      BY DEF AScrape
    <2>2. v \in AScrape
      BY DEF AScrape
    <2> QED BY <2>1, <2>2
  <1> DEFINE v == [Unasked EXCEPT !.at = at, !.late = s.late, !.trouble = s.trouble, !.strayed = s.strayed]
  <1>4. v \in AScrape /\ v.at = at /\ v.late = s.late /\ v.trouble = s.trouble
    <2>1. \A b, c, d \in BOOLEAN :
            /\ [Unasked EXCEPT !.at = at, !.late = b, !.trouble = c, !.strayed = d] \in AScrape
            /\ [Unasked EXCEPT !.at = at, !.late = b, !.trouble = c, !.strayed = d].at = at
            /\ [Unasked EXCEPT !.at = at, !.late = b, !.trouble = c, !.strayed = d].late = b
            /\ [Unasked EXCEPT !.at = at, !.late = b, !.trouble = c, !.strayed = d].trouble = c
      BY <1>1, <1>3, UnaskedForm, ZenonT(60)
    <2> QED BY <1>1, <2>1, Zenon
  <1>5. Finish(s, outcome) = v
    BY <1>2
  <1> HIDE DEF v
  <1> QED BY <1>1, <1>4, <1>5

LEMMA RequestForm ==
    \A s \in AScrape, what \in ScrapePages :
        /\ Request(s, what) \in AScrape /\ Request(s, what).at = what
        /\ Request(s, what).late = s.late /\ Request(s, what).trouble = s.trouble
        /\ Request(s, what).password = s.password /\ Request(s, what).cookie = s.cookie
        /\ Request(s, what).product = s.product
  <1> TAKE s \in AScrape, what \in ScrapePages
  <1> DEFINE b == s.strayed \/ what \in s.rules
  <1>1. b \in BOOLEAN /\ what \in Stages
    BY DEF Stages
  <1>2. Request(s, what) = [s EXCEPT !.at = what, !.strayed = b]
    BY DEF Request
  <1> HIDE DEF b
  <1>3. \A u \in AScrape, a \in Stages, d \in BOOLEAN :
            LET v == [u EXCEPT !.at = a, !.strayed = d]
            IN  /\ v \in AScrape /\ v.at = a /\ v.late = u.late /\ v.trouble = u.trouble
                /\ v.password = u.password /\ v.cookie = u.cookie /\ v.product = u.product
    BY ZenonT(60) DEF AScrape
  <1> DEFINE v == [s EXCEPT !.at = what, !.strayed = b]
  <1>4. /\ v \in AScrape /\ v.at = what /\ v.late = s.late /\ v.trouble = s.trouble
        /\ v.password = s.password /\ v.cookie = s.cookie /\ v.product = s.product
    BY <1>1, <1>3, ZenonT(60)
  <1>5. Request(s, what) = v
    BY <1>2
  <1> HIDE DEF v
  <1> QED BY <1>4, <1>5

LEMMA VettedForm ==
    \A s \in AScrape, what \in ScrapePages \cup {"html"} :
        LET r == Vetted(s, what) IN
        /\ what # "html" \/ robotsRefusal(s, what) => r \in AScrape /\ r.late = s.late
        /\ robotsRefusal(s, what) => r.trouble
        /\ what # "html" /\ ~r.trouble => /\ ~s.trouble /\ r.at = what
                                         /\ r.password = s.password /\ r.cookie = s.cookie
                                         /\ r.product = s.product
  <1> TAKE s \in AScrape, what \in ScrapePages \cup {"html"}
  <1> DEFINE t == [s EXCEPT !.trouble = TRUE]
             r == Vetted(s, what)
  <1>1. t \in AScrape /\ t.late = s.late /\ t.trouble
    BY DEF AScrape
  <1>2. r = IF robotsRefusal(s, what) THEN Finish(t, "blocked") ELSE Request(s, what)
    BY DEF Vetted
  <1>3. "blocked" \in Failures \cup {"ok"}
    BY DEF Failures
  <1> HIDE DEF t, r
  <1>4. CASE robotsRefusal(s, what)
    <2>1. r \in AScrape /\ r.late = s.late /\ r.trouble
      BY <1>1, <1>2, <1>3, <1>4, FinishForm
    <2> QED BY <1>4, <2>1 DEF r
  <1>5. CASE ~robotsRefusal(s, what) /\ what \in ScrapePages
    <2>1. /\ r \in AScrape /\ r.at = what /\ r.late = s.late /\ r.trouble = s.trouble
          /\ r.password = s.password /\ r.cookie = s.cookie /\ r.product = s.product
      BY <1>2, <1>5, RequestForm
    <2>2. s.trouble \in BOOLEAN
      BY DEF AScrape
    <2> QED BY <1>5, <2>1, <2>2 DEF r
  <1>6. CASE ~robotsRefusal(s, what) /\ what = "html"
    BY <1>6
  <1> QED BY <1>4, <1>5, <1>6

LEMMA afterRobotsForm ==
    ASSUME ScrapingTypeOK, world.of = "own", NEW s \in AScrape, NEW rules \in Refusals
    PROVE  LET r == afterRobots(s, rules) IN
           /\ r \in AScrape /\ r.late = s.late
           /\ ~r.trouble => /\ ~s.trouble /\ r.at = "js"
                            /\ r.password = s.password /\ r.cookie = s.cookie
  <1> DEFINE v == [s EXCEPT !.rules = rules]
             r == afterRobots(s, rules)
  <1>1. /\ v \in AScrape /\ v.late = s.late /\ v.trouble = s.trouble /\ v.password = s.password /\ v.cookie = s.cookie
    BY DEF AScrape
  <1>2. r = IF robotsRefusal(v, "html") THEN Vetted(v, "html") ELSE Vetted(v, "js")
    BY DEF afterRobots
  <1>3. "html" \in ScrapePages \cup {"html"} /\ "js" \in ScrapePages \cup {"html"} /\ "js" # "html"
    BY DEF ScrapePages
  <1> HIDE DEF v, r
  <1>4. CASE robotsRefusal(v, "html")
    <2>1. r \in AScrape /\ r.late = v.late /\ r.trouble
      BY <1>1, <1>2, <1>3, <1>4, VettedForm
    <2> QED BY <1>1, <2>1 DEF r
  <1>5. CASE ~robotsRefusal(v, "html")
    <2>1. /\ r \in AScrape /\ r.late = v.late
          /\ ~r.trouble => /\ ~v.trouble /\ r.at = "js"
                           /\ r.password = v.password /\ r.cookie = v.cookie
      BY <1>1, <1>2, <1>3, <1>5, VettedForm
    <2> QED BY <1>1, <2>1 DEF r
  <1> QED BY <1>4, <1>5

LEMMA concludeForm ==
    ASSUME world.of = "own", NEW s \in AScrape, NEW priced \in BOOLEAN
    PROVE  LET r == conclude(s, priced) IN
           /\ r \in AScrape /\ r.late = s.late /\ r.trouble = s.trouble
           /\ ~s.late /\ s.product => r.at = "ok"
  <1> DEFINE outcome == IF ~s.product THEN IF s.error = "none" THEN "parse_failed" ELSE s.error ELSE "ok"
             r == conclude(s, priced)
  <1>1. outcome \in Failures \cup {"ok"} /\ (s.product => outcome = "ok")
    BY DEF AScrape, Failures
  <1>2. r = Finish(s, outcome)
    BY DEF conclude
  <1> HIDE DEF outcome, r
  <1>3. /\ r \in AScrape /\ r.late = s.late /\ r.trouble = s.trouble
        /\ ~s.late => r.at = outcome
    BY <1>1, <1>2, FinishForm
  <1> QED BY <1>1, <1>3 DEF r

LEMMA readPageForm ==
    ASSUME world.of = "own", NEW s \in AScrape, NEW priced \in BOOLEAN
    PROVE  LET r == readPage(s, priced) IN
           /\ r \in AScrape /\ r.late = s.late /\ r.trouble = s.trouble
           /\ ~s.late /\ s.product => r.at = "ok" \/ (r.at = "page" /\ r.product)
  <1> DEFINE r == readPage(s, priced)
  <1>1. r = IF s.late \/ robotsRefusal(s, "html") THEN conclude(s, priced) ELSE Request(s, "page")
    BY DEF readPage
  <1>2. "page" \in ScrapePages
    BY DEF ScrapePages
  <1>3. /\ conclude(s, priced) \in AScrape /\ conclude(s, priced).late = s.late /\ conclude(s, priced).trouble = s.trouble
        /\ ~s.late /\ s.product => conclude(s, priced).at = "ok"
    BY concludeForm
  <1>4. /\ Request(s, "page") \in AScrape /\ Request(s, "page").at = "page"
        /\ Request(s, "page").late = s.late /\ Request(s, "page").trouble = s.trouble
        /\ Request(s, "page").product = s.product
    BY <1>2, RequestForm
  <1> HIDE DEF r
  <1>5. CASE s.late \/ robotsRefusal(s, "html")
    BY <1>1, <1>3, <1>5 DEF r
  <1>6. CASE ~(s.late \/ robotsRefusal(s, "html"))
    BY <1>1, <1>4, <1>6 DEF r
  <1> QED BY <1>5, <1>6

LEMMA ScrapingInitInv == ScrapingInit => ScrapingInv
  <1> SUFFICES ASSUME ScrapingInit PROVE ScrapingInv
    OBVIOUS
  <1>1. ScrapingTypeOK
    <2>1. world \in [of : {"ecg", "shop", "own"}, refused : Refusals, locked : BOOLEAN, known : {"none", "wrong", "right"},
                  sign : Nat]
      BY ScrapingConstants DEF ScrapingInit
    <2>2. scrape \in [Scrapes -> AScrape] /\ robots \in {Unknown} \cup Refusals /\ session \in Nat
      BY UnaskedForm DEF ScrapingInit
    <2> QED BY <2>1, <2>2 DEF ScrapingTypeOK
  <1>2. \A j \in Scrapes : OnItsWay(scrape[j])
    BY UnaskedForm DEF ScrapingInit, OnItsWay
  <1> QED BY <1>1, <1>2 DEF ScrapingInv
LEMMA afterJsForm ==
    ASSUME world.of = "own", NEW s \in AScrape, NEW answer, NEW priced \in BOOLEAN
    PROVE  LET r == afterJs(s, answer, priced) IN
           /\ r \in AScrape /\ r.late = s.late
           /\ ~r.trouble => ~s.trouble
           /\ ~s.late /\ answer = "good" => r.at = "ok" \/ (r.at = "page" /\ r.product)
  <1> DEFINE error == CASE answer = "403" -> "blocked" [] answer \in {"401", "500"} -> "fetch_failed" [] OTHER -> s.error
             known == [s EXCEPT !.error = error]
             with == [s EXCEPT !.product = TRUE]
             r == afterJs(s, answer, priced)
  <1>1. error \in Failures \cup {"none"}
    BY DEF AScrape, Failures
  <1>2. known = [s EXCEPT !.error = CASE answer = "403" -> "blocked"
                                       [] answer \in {"401", "500"} -> "fetch_failed"
                                       [] OTHER -> @]
    OBVIOUS
  <1>3. r = CASE answer = "404" -> Finish(s, "not_found")
              [] answer = "good" -> readPage(with, priced)
              [] OTHER -> IF known.late /\ known.error # "none" THEN Finish(known, known.error)
                          ELSE Vetted(known, "json")
    BY DEF afterJs
  <1> HIDE DEF error
  <1>4. known \in AScrape /\ known.late = s.late /\ known.trouble = s.trouble /\ known.error = error
    BY <1>1 DEF AScrape
  <1>5. with \in AScrape /\ with.late = s.late /\ with.trouble = s.trouble /\ with.product
    BY DEF AScrape
  <1> HIDE DEF known, with, r
  <1>6. CASE answer = "404"
    <2>1. "not_found" \in Failures \cup {"ok"}
      BY DEF Failures
    <2>2. r = Finish(s, "not_found")
      BY <1>3, <1>6
    <2>3. r \in AScrape /\ r.late = s.late /\ r.trouble = s.trouble
      BY <2>1, <2>2, FinishForm
    <2> QED BY <1>6, <2>3 DEF r
  <1>7. CASE answer = "good"
    <2>1. r = readPage(with, priced)
      BY <1>3, <1>7
    <2>2. /\ r \in AScrape /\ r.late = s.late /\ r.trouble = s.trouble
          /\ ~s.late => r.at = "ok" \/ (r.at = "page" /\ r.product)
      BY <1>5, <2>1, readPageForm
    <2> QED BY <2>2 DEF r
  <1>8. CASE answer # "404" /\ answer # "good"
    <2>1. r = IF known.late /\ known.error # "none" THEN Finish(known, known.error) ELSE Vetted(known, "json")
      BY <1>3, <1>8
    <2>2. CASE known.late /\ known.error # "none"
      <3>1. known.error \in Failures \cup {"ok"}
        BY <1>1, <1>4, <2>2
      <3>2. r \in AScrape /\ r.late = s.late /\ r.trouble = s.trouble
        BY <1>4, <2>1, <2>2, <3>1, FinishForm
      <3> QED BY <1>8, <3>2 DEF r
    <2>3. CASE ~(known.late /\ known.error # "none")
      <3>1. "json" \in ScrapePages \cup {"html"} /\ "json" # "html"
        BY DEF ScrapePages
      <3>2. r = Vetted(known, "json")
        BY <2>1, <2>3
      <3>3. r \in AScrape /\ r.late = s.late /\ (~r.trouble => ~s.trouble)
        BY <1>4, <3>1, <3>2, VettedForm
      <3> QED BY <1>8, <3>3 DEF r
    <2> QED BY <2>2, <2>3
  <1> QED BY <1>6, <1>7, <1>8

\* What an answer makes of a scrape of the own store: one that meets no trouble stays on its way.
LEMMA scrapeShopifyForm ==
    ASSUME world.of = "own", NEW s \in AScrape, NEW answer, NEW priced \in BOOLEAN,
           s.at \in {"js", "json", "page"},
           HasItsPassword => (Untroubled(s) => OnItsWay(s) /\ answer \in {"good", "401"}),
           answer = "401" => Locked(s)
    PROVE  LET r == scrapeShopify(s, answer, priced)
           IN  r \in AScrape /\ (HasItsPassword => (Untroubled(r) => OnItsWay(r)))
  <1> DEFINE r == scrapeShopify(s, answer, priced)
             thrown == [s EXCEPT !.error = Thrown(s)]
  <1>0. s.late \in BOOLEAN /\ s.trouble \in BOOLEAN
    BY DEF AScrape
  <1>1. thrown \in AScrape /\ thrown.late = s.late /\ thrown.trouble = s.trouble
    <2>1. Thrown(s) \in Failures
      BY DEF Thrown, Failures
    <2> HIDE DEF Thrown
    <2> QED BY <2>1 DEF AScrape
  <1> HIDE DEF thrown
  <1>2. CASE s.at = "js"
    <2>1. r = IF answer = "throws" THEN afterJs(thrown, "none", priced)
              ELSE IF answer = "401" /\ s.password THEN Request([s EXCEPT !.password = FALSE], "password")
              ELSE afterJs(s, answer, priced)
      BY <1>2 DEF scrapeShopify, thrown
    <2> HIDE DEF r
    <2>2. CASE answer = "throws"
      <3>1. r \in AScrape /\ r.late = s.late /\ (~r.trouble => ~s.trouble)
        BY <1>1, <2>1, <2>2, afterJsForm
      <3> QED BY <2>2, <3>1 DEF r, Untroubled
    <2>3. CASE answer = "401" /\ s.password
      <3> DEFINE u == [s EXCEPT !.password = FALSE]
      <3>1. u \in AScrape /\ u.late = s.late /\ u.trouble = s.trouble
        BY DEF AScrape
      <3>2. r = Request(u, "password") /\ "password" \in ScrapePages
        BY <2>1, <2>3 DEF ScrapePages
      <3> HIDE DEF u
      <3>3. r \in AScrape /\ r.at = "password"
        BY <3>1, <3>2, RequestForm
      <3>4. OnItsWay(r)
        BY <2>3, <3>3 DEF OnItsWay, Locked
      <3> QED BY <3>3, <3>4 DEF r
    <2>4. CASE answer # "throws" /\ ~(answer = "401" /\ s.password)
      <3>1. r = afterJs(s, answer, priced)
        BY <2>1, <2>4
      <3>2. /\ r \in AScrape /\ r.late = s.late /\ (~r.trouble => ~s.trouble)
            /\ ~s.late /\ answer = "good" => r.at = "ok" \/ (r.at = "page" /\ r.product)
        BY <3>1, afterJsForm
      <3>3. ASSUME HasItsPassword, Untroubled(r) PROVE OnItsWay(r)
        <4>1. Untroubled(s)
          BY <3>2, <3>3 DEF Untroubled
        <4>2. answer # "401"
          BY <1>2, <2>4, <3>3, <4>1 DEF OnItsWay, Locked
        <4> QED BY <3>2, <3>3, <4>1, <4>2 DEF OnItsWay, Untroubled
      <3> QED BY <3>2, <3>3 DEF r
    <2> QED BY <2>2, <2>3, <2>4
  <1>3. CASE s.at = "json"
    <2>1. HasItsPassword => ~Untroubled(s)
      BY <1>3 DEF OnItsWay
    <2>2. r \in AScrape /\ r.late = s.late /\ r.trouble = s.trouble
      <3> DEFINE with == [s EXCEPT !.product = answer = "good"]
      <3>1. with \in AScrape /\ with.late = s.late /\ with.trouble = s.trouble
        BY DEF AScrape
      <3>2. r = CASE answer = "throws" -> readPage(thrown, priced)
                  [] answer = "404" -> Finish(s, "not_found")
                  [] answer = "403" -> Finish(s, "blocked")
                  [] answer \in {"401", "500"} -> Finish(s, "fetch_failed")
                  [] OTHER -> readPage(with, priced)
        BY <1>3 DEF scrapeShopify, thrown
      <3>3. "not_found" \in Failures \cup {"ok"} /\ "blocked" \in Failures \cup {"ok"} /\ "fetch_failed" \in Failures \cup {"ok"}
        BY DEF Failures
      <3> HIDE DEF with, r
      <3>4. CASE answer = "throws"
        BY <1>1, <3>2, <3>4, readPageForm
      <3>5. CASE answer \in {"404", "403", "401", "500"}
        BY <3>2, <3>3, <3>5, FinishForm
      <3>6. CASE answer \notin {"throws", "404", "403", "401", "500"}
        <4>1. r = readPage(with, priced)
          BY <3>2, <3>6
        <4> QED BY <3>1, <4>1, readPageForm
      <3> QED BY <3>4, <3>5, <3>6
    <2> HIDE DEF r
    <2>3. HasItsPassword => ~Untroubled(r)
      BY <2>1, <2>2 DEF Untroubled
    <2> QED BY <2>2, <2>3 DEF r
  <1>4. CASE s.at = "page"
    <2> DEFINE u == [s EXCEPT !.product = @ \/ answer \in {"good", "junk"}]
    <2>1. /\ u \in AScrape /\ u.late = s.late /\ u.trouble = s.trouble
          /\ s.product => u.product
      BY DEF AScrape
    <2>2. r = IF s.late /\ answer = "throws" THEN Finish(s, "timeout") ELSE conclude(u, priced)
      BY <1>4 DEF scrapeShopify
    <2>3. "timeout" \in Failures \cup {"ok"}
      BY DEF Failures
    <2> HIDE DEF u, r
    <2>4. CASE s.late /\ answer = "throws"
      <3>1. r \in AScrape /\ r.late = s.late
        BY <2>2, <2>3, <2>4, FinishForm
      <3> QED BY <2>4, <3>1 DEF r, Untroubled
    <2>5. CASE ~(s.late /\ answer = "throws")
      <3>1. /\ r \in AScrape /\ r.late = s.late /\ r.trouble = s.trouble
            /\ ~s.late /\ u.product => r.at = "ok"
        BY <2>1, <2>2, <2>5, concludeForm
      <3>2. ASSUME HasItsPassword, Untroubled(r) PROVE OnItsWay(r)
        BY <1>4, <2>1, <3>1, <3>2 DEF OnItsWay, Untroubled
      <3> QED BY <3>1, <3>2 DEF r
    <2> QED BY <2>4, <2>5
  <1> QED BY <1>2, <1>3, <1>4

\* The invariant survives a step that moves one scrape of the own store on its way, and one of any
\* other store.
LEMMA OneScrapeMoves ==
    ASSUME ScrapingInv, NEW j \in Scrapes, NEW r, scrape' = [scrape EXCEPT ![j] = r], world' = world,
           robots' \in {Unknown} \cup Refusals, session' \in Nat,
           world.of = "own" => r \in AScrape,
           HasItsPassword => (Untroubled(r) => OnItsWay(r))
    PROVE  ScrapingInv'
  <1> USE DEF ScrapingInv
  <1>1. ScrapingTypeOK'
    BY DEF ScrapingTypeOK
  <1>2. ASSUME HasItsPassword', NEW i \in Scrapes, Untroubled(scrape'[i]) PROVE OnItsWay(scrape[i])'
    <2>1. HasItsPassword /\ scrape \in [Scrapes -> AScrape]
      BY <1>2 DEF HasItsPassword, ScrapingTypeOK
    <2>2. OnItsWay(scrape'[i])
      BY <1>2, <2>1
    <2> QED BY <2>2 DEF OnItsWay
  <1> QED BY <1>1, <1>2 DEF Untroubled

LEMMA AnotherStoreMoves ==
    ASSUME ScrapingInv, world.of # "own", world'.of = world.of,
           world' \in [of : {"ecg", "shop", "own"}, refused : Refusals, locked : BOOLEAN,
                       known : {"none", "wrong", "right"}, sign : Nat],
           robots' \in {Unknown} \cup Refusals, session' \in Nat
    PROVE  ScrapingInv'
  BY DEF ScrapingInv, ScrapingTypeOK, HasItsPassword

LEMMA scrapeRugInv ==
    ASSUME ScrapingInv, NEW j \in Scrapes, NEW elsewhere \in BOOLEAN, NEW force \in BOOLEAN, scrapeRug(j, elsewhere, force)
    PROVE  ScrapingInv'
  <1> DEFINE s == [Unasked EXCEPT !.elsewhere = elsewhere, !.password = world.known # "none", !.cookie = session]
             r == IF read /\ ~force THEN Finish(s, "ok")
                  ELSE IF robots = Unknown THEN Request(s, "robots")
                  ELSE afterRobots(s, robots)
  <1>1. scrape' = [scrape EXCEPT ![j] = r] /\ UNCHANGED <<world, robots, session>>
    BY Zenon DEF scrapeRug
  <1>2. ScrapingTypeOK /\ session \in Nat /\ robots \in {Unknown} \cup Refusals
    BY DEF ScrapingInv, ScrapingTypeOK
  <1>3. /\ s \in AScrape /\ s.at = "unasked" /\ ~s.late /\ ~s.trouble
        /\ HasItsPassword /\ world.locked => s.password
    <2>1. \A u \in AScrape, a, b \in BOOLEAN, n \in Nat :
              /\ [u EXCEPT !.elsewhere = a, !.password = b, !.cookie = n] \in AScrape
              /\ [u EXCEPT !.elsewhere = a, !.password = b, !.cookie = n].at = u.at
              /\ [u EXCEPT !.elsewhere = a, !.password = b, !.cookie = n].late = u.late
              /\ [u EXCEPT !.elsewhere = a, !.password = b, !.cookie = n].trouble = u.trouble
              /\ [u EXCEPT !.elsewhere = a, !.password = b, !.cookie = n].password = b
      <3> TAKE u \in AScrape, a, b \in BOOLEAN, n \in Nat
      <3> DEFINE v == [u EXCEPT !.elsewhere = a, !.password = b, !.cookie = n]
      <3>1. v.at = u.at /\ v.late = u.late /\ v.trouble = u.trouble /\ v.password = b
        BY DEF AScrape
      <3>2. v \in AScrape
        BY DEF AScrape
      <3> QED BY <3>1, <3>2
    <2> DEFINE known == world.known # "none"
    <2>2. known \in BOOLEAN /\ s = [Unasked EXCEPT !.elsewhere = elsewhere, !.password = known, !.cookie = session]
      OBVIOUS
    <2> HIDE DEF known, s
    <2>3. \A a, b \in BOOLEAN, n \in Nat :
              /\ [Unasked EXCEPT !.elsewhere = a, !.password = b, !.cookie = n] \in AScrape
              /\ [Unasked EXCEPT !.elsewhere = a, !.password = b, !.cookie = n].at = Unasked.at
              /\ [Unasked EXCEPT !.elsewhere = a, !.password = b, !.cookie = n].late = Unasked.late
              /\ [Unasked EXCEPT !.elsewhere = a, !.password = b, !.cookie = n].trouble = Unasked.trouble
              /\ [Unasked EXCEPT !.elsewhere = a, !.password = b, !.cookie = n].password = b
      BY <2>1, UnaskedForm, Zenon
    <2>4. /\ s \in AScrape /\ s.at = Unasked.at /\ s.late = Unasked.late /\ s.trouble = Unasked.trouble
          /\ s.password = known
      <3>1. session \in Nat
        BY <1>2
      <3>2. \A n \in Nat :
                /\ [Unasked EXCEPT !.elsewhere = elsewhere, !.password = known, !.cookie = n] \in AScrape
                /\ [Unasked EXCEPT !.elsewhere = elsewhere, !.password = known, !.cookie = n].at = Unasked.at
                /\ [Unasked EXCEPT !.elsewhere = elsewhere, !.password = known, !.cookie = n].late = Unasked.late
                /\ [Unasked EXCEPT !.elsewhere = elsewhere, !.password = known, !.cookie = n].trouble = Unasked.trouble
                /\ [Unasked EXCEPT !.elsewhere = elsewhere, !.password = known, !.cookie = n].password = known
        <4>1. \A b \in BOOLEAN, n \in Nat :
                /\ [Unasked EXCEPT !.elsewhere = elsewhere, !.password = b, !.cookie = n] \in AScrape
                /\ [Unasked EXCEPT !.elsewhere = elsewhere, !.password = b, !.cookie = n].at = Unasked.at
                /\ [Unasked EXCEPT !.elsewhere = elsewhere, !.password = b, !.cookie = n].late = Unasked.late
                /\ [Unasked EXCEPT !.elsewhere = elsewhere, !.password = b, !.cookie = n].trouble = Unasked.trouble
                /\ [Unasked EXCEPT !.elsewhere = elsewhere, !.password = b, !.cookie = n].password = b
          BY <2>3
        <4> QED BY <4>1, <2>2
      <3> QED BY <2>2, <3>1, <3>2, Zenon
    <2> HIDE DEF s
    <2>5. HasItsPassword /\ world.locked => world.known # "none"
      BY DEF HasItsPassword
    <2> QED BY <2>4, <2>5, UnaskedForm DEF known
  <1> HIDE DEF s
  <1>4. CASE world.of = "own"
    <2>1. CASE read /\ ~force
      <3>1. "ok" \in Failures \cup {"ok"}
        OBVIOUS
      <3>2. r = Finish(s, "ok")
        BY <2>1
      <3> HIDE DEF r
      <3>3. r \in AScrape /\ r.at = "ok"
        BY <1>3, <3>1, <3>2, FinishForm
      <3>4. OnItsWay(r)
        BY <3>3 DEF OnItsWay
      <3> QED BY <1>1, <1>2, <3>3, <3>4, OneScrapeMoves
    <2>2. CASE ~(read /\ ~force) /\ robots = Unknown
      <3>1. "robots" \in ScrapePages
        BY DEF ScrapePages
      <3>2. r = Request(s, "robots")
        BY <2>2
      <3> HIDE DEF r
      <3>3. r \in AScrape /\ r.at = "robots" /\ r.password = s.password
        BY <1>3, <3>1, <3>2, RequestForm
      <3>4. HasItsPassword => OnItsWay(r)
        BY <1>3, <3>3 DEF OnItsWay
      <3> QED BY <1>1, <1>2, <3>3, <3>4, OneScrapeMoves
    <2>3. CASE ~(read /\ ~force) /\ robots # Unknown
      <3>1. r = afterRobots(s, robots) /\ robots \in Refusals
        BY <1>2, <2>3
      <3> HIDE DEF r
      <3>2. r \in AScrape /\ (~r.trouble => r.at = "js" /\ r.password = s.password)
        BY <1>2, <1>3, <1>4, <3>1, afterRobotsForm
      <3>3. HasItsPassword /\ Untroubled(r) => OnItsWay(r)
        BY <1>3, <3>2 DEF OnItsWay, Untroubled
      <3> QED BY <1>1, <1>2, <3>2, <3>3, OneScrapeMoves
    <2> QED BY <2>1, <2>2, <2>3
  <1>5. CASE world.of # "own"
    BY <1>1, <1>2, <1>5, AnotherStoreMoves DEF ScrapingTypeOK
  <1> QED BY <1>4, <1>5

LEMMA robotsAllowsInv ==
    ASSUME ScrapingInv, NEW j \in Scrapes, NEW answer, robotsAllows(j, answer)
    PROVE  ScrapingInv'
  <1> DEFINE rules == IF answer = "good" THEN world.refused ELSE {}
  <1>1. /\ scrape[j].at = "robots" /\ robots' = rules /\ UNCHANGED <<world, session>>
        /\ scrape' = [scrape EXCEPT ![j] = afterRobots(scrape[j], rules)]
    BY DEF robotsAllows
  <1>2. ScrapingTypeOK /\ session \in Nat /\ world.refused \in Refusals
    BY DEF ScrapingInv, ScrapingTypeOK
  <1>3. rules \in Refusals
    BY <1>2 DEF Refusals
  <1> HIDE DEF rules
  <1>4. CASE world.of = "own"
    <2> DEFINE s == scrape[j]
               r == afterRobots(s, rules)
    <2>1. s \in AScrape /\ (HasItsPassword => (Untroubled(s) => OnItsWay(s)))
      BY <1>4 DEF ScrapingInv, ScrapingTypeOK
    <2>2. s.at = "robots" /\ scrape' = [scrape EXCEPT ![j] = r]
      BY <1>1
    <2> HIDE DEF s
    <2>3. /\ r \in AScrape /\ r.late = s.late
          /\ ~r.trouble => /\ ~s.trouble /\ r.at = "js" /\ r.password = s.password /\ r.cookie = s.cookie
      BY <1>2, <1>3, <1>4, <2>1, afterRobotsForm
    <2> HIDE DEF r
    <2>4. HasItsPassword => (Untroubled(r) => OnItsWay(r))
      BY <2>1, <2>2, <2>3 DEF Untroubled, OnItsWay
    <2> QED BY <1>1, <1>2, <1>3, <2>2, <2>3, <2>4, OneScrapeMoves
  <1>5. CASE world.of # "own"
    BY <1>1, <1>2, <1>3, <1>5, AnotherStoreMoves DEF ScrapingTypeOK
  <1> QED BY <1>4, <1>5

LEMMA AnswerInv ==
    ASSUME ScrapingInv, NEW j \in Scrapes, NEW answer, NEW priced \in BOOLEAN, Answer(j, answer, priced)
    PROVE  ScrapingInv'
  <1>1. /\ UNCHANGED <<world, robots>> /\ session' \in {0, session}
        /\ scrape[j].at \in {"html", "pasted", "firefox", "jina", "js", "json", "page"}
        /\ answer \in Answers(scrape[j])
    BY DEF Answer
  <1>2. /\ ScrapingTypeOK /\ session' \in Nat /\ robots' \in {Unknown} \cup Refusals
    BY <1>1 DEF ScrapingInv, ScrapingTypeOK
  <1>3. CASE world.of = "own"
    <2> DEFINE s == scrape[j]
               trouble == s.trouble \/ answer \notin {"good", "401"}
               marked == [s EXCEPT !.trouble = trouble]
               r == scrapeShopify(marked, answer, priced)
    <2>1. s \in AScrape /\ (HasItsPassword => (Untroubled(s) => OnItsWay(s)))
      BY <1>3 DEF ScrapingInv, ScrapingTypeOK
    <2>2. marked = [s EXCEPT !.trouble = @ \/ answer \notin {"good", "401"}]
      OBVIOUS
    <2>3. scrape' = [scrape EXCEPT ![j] = r]
      BY <1>3, <2>2 DEF Answer
    <2>4. s.at \in {"html", "pasted", "firefox", "jina", "js", "json", "page"} /\ answer \in Answers(s)
      BY <1>1
    <2> HIDE DEF s
    <2>5. /\ marked \in AScrape /\ marked.at = s.at /\ marked.late = s.late /\ marked.trouble = trouble
          /\ marked.password = s.password /\ marked.cookie = s.cookie /\ marked.product = s.product
      <3>1. trouble \in BOOLEAN
        OBVIOUS
      <3> HIDE DEF trouble
      <3> QED BY <2>1, <3>1 DEF AScrape
    <2>6. marked.at \in {"js", "json", "page"}
      <3>1. s.at \in Stages
        BY <2>1 DEF AScrape
      <3> QED BY <2>4, <2>5, <3>1 DEF Stages, ScrapePages, Failures
    <2>7. answer = "401" => Locked(marked)
      BY <2>4, <2>5 DEF Answers, Locked
    <2>8. HasItsPassword => (Untroubled(marked) => OnItsWay(marked) /\ answer \in {"good", "401"})
      BY <2>1, <2>5 DEF Untroubled, OnItsWay
    <2> HIDE DEF marked
    <2>9. r \in AScrape /\ (HasItsPassword => (Untroubled(r) => OnItsWay(r)))
      BY <1>3, <2>5, <2>6, <2>7, <2>8, scrapeShopifyForm
    <2> HIDE DEF r
    <2> QED BY <1>1, <1>2, <2>3, <2>9, OneScrapeMoves
  <1>4. CASE world.of # "own"
    BY <1>1, <1>2, <1>4, AnotherStoreMoves DEF ScrapingTypeOK
  <1> QED BY <1>3, <1>4

LEMMA unlockStorefrontInv ==
    ASSUME ScrapingInv, NEW j \in Scrapes, NEW answer, NEW priced \in BOOLEAN, unlockStorefront(j, answer, priced)
    PROVE  ScrapingInv'
  <1> DEFINE opened == answer = "good" /\ world.known = "right"
  <1>1. /\ UNCHANGED <<world, robots>> /\ session' \in {world.sign, session}
        /\ scrape[j].at = "password" /\ answer \in {"good", "throws"}
    BY DEF unlockStorefront
  <1>2. ScrapingTypeOK /\ session' \in Nat /\ robots' \in {Unknown} \cup Refusals /\ world.sign \in Nat
    BY <1>1 DEF ScrapingInv, ScrapingTypeOK
  <1>3. CASE world.of = "own"
    <2> DEFINE s == scrape[j]
               carrying == [s EXCEPT !.cookie = world.sign]
               marked == IF answer = "throws" THEN [s EXCEPT !.trouble = TRUE, !.error = Thrown(s)] ELSE s
               r == IF opened THEN Request(carrying, "js") ELSE afterJs(marked, "401", priced)
    <2>1. s \in AScrape /\ (HasItsPassword => (Untroubled(s) => OnItsWay(s)))
      BY <1>3 DEF ScrapingInv, ScrapingTypeOK
    <2>2. scrape' = [scrape EXCEPT ![j] = r]
      BY DEF unlockStorefront
    <2>3. s.at = "password"
      BY <1>1
    <2> HIDE DEF s
    <2>4. Thrown(s) \in Failures
      BY DEF Thrown, Failures
    <2>5. \A u \in AScrape, n \in Nat, e \in Failures :
              /\ [u EXCEPT !.cookie = n] \in AScrape /\ [u EXCEPT !.cookie = n].cookie = n
              /\ [u EXCEPT !.trouble = TRUE, !.error = e] \in AScrape /\ [u EXCEPT !.trouble = TRUE, !.error = e].trouble
      BY DEF AScrape
    <2>6. carrying \in AScrape /\ carrying.cookie = world.sign
      <3> DEFINE n == world.sign
      <3>1. n \in Nat /\ carrying = [s EXCEPT !.cookie = n]
        BY <1>2
      <3>2. \A m \in Nat : [s EXCEPT !.cookie = m] \in AScrape /\ [s EXCEPT !.cookie = m].cookie = m
        BY <2>1, <2>4, <2>5, Zenon
      <3> HIDE DEF n, carrying
      <3>3. carrying \in AScrape /\ carrying.cookie = n
        BY <3>1, <3>2, Zenon
      <3> QED BY <3>3 DEF n
    <2>7. marked \in AScrape /\ (answer = "throws" => marked.trouble) /\ (answer # "throws" => marked = s)
      <3>1. [s EXCEPT !.trouble = TRUE, !.error = Thrown(s)] \in AScrape /\ [s EXCEPT !.trouble = TRUE, !.error = Thrown(s)].trouble
        BY <2>1, <2>4, <2>5, Zenon
      <3> QED BY <2>1, <3>1, Zenon
    <2> HIDE DEF carrying, marked
    <2>8. CASE opened
      <3>1. "js" \in ScrapePages
        BY DEF ScrapePages
      <3>2. r = Request(carrying, "js")
        BY <2>8
      <3> HIDE DEF r
      <3>3. r \in AScrape /\ r.at = "js" /\ r.cookie = world.sign
        BY <2>6, <3>1, <3>2, RequestForm
      <3>4. OnItsWay(r)
        BY <3>3 DEF OnItsWay
      <3> QED BY <1>1, <1>2, <2>2, <3>3, <3>4, OneScrapeMoves
    <2>9. CASE ~opened
      <3>1. r = afterJs(marked, "401", priced)
        BY <2>9
      <3> HIDE DEF r
      <3>2. r \in AScrape /\ r.late = marked.late /\ (~r.trouble => ~marked.trouble)
        BY <1>3, <2>7, <3>1, afterJsForm
      <3>3. HasItsPassword => ~Untroubled(r)
        <4>1. CASE answer = "throws"
          BY <2>7, <3>2, <4>1 DEF Untroubled
        <4>2. CASE answer # "throws"
          <5>1. ~(world.known = "right")
            BY <1>1, <2>9, <4>2
          <5> QED BY <2>1, <2>3, <2>7, <3>2, <4>2, <5>1 DEF Untroubled, OnItsWay, HasItsPassword
        <4> QED BY <4>1, <4>2
      <3> QED BY <1>1, <1>2, <2>2, <3>2, <3>3, OneScrapeMoves
    <2> QED BY <2>8, <2>9
  <1>4. CASE world.of # "own"
    BY <1>1, <1>2, <1>4, AnotherStoreMoves DEF ScrapingTypeOK
  <1> QED BY <1>3, <1>4

LEMMA DeadlineInv ==
    ASSUME ScrapingInv, NEW j \in Scrapes, Deadline(j)
    PROVE  ScrapingInv'
  <1>1. UNCHANGED <<world, robots, session>> /\ scrape' = [scrape EXCEPT ![j].late = TRUE]
    BY DEF Deadline
  <1>2. ScrapingTypeOK
    BY DEF ScrapingInv
  <1>3. CASE world.of = "own"
    <2> DEFINE r == [scrape[j] EXCEPT !.late = TRUE]
    <2>1. scrape' = [scrape EXCEPT ![j] = r]
      BY <1>1, Zenon
    <2>2. \A u \in AScrape : [u EXCEPT !.late = TRUE] \in AScrape /\ [u EXCEPT !.late = TRUE].late
      BY DEF AScrape
    <2>3. scrape[j] \in AScrape
      BY <1>2, <1>3 DEF ScrapingTypeOK
    <2>4. r \in AScrape /\ r.late
      BY <2>2, <2>3, Zenon
    <2> HIDE DEF r
    <2> QED BY <1>1, <1>2, <2>1, <2>4, OneScrapeMoves DEF Untroubled, ScrapingTypeOK
  <1>4. CASE world.of # "own"
    BY <1>1, <1>2, <1>4, AnotherStoreMoves DEF ScrapingTypeOK
  <1> QED BY <1>3, <1>4

LEMMA RelockInv ==
    ASSUME ScrapingInv, Relock
    PROVE  ScrapingInv'
  <1>1. /\ UNCHANGED <<robots, session>> /\ world' = [world EXCEPT !.sign = world.sign + 1]
        /\ scrape' = [j \in Scrapes |-> [scrape[j] EXCEPT !.trouble = scrape[j].trouble \/ Running(scrape[j])]]
    BY Zenon DEF Relock
  <1>2. ScrapingTypeOK
    BY DEF ScrapingInv
  <1>3. /\ world' \in [of : {"ecg", "shop", "own"}, refused : Refusals, locked : BOOLEAN,
                       known : {"none", "wrong", "right"}, sign : Nat]
        /\ world'.of = world.of /\ world'.locked = world.locked /\ world'.known = world.known
    <2> DEFINE Worlds == [of : {"ecg", "shop", "own"}, refused : Refusals, locked : BOOLEAN,
                          known : {"none", "wrong", "right"}, sign : Nat]
    <2>1. \A w \in Worlds, n \in Nat :
              LET v == [w EXCEPT !.sign = n] IN v \in Worlds /\ v.of = w.of /\ v.locked = w.locked /\ v.known = w.known
      OBVIOUS
    <2>2. world \in Worlds
      BY <1>2 DEF ScrapingTypeOK
    <2>3. world.sign + 1 \in Nat
      BY <2>2
    <2> HIDE DEF Worlds
    <2>4. world' \in Worlds /\ world'.of = world.of /\ world'.locked = world.locked /\ world'.known = world.known
      BY <1>1, <2>1, <2>2, <2>3
    <2> QED BY <2>4 DEF Worlds
  <1>4. CASE world.of = "own"
    <2>1. \A u \in AScrape, b \in BOOLEAN :
              /\ [u EXCEPT !.trouble = b] \in AScrape
              /\ [u EXCEPT !.trouble = b].trouble = b
              /\ [u EXCEPT !.trouble = b].at = u.at
              /\ [u EXCEPT !.trouble = b].late = u.late
      BY DEF AScrape
    <2>2. ASSUME NEW j \in Scrapes
          PROVE  /\ scrape'[j] \in AScrape /\ scrape'[j].late = scrape[j].late /\ scrape'[j].at = scrape[j].at
                 /\ scrape'[j].trouble = (scrape[j].trouble \/ Running(scrape[j]))
      <3>1. (scrape[j].trouble \/ Running(scrape[j])) \in BOOLEAN
        OBVIOUS
      <3>2. scrape[j] \in AScrape
        BY <1>2, <1>4 DEF ScrapingTypeOK
      <3>3. scrape'[j] = [scrape[j] EXCEPT !.trouble = scrape[j].trouble \/ Running(scrape[j])]
        BY <1>1, Zenon
      <3> QED BY <2>1, <3>1, <3>2, <3>3, Zenon
    <2>3. ScrapingTypeOK'
      BY <1>1, <1>2, <1>3, <2>2 DEF ScrapingTypeOK
    <2>4. ASSUME HasItsPassword', NEW j \in Scrapes, Untroubled(scrape'[j]) PROVE OnItsWay(scrape[j])'
      <3>1. HasItsPassword
        BY <1>3, <2>4 DEF HasItsPassword
      <3>2. Untroubled(scrape[j]) /\ ~Running(scrape[j])
        BY <2>2, <2>4 DEF Untroubled
      <3>3. OnItsWay(scrape[j]) /\ scrape[j].at \in {"unasked", "ok"} \cup Failures
        BY <3>1, <3>2 DEF ScrapingInv, Running
      <3>4. scrape[j].at \in {"unasked", "ok"}
        BY <3>3 DEF OnItsWay, Failures
      <3>5. scrape'[j].at \in {"unasked", "ok"}
        BY <2>2, <3>4
      <3> QED BY <3>5 DEF OnItsWay
    <2> QED BY <2>3, <2>4 DEF ScrapingInv, Untroubled
  <1>5. CASE world.of # "own"
    BY <1>1, <1>2, <1>3, <1>5, AnotherStoreMoves DEF ScrapingTypeOK
  <1> QED BY <1>4, <1>5

LEMMA ExpireInv ==
    ASSUME ScrapingInv, Expire
    PROVE  ScrapingInv'
  <1>1. UNCHANGED <<world, scrape>> /\ robots' \in {Unknown, robots} /\ session' \in {0, session}
    BY DEF Expire
  <1> QED BY <1>1 DEF ScrapingInv, ScrapingTypeOK, HasItsPassword, Untroubled, OnItsWay

LEMMA ScrapingStep == ScrapingInv /\ [ScrapingNext]_scrapingVars => ScrapingInv'
  <1> SUFFICES ASSUME ScrapingInv, [ScrapingNext]_scrapingVars PROVE ScrapingInv'
    OBVIOUS
  <1>1. CASE Relock
    BY <1>1, RelockInv
  <1>2. CASE Expire
    BY <1>2, ExpireInv
  <1>3. CASE \E j \in Scrapes : Deadline(j)
    BY <1>3, DeadlineInv
  <1>4. CASE \E j \in Scrapes : \E elsewhere, force \in BOOLEAN : scrapeRug(j, elsewhere, force)
    BY <1>4, scrapeRugInv
  <1>5. CASE \E j \in Scrapes : Reply(j)
    BY <1>5, robotsAllowsInv, AnswerInv, unlockStorefrontInv DEF Reply
  <1>6. CASE UNCHANGED scrapingVars
    BY <1>6 DEF scrapingVars, ScrapingInv, ScrapingTypeOK, HasItsPassword, Untroubled, OnItsWay
  <1> QED BY <1>1, <1>2, <1>3, <1>4, <1>5, <1>6 DEF ScrapingNext

\* The studio's own store opens for whoever has its password: a scrape that met no trouble on its way
\* does not fail, for any number of scrapes at once and whatever becomes of the sign-in they share.
THEOREM OwnStoreOpensHolds == ScrapingSpec => []OwnStoreOpens
  <1>1. ScrapingInv => OwnStoreOpens
    <2> SUFFICES ASSUME ScrapingInv, NEW j \in Scrapes, HasItsPassword, Untroubled(scrape[j])
                 PROVE  scrape[j].at \notin Failures
      BY DEF OwnStoreOpens, HasItsPassword, Untroubled
    <2> QED BY DEF ScrapingInv, OnItsWay, Failures
  <1> QED BY <1>1, ScrapingInitInv, ScrapingStep, PTL DEF ScrapingSpec

-----------------------------------------------------------------------------
(* The owner's Google account                                              *)

\* What is stored, and what a refresh under way would write back, is what the owner chose last or what
\* was being refreshed at that moment; the environment's token is never written.
GoogleInv ==
    /\ stored \in {chosen, outlives}
    /\ inflight \in {Nothing, Environment, chosen, outlives}

\* The steps that store a grant, that begin or end a refresh, or by which the owner chooses.
LEMMA GoogleStepKeepsInv == GoogleInv /\ [GoogleNext]_googleVars => GoogleInv'
  <1> SUFFICES ASSUME GoogleInv, [GoogleNext]_googleVars
               PROVE  GoogleInv'
    OBVIOUS
  <1> USE DEF GoogleInv
  <1>1. CASE StartRefresh
    BY <1>1 DEF StartRefresh, Current, choiceVars
  <1>2. CASE RefreshOk
    BY <1>2 DEF RefreshOk, choiceVars
  <1>3. CASE RefreshFails
    BY <1>3 DEF RefreshFails, RefreshGone, choiceVars
  <1>4. CASE AccessExpires
    BY <1>4 DEF AccessExpires, choiceVars
  <1>5. CASE HandshakeExpires
    BY <1>5 DEF HandshakeExpires, grantVars, choiceVars
  <1>6. CASE Restart
    BY <1>6 DEF Restart, RefreshGone
  <1>7. ASSUME NEW t \in OwnerTabs, Start(t) \/ ExchangeFails(t) \/ (\E yes \in BOOLEAN : Callback(t, yes))
                                    \/ Provision(t) \/ SheetCreated(t) \/ SheetBuilt(t) \/ SheetFails(t)
        PROVE  GoogleInv'
    BY <1>7 DEF Start, ExchangeFails, Callback, Provision, SheetCreated, SheetBuilt, SheetFails, grantVars,
                choiceVars
  <1>8. ASSUME NEW t \in OwnerTabs, Connected(t)
        PROVE  GoogleInv'
    BY <1>8 DEF Connected, Choose
  <1>9. ASSUME NEW t \in OwnerTabs, Disconnect(t) \/ Revoked(t)
        PROVE  GoogleInv'
    BY <1>9 DEF Disconnect, Revoked, Clear, Choose, grantVars, choiceVars
  <1>10. CASE UNCHANGED googleVars
    BY <1>10 DEF googleVars, grantVars, choiceVars
  <1> QED BY <1>1, <1>2, <1>3, <1>4, <1>5, <1>6, <1>7, <1>8, <1>9, <1>10 DEF GoogleNext

\* What the owner connected or disconnected last stands, but for the answer of the one refresh that was
\* under way at that moment, which may bring back the grant it was refreshing and no other: for any
\* number of tabs and handshakes, with or without a token in the environment, through restarts and
\* through every refresh that begins later.
THEOREM OnlyALateRefreshUndoesHolds == GoogleSpec => []OnlyALateRefreshUndoes
  <1>1. GoogleInit => GoogleInv
    BY DEF GoogleInit, GoogleInv
  <1>2. GoogleInv => OnlyALateRefreshUndoes
    BY DEF GoogleInv, OnlyALateRefreshUndoes
  <1> QED BY <1>1, <1>2, GoogleStepKeepsInv, PTL DEF GoogleSpec

-----------------------------------------------------------------------------
(* What loops compute                                                      *)

\* A set of numbers that is not empty has a least one.
LEMMA LeastOfNats ==
    ASSUME NEW S \in SUBSET Nat, S # {}
    PROVE  \E x \in S : \A y \in S : x <= y
  <1>1. IsWellFoundedOn(OpToRel(<, Nat), Nat)
    BY NatLessThanWellFounded
  <1>2. PICK x \in S : \A y \in S : ~(<<y, x>> \in OpToRel(<, Nat))
    BY <1>1, WFMin
  <1>3. \A y \in S : ~(y < x)
    BY <1>2 DEF OpToRel
  <1> QED BY <1>3

\* Induction up to n, over the set of the numbers it is true of.
LEMMA UpTo ==
    ASSUME NEW n \in Nat, NEW S, 0 \in S, \A k \in 1..n : k - 1 \in S => k \in S
    PROVE  \A k \in 0..n : k \in S
  <1> SUFFICES ASSUME NEW k \in 0..n, k \notin S PROVE FALSE
    OBVIOUS
  <1>1. {j \in 0..n : j \notin S} # {} /\ {j \in 0..n : j \notin S} \in SUBSET Nat
    OBVIOUS
  <1>2. PICK m \in {j \in 0..n : j \notin S} : \A j \in {i \in 0..n : i \notin S} : m <= j
    BY <1>1, LeastOfNats
  <1>3. m \in 1..n
    BY <1>2
  <1>4. m - 1 \in 0..n /\ ~(m <= m - 1)
    BY <1>3
  <1>5. m - 1 \in S
    BY <1>2, <1>4
  <1> QED BY <1>2, <1>3, <1>5

\* The values of a loop before it and after each turn.
Loop(g, n, X, first, step) ==
    g \in [0..n -> X] /\ g[0] = first /\ \A k \in 1..n : g[k] = step[<<g[k - 1], k>>]

\* What a loop computes exists.
LEMMA Iterates ==
    ASSUME NEW n \in Nat, NEW X, NEW first \in X, NEW step \in [X \X (1..n) -> X]
    PROVE  \E g : Loop(g, n, X, first, step)
  <1> DEFINE Is(g, m) == g \in [0..m -> X] /\ g[0] = first /\ \A k \in 1..m : g[k] = step[<<g[k - 1], k>>]
             S == {m \in 0..n : \E g : Is(g, m)}
  <1>1. 0 \in S
    <2>1. PICK g : g = [k \in 0..0 |-> first]
      OBVIOUS
    <2>2. Is(g, 0)
      BY <2>1
    <2> QED BY <2>2
  <1>2. ASSUME NEW m \in 1..n, m - 1 \in S PROVE m \in S
    <2>1. PICK f : Is(f, m - 1)
      BY <1>2
    <2>2. PICK x : x = step[<<f[m - 1], m>>]
      OBVIOUS
    <2>3. PICK g : g = [k \in 0..m |-> IF k = m THEN x ELSE f[k]]
      OBVIOUS
    <2>4. m - 1 \in 0..(m - 1) /\ f[m - 1] \in X
      BY <1>2, <2>1
    <2>5. x \in X
      BY <2>2, <2>4
    <2>6. g[m] = x /\ \A k \in 0..(m - 1) : g[k] = f[k]
      BY <1>2, <2>3
    <2>7. g \in [0..m -> X]
      <3>1. ASSUME NEW k \in 0..m PROVE (IF k = m THEN x ELSE f[k]) \in X
        <4>1. k # m => k \in 0..(m - 1)
          BY <1>2
        <4> QED BY <2>1, <2>5, <4>1
      <3> QED BY <2>3, <3>1
    <2>8. g[0] = first
      BY <1>2, <2>1, <2>6
    <2>9. ASSUME NEW k \in 1..m PROVE g[k] = step[<<g[k - 1], k>>]
      <3>1. CASE k = m
        BY <2>2, <2>4, <2>6, <3>1
      <3>2. CASE k # m
        <4>1. k \in 1..(m - 1) /\ k \in 0..(m - 1) /\ k - 1 \in 0..(m - 1)
          BY <1>2, <3>2
        <4> QED BY <2>1, <2>6, <4>1
      <3> QED BY <3>1, <3>2
    <2>10. Is(g, m)
      BY <2>7, <2>8, <2>9
    <2> HIDE DEF Is
    <2> QED BY <1>2, <2>10
  <1>3. n \in S
    <2> HIDE DEF S
    <2>1. \A k \in 0..n : k \in S
      BY <1>1, <1>2, UpTo
    <2> QED BY <2>1
  <1> QED BY <1>3 DEF Loop

-----------------------------------------------------------------------------
(* The cover's frame                                                       *)

\* Where a frame as long as the box starts along one edge (transform.ts, place): before the box, and
\* far enough to reach its end; inside the photo where it fits.
LEMMA PlaceCovers ==
    ASSUME NEW start \in Nat, NEW long \in Nat, NEW side \in Nat, NEW extent \in Nat,
           start + long <= extent, long <= side
    PROVE  LET at == place(2 * start + long, side, extent)
           IN  /\ at \in Int
               /\ at <= start /\ start + long <= at + side
               /\ side <= extent => at >= 0 /\ at + side <= extent
BY SMT DEF place

\* Stretching one side to 2:3 never makes it shorter (transform.ts, coverFrame).
LEMMA StretchGrows ==
    /\ \A a, b \in Nat : 3 * a > 2 * b => Round32(a) \in Nat /\ Round32(a) >= b
    /\ \A a, b \in Nat : ~(3 * a > 2 * b) => Round23(b) \in Nat /\ Round23(b) >= a
BY SMT DEF Round32, Round23

\* The margin is not negative.
LEMMA MarginNatural ==
    ASSUME NEW a \in Nat, NEW b \in Nat
    PROVE  (2 * Greater(a, b) * CROP_MARGIN + 100) \div 200 \in Nat
<1>1. Greater(a, b) \in Nat
  BY DEF Greater
<1>2. PICK g \in Nat : g = Greater(a, b)
  BY <1>1
<1>3. 2 * g * CROP_MARGIN \in Nat
  BY CropMargin, SMT
<1>4. \A n \in Nat : (n + 100) \div 200 \in Nat
  BY SMT
<1>. QED  BY <1>2, <1>3, <1>4

\* "Framed around the rug, never through it": whatever the photo, the rug's box and the margin, the
\* frame encloses the box, and is inside the photo along a side where it fits
\* (transform.ts, coverFrame).
THEOREM FrameEnclosesTheRug ==
    ASSUME NEW wide \in Nat, NEW high \in Nat,
           NEW b \in [left : Nat, top : Nat, width : Nat, height : Nat], b # Nowhere,
           b.left + b.width <= wide, b.top + b.height <= high
    PROVE  Encloses(coverFrame(wide, high, b), b) /\ InsideWhereItFits(coverFrame(wide, high, b), wide, high)
<1>. DEFINE m == (2 * Greater(b.width, b.height) * CROP_MARGIN + 100) \div 200
            w0 == b.width + 2 * m
            h0 == b.height + 2 * m
            fw == IF 3 * w0 > 2 * h0 THEN w0 ELSE Round23(h0)
            fh == IF 3 * w0 > 2 * h0 THEN Round32(w0) ELSE h0
            f == [left |-> place(2 * b.left + b.width, fw, wide), top |-> place(2 * b.top + b.height, fh, high),
                  width |-> fw, height |-> fh]
<1>1. m \in Nat
  BY MarginNatural
<1>. HIDE DEF m
<1>2. w0 \in Nat /\ h0 \in Nat /\ w0 >= b.width /\ h0 >= b.height
  BY <1>1
<1>. HIDE DEF w0, h0
<1>3. fw \in Nat /\ fw >= w0 /\ fh \in Nat /\ fh >= h0
  BY <1>2, StretchGrows
<1>4. fw \in Nat /\ fw >= b.width /\ fh \in Nat /\ fh >= b.height
  BY <1>2, <1>3
<1>5. coverFrame(wide, high, b) = f
  BY DEF coverFrame, m, w0, h0
<1>. HIDE DEF fw, fh
<1>6. /\ f.left \in Int /\ f.left <= b.left /\ b.left + b.width <= f.left + f.width
      /\ f.width <= wide => f.left >= 0 /\ f.left + f.width <= wide
  BY <1>4, PlaceCovers
<1>7. /\ f.top \in Int /\ f.top <= b.top /\ b.top + b.height <= f.top + f.height
      /\ f.height <= high => f.top >= 0 /\ f.top + f.height <= high
  BY <1>4, PlaceCovers
<1>. QED  BY <1>5, <1>6, <1>7 DEF Encloses, InsideWhereItFits

\* Without a box the frame is a plain 2:3 crop of the photo, and inside it.
THEOREM PlainCropIsInside ==
    ASSUME NEW wide \in Nat \ {0}, NEW high \in Nat \ {0}
    PROVE  LET f == coverFrame(wide, high, Nowhere)
           IN  /\ f.width \in 1..wide /\ f.height \in 1..high
               /\ f.left >= 0 /\ f.left + f.width <= wide
               /\ f.top >= 0 /\ f.top + f.height <= high
<1>1. CASE 3 * wide > 2 * high
  <2>1. Round23(high) \in 1..wide
    BY <1>1 DEF Round23
  <2>. QED  BY <1>1, <2>1 DEF coverFrame
<1>2. CASE ~(3 * wide > 2 * high)
  <2>1. Round32(wide) \in 1..high
    BY <1>2 DEF Round32
  <2>. QED  BY <1>2, <2>1 DEF coverFrame
<1>. QED  BY <1>1, <1>2

-----------------------------------------------------------------------------
(* A cover on its way into Drive                                           *)

\* What is left to do at any moment, for every supplier.
Plans ==
    {<<"rotate90", "removeBackground", "crop2x3">>, <<"removeBackground", "crop2x3">>,
     <<"crop2x3">>, <<"removeBackground">>, <<>>}

Fill == [on : BOOLEAN, queue : SUBSET Pixels, cleared : SUBSET Pixels]

\* The frame is the last thing done, for a photo that has a size; a fill under way is wanted.
FrameInv ==
    /\ across \in Nat \ {0} /\ down \in Nat \ {0}
    /\ todo \in Plans
    /\ fill \in Fill
    /\ fill.on => todo # <<>> /\ Head(todo) = "removeBackground"
    /\ frame = Nowhere \/ (todo = <<>> /\ RugInFrame)

\* A plan without its first part is a plan.
LEMMA PlanFacts ==
    /\ \A plan \in Plans : plan # <<>> => Tail(plan) \in Plans
    /\ \A plan \in Plans : plan # <<>> /\ Head(plan) = "crop2x3" => Tail(plan) = <<>>
    /\ \A plan \in Plans : plan # <<>> /\ Head(plan) = "removeBackground" => Tail(plan) \in {<<>>, <<"crop2x3">>}
    /\ \A plan \in Plans :
          plan # <<>> /\ Head(plan) = "rotate90" => Tail(plan) = <<"removeBackground", "crop2x3">>
    /\ \A v : transformsFor(v) \in Plans
  <1>1. /\ \A plan \in Plans : plan # <<>> => Tail(plan) \in Plans
        /\ \A plan \in Plans : plan # <<>> /\ Head(plan) = "crop2x3" => Tail(plan) = <<>>
        /\ \A plan \in Plans : plan # <<>> /\ Head(plan) = "removeBackground" => Tail(plan) \in {<<>>, <<"crop2x3">>}
        /\ \A plan \in Plans :
              plan # <<>> /\ Head(plan) = "rotate90" => Tail(plan) = <<"removeBackground", "crop2x3">>
    BY DEF Plans
  <1>2. ASSUME NEW v PROVE transformsFor(v) \in Plans
    BY DEF transformsFor, Plans
  <1> QED BY <1>1, <1>2

\* The first and the last of the lines of a photo that are picked.
LEMMA EndsOfLines ==
    ASSUME NEW n \in Nat, NEW S \in SUBSET (0..(n - 1)), S # {}
    PROVE  Min(S) \in S /\ Max(S) \in S /\ \A i \in S : Min(S) <= i /\ i <= Max(S)
  <1>1. \E x \in S : \A y \in S : x =< y
    BY LeastOfNats
  <1>2. \E x \in S : \A y \in S : x >= y
    <2>1. PICK T : T = {k \in 0..n : n - k \in S}
      OBVIOUS
    <2>2. T \in SUBSET Nat /\ \A y \in S : n - y \in T
      BY <2>1
    <2>3. PICK k \in T : \A j \in T : k <= j
      BY <2>2, LeastOfNats
    <2>4. n - k \in S /\ \A y \in S : n - k >= y
      BY <2>1, <2>2, <2>3
    <2> QED BY <2>4
  <1> QED BY <1>1, <1>2 DEF Min, Max

\* The box of the rug is inside the photo.
LEMMA BoxInPhoto ==
    ASSUME FrameInv, NEW rug, NEW b, b = subjectBox(rug), b # Nowhere
    PROVE  /\ b \in [left : Nat, top : Nat, width : Nat, height : Nat]
           /\ b.left + b.width <= across /\ b.top + b.height <= down
  <1>1. PICK ys : ys = Lines(down, [p \in Pixels |-> row(p)], rug)
    OBVIOUS
  <1>2. PICK xs : xs = Lines(across, [p \in Pixels |-> column(p)], rug)
    OBVIOUS
  <1>3. b = [left |-> Min(xs), top |-> Min(ys), width |-> Max(xs) - Min(xs) + 1, height |-> Max(ys) - Min(ys) + 1]
        /\ xs # {} /\ ys # {}
    BY <1>1, <1>2 DEF subjectBox
  <1>4. ys \in SUBSET (0..(down - 1)) /\ xs \in SUBSET (0..(across - 1))
    BY <1>1, <1>2 DEF Lines
  <1>5. across \in Nat /\ down \in Nat
    BY DEF FrameInv
  <1>6. Min(xs) \in xs /\ Max(xs) \in xs /\ Min(xs) <= Max(xs)
    BY <1>3, <1>4, <1>5, EndsOfLines
  <1>7. Min(ys) \in ys /\ Max(ys) \in ys /\ Min(ys) <= Max(ys)
    BY <1>3, <1>4, <1>5, EndsOfLines
  <1>8. PICK x1, x2, y1, y2 : x1 = Min(xs) /\ x2 = Max(xs) /\ y1 = Min(ys) /\ y2 = Max(ys)
    OBVIOUS
  <1>9. x1 \in 0..(across - 1) /\ x2 \in 0..(across - 1) /\ x1 <= x2
        /\ y1 \in 0..(down - 1) /\ y2 \in 0..(down - 1) /\ y1 <= y2
    BY <1>4, <1>6, <1>7, <1>8
  <1>10. b = [left |-> x1, top |-> y1, width |-> x2 - x1 + 1, height |-> y2 - y1 + 1]
    BY <1>3, <1>8
  <1> QED BY <1>5, <1>9, <1>10

\* Every step keeps the frame around the rug and the plan a plan.
LEMMA FrameNext == FrameInv /\ [CoverNext]_coverVars => FrameInv'
  <1> SUFFICES ASSUME FrameInv, [CoverNext]_coverVars PROVE FrameInv'
    OBVIOUS
  <1>1. CASE rotate90
    <2>1. todo # <<>> /\ todo' = Tail(todo) /\ across' = down /\ down' = across /\ UNCHANGED <<frame, fill>>
          /\ Head(todo) = "rotate90"
      BY <1>1 DEF rotate90, Wanted, Done
    <2> QED BY <2>1, PlanFacts DEF FrameInv
  <1>2. CASE StartFill \/ FillOne \/ EndFill
    <2>1. UNCHANGED <<across, down, frame, box>> /\ todo # <<>> /\ Head(todo) = "removeBackground"
      BY <1>2 DEF StartFill, FillOne, EndFill, Wanted, shape, FrameInv
    <2>2. frame = Nowhere
      BY <2>1 DEF FrameInv
    <2>3. todo' = todo \/ (todo' = Tail(todo) /\ ~fill'.on)
      <3>1. CASE StartFill
        <4>1. ~fill.on /\ (todo' = todo \/ (todo' = Tail(todo) /\ fill' = fill))
          BY <3>1, Zenon DEF StartFill, Done, NoOp
        <4> QED BY <4>1
      <3>2. CASE FillOne
        BY <3>2 DEF FillOne
      <3>3. CASE EndFill
        <4>1. todo' = Tail(todo) /\ fill' = [fill EXCEPT !.on = FALSE]
          BY <3>3, Zenon DEF EndFill, Done, NoOp
        <4>2. [fill EXCEPT !.on = FALSE].on = FALSE
          BY DEF FrameInv
        <4> QED BY <4>1, <4>2
      <3> QED BY <1>2, <3>1, <3>2, <3>3
    <2>4. fill' \in Fill
      <3>1. Plain \subseteq Pixels /\ NoFill \in Fill /\ fill \in Fill
        BY DEF Plain, NoFill, Fill, FrameInv
      <3>2. ASSUME NEW f \in Fill, NEW S \in SUBSET Pixels PROVE takeAll(f, S) \in Fill
        BY DEF takeAll, Fill
      <3>3. CASE StartFill
        <4>1. fill' = fill \/ fill' = takeAll([NoFill EXCEPT !.on = TRUE], Plain \cap Border)
          BY <3>3, Zenon DEF StartFill
        <4>2. [NoFill EXCEPT !.on = TRUE] \in Fill
          BY <3>1 DEF Fill
        <4> QED BY <3>1, <3>2, <4>1, <4>2
      <3>4. CASE FillOne
        <4>1. fill' = takeAll([fill EXCEPT !.queue = fill.queue \ {Min(fill.queue)}], Beside(Min(fill.queue)) \cap Plain)
          BY <3>4, Zenon DEF FillOne
        <4>2. [fill EXCEPT !.queue = fill.queue \ {Min(fill.queue)}] \in Fill
          BY <3>1 DEF Fill
        <4> QED BY <3>1, <3>2, <4>1, <4>2
      <3>5. CASE EndFill
        <4>1. fill' = [fill EXCEPT !.on = FALSE]
          BY <3>5, Zenon DEF EndFill
        <4> QED BY <3>1, <4>1 DEF Fill
      <3> QED BY <1>2, <3>3, <3>4, <3>5
    <2> QED BY <2>1, <2>2, <2>3, <2>4, PlanFacts DEF FrameInv
  <1>3. CASE cropTo2x3
    <2>1. PICK found, framed : /\ found = (IF Around = "unknown" THEN Nowhere ELSE subjectBox(Subject))
                               /\ framed = coverFrame(across, down, found)
      OBVIOUS
    <2>2. /\ box' = found /\ frame' = framed /\ UNCHANGED <<across, down>>
          /\ todo # <<>> /\ Head(todo) = "crop2x3" /\ todo' = Tail(todo) /\ fill' = fill
      BY <1>3, <2>1, Zenon DEF cropTo2x3, Wanted, Done, NoOp, shape
    <2>3. todo' = <<>>
      BY <2>2, PlanFacts DEF FrameInv
    <2>4. (found # Nowhere => Encloses(framed, found)) /\ InsideWhereItFits(framed, across, down)
      <3>1. across \in Nat \ {0} /\ down \in Nat \ {0}
        BY DEF FrameInv
      <3>2. CASE found = Nowhere
        <4>1. /\ framed.left >= 0 /\ framed.left + framed.width <= across
              /\ framed.top >= 0 /\ framed.top + framed.height <= down
          BY <2>1, <3>1, <3>2, PlainCropIsInside
        <4> QED BY <3>2, <4>1 DEF InsideWhereItFits
      <3>3. CASE found # Nowhere
        <4>1. found = subjectBox(Subject)
          BY <2>1, <3>3
        <4>2. /\ found \in [left : Nat, top : Nat, width : Nat, height : Nat]
              /\ found.left + found.width <= across /\ found.top + found.height <= down
          BY <3>3, <4>1, BoxInPhoto
        <4>3. across \in Nat /\ down \in Nat
          BY <3>1
        <4> QED BY <2>1, <3>3, <4>2, <4>3, FrameEnclosesTheRug
      <3> QED BY <3>2, <3>3
    <2> QED BY <2>2, <2>3, <2>4 DEF FrameInv, RugInFrame, Plans
  <1>4. CASE Throws
    <2>1. /\ across' = Width /\ down' = Height /\ todo' = <<>> /\ fill' = NoFill /\ frame' = Nowhere
      BY <1>4 DEF Throws
    <2>2. NoFill \in Fill /\ ~NoFill.on
      BY DEF NoFill, Fill
    <2> QED BY <2>1, <2>2, CoverConstants DEF FrameInv, Plans
  <1>5. CASE UNCHANGED coverVars
    BY <1>5 DEF coverVars, shape, FrameInv, RugInFrame
  <1> QED BY <1>1, <1>2, <1>3, <1>4, <1>5 DEF CoverNext

\* A supplier's photo comes with a plan and no frame.
LEMMA FrameInit == CoverInit => FrameInv
  <1> SUFFICES ASSUME CoverInit PROVE FrameInv
    OBVIOUS
  <1>1. /\ across = Width /\ down = Height /\ fill = NoFill /\ frame = Nowhere
        /\ todo = IF mime THEN transformsFor(vendor) ELSE <<>>
    BY DEF CoverInit
  <1>2. todo \in Plans
    BY <1>1, PlanFacts DEF Plans
  <1>3. NoFill \in Fill /\ ~NoFill.on
    BY DEF NoFill, Fill
  <1> QED BY <1>1, <1>2, <1>3, CoverConstants DEF FrameInv

\* Plans, sizes and frames of covers are as they should be, whatever is done to them.
LEMMA FrameHolds == CoverSpec => []FrameInv
  BY FrameInit, FrameNext, PTL DEF CoverSpec

\* The rug is entirely inside the frame, and the frame inside the photo along a side where it fits,
\* for photos of every size and every margin (transform.ts, cropTo2x3).
THEOREM RugInFrameHolds == CoverSpec => []RugInFrame
  <1>1. FrameInv => RugInFrame
    BY DEF FrameInv, RugInFrame
  <1> QED BY <1>1, FrameHolds, PTL

\* One turn of the reference for the flood fill.
Grown(S) == S \cup {p \in Plain : Beside(p) \cap S # {}}
Seeds == Plain \cap Border
Closed(S) == \A p \in S : Beside(p) \cap Plain \subseteq S
Size == Width * Height

\* A photo has pixels.
LEMMA SizeFacts == Size \in Nat /\ Pixels = 0..(Size - 1) /\ IsFiniteSet(Pixels) /\ Cardinality(Pixels) = Size
  <1>1. Size \in Nat
    BY CoverConstants DEF Size
  <1>2. Pixels = 0..(Size - 1)
    BY DEF Pixels, Size
  <1>3. IsFiniteSet(0..(Size - 1)) /\ Cardinality(0..(Size - 1)) = IF 0 > Size - 1 THEN 0 ELSE (Size - 1) - 0 + 1
    BY <1>1, FS_Interval
  <1> QED BY <1>1, <1>2, <1>3

\* A pixel is beside those that are beside it.
LEMMA BesideBoth ==
    ASSUME across \in Nat \ {0}, NEW p \in Pixels, NEW q \in Pixels
    PROVE  q \in Beside(p) <=> p \in Beside(q)
  <1>1. p \in Nat /\ q \in Nat
    BY SizeFacts
  <1>2. \A n \in Nat : n % across \in Int /\ n \div across \in Int
    OBVIOUS
  <1>3. column(p) \in Int /\ column(q) \in Int /\ row(p) \in Int /\ row(q) \in Int
    BY <1>1, <1>2 DEF column, row
  <1> HIDE DEF column, row
  <1> QED BY <1>3 DEF Beside

\* Growing a closed set changes nothing, and what growing does not change is closed.
LEMMA ClosedGrown ==
    ASSUME across \in Nat \ {0}, NEW S \in SUBSET Pixels
    PROVE  Closed(S) <=> Grown(S) = S
  <1>1. Plain \subseteq Pixels /\ \A p \in Pixels : Beside(p) \subseteq Pixels
    BY DEF Plain, Beside
  <1>2. ASSUME Closed(S) PROVE Grown(S) = S
    <2> SUFFICES ASSUME NEW p \in Plain, NEW q \in Beside(p) \cap S PROVE p \in S
      BY DEF Grown
    <2>1. p \in Beside(q)
      BY <1>1, BesideBoth
    <2> QED BY <1>2, <2>1 DEF Closed
  <1>3. ASSUME Grown(S) = S PROVE Closed(S)
    <2> SUFFICES ASSUME NEW p \in S, NEW q \in Beside(p) \cap Plain PROVE q \in S
      BY DEF Closed
    <2>1. p \in Beside(q)
      BY <1>1, BesideBoth
    <2> QED BY <1>3, <2>1 DEF Grown
  <1> QED BY <1>2, <1>3

\* The turns of the reference.
LEMMA EdgeSteps ==
    \E f : /\ f[Size] = ToTheEdge /\ f[0] = Seeds
           /\ \A k \in 1..Size : f[k] = Grown(f[k - 1])
  <1> DEFINE n == Size
             Rec(g) == g = [k \in 0..(Width * Height) |->
                              IF k = 0 THEN Plain \cap Border
                              ELSE LET before == g[k - 1] IN before \cup {p \in Plain : Beside(p) \cap before # {}}]
             f == CHOOSE g : Rec(g)
  <1>1. n \in Nat /\ Plain \subseteq Pixels
    BY SizeFacts DEF Plain
  <1>2. \E g : Rec(g)
    <2>1. PICK X, first : X = SUBSET Pixels /\ first = Seeds
      OBVIOUS
    <2>2. PICK step : step = [c \in X \X (1..n) |-> Grown(c[1])]
      OBVIOUS
    <2>3. \A S \in X : Grown(S) \in X
      BY <1>1, <2>1 DEF Grown
    <2>4. step \in [X \X (1..n) -> X] /\ \A S \in X, k \in 1..n : step[<<S, k>>] = Grown(S)
      BY <2>2, <2>3
    <2>5. first \in X
      BY <1>1, <2>1 DEF Seeds
    <2> HIDE DEF n
    <2>6. \E g : Loop(g, n, X, first, step)
      BY <1>1, <2>4, <2>5, Iterates
    <2>7. PICK g \in [0..n -> X] : g[0] = first /\ \A k \in 1..n : g[k] = step[<<g[k - 1], k>>]
      BY <2>6 DEF Loop
    <2>8. ASSUME NEW k \in 0..n PROVE g[k] = IF k = 0 THEN Seeds ELSE Grown(g[k - 1])
      <3>1. CASE k = 0
        BY <2>1, <2>7, <3>1
      <3>2. CASE k # 0
        <4>1. k \in 1..n /\ k - 1 \in 0..n
          BY <1>1, <3>2
        <4>2. g[k - 1] \in X
          BY <2>7, <4>1
        <4> QED BY <2>4, <2>7, <3>2, <4>1, <4>2
      <3> QED BY <3>1, <3>2
    <2>9. g = [k \in 0..n |-> IF k = 0 THEN Seeds ELSE Grown(g[k - 1])]
      BY <2>7, <2>8
    <2>10. n = Width * Height
      BY DEF n, Size
    <2>11. Rec(g)
      BY <2>9, <2>10, Zenon DEF Grown, Seeds
    <2> HIDE DEF Rec
    <2> QED BY <2>11
  <1>3. Rec(f)
    <2> HIDE DEF Rec
    <2> QED BY <1>2
  <1>4. ToTheEdge = f[Width * Height]
    BY Zenon DEF ToTheEdge
  <1> HIDE DEF f
  <1>5. f[0] = Seeds /\ \A k \in 1..n : f[k] = Grown(f[k - 1])
    <2>1. \A k \in 0..(Width * Height) : f[k] = IF k = 0 THEN Seeds ELSE Grown(f[k - 1])
      BY <1>3, Zenon DEF Grown, Seeds
    <2>2. n = Width * Height
      BY DEF Size
    <2> HIDE DEF n
    <2>3. 0 \in 0..n /\ \A k \in 1..n : k \in 0..n /\ k # 0
      BY <1>1
    <2> QED BY <2>1, <2>2, <2>3, Zenon
  <1> QED BY <1>4, <1>5 DEF Size

\* The reference is the least closed set around the border's plain pixels: it has stopped growing
\* after as many turns as there are pixels.
LEMMA EdgeFacts ==
    ASSUME across \in Nat \ {0}
    PROVE  /\ ToTheEdge \subseteq Pixels /\ Seeds \subseteq ToTheEdge /\ Closed(ToTheEdge)
           /\ \A C \in SUBSET Pixels : Seeds \subseteq C /\ Closed(C) => ToTheEdge \subseteq C
  <1>1. PICK f : /\ f[Size] = ToTheEdge /\ f[0] = Seeds
                 /\ \A k \in 1..Size : f[k] = Grown(f[k - 1])
    BY EdgeSteps
  <1>2. PICK n : n = Size
    OBVIOUS
  <1>3. n \in Nat /\ IsFiniteSet(Pixels) /\ Cardinality(Pixels) = n /\ Plain \subseteq Pixels /\ Seeds \subseteq Pixels
    BY <1>2, SizeFacts DEF Plain, Seeds
  <1> DEFINE Good == {k \in 0..n : /\ f[k] \subseteq Pixels /\ Seeds \subseteq f[k]
                                   /\ Cardinality(f[k]) >= k \/ Grown(f[k]) = f[k]}
  <1>4. 0 \in Good
    <2>1. Cardinality(Seeds) \in Nat
      BY <1>3, FS_Subset, FS_CardinalityType
    <2> QED BY <1>1, <1>3, <2>1
  <1>5. ASSUME NEW k \in 1..n, k - 1 \in Good PROVE k \in Good
    <2>1. PICK S, T : S = f[k - 1] /\ T = f[k]
      OBVIOUS
    <2>2. /\ S \subseteq Pixels /\ Seeds \subseteq S /\ T = Grown(S) /\ k \in 0..n
          /\ Cardinality(S) >= k - 1 \/ Grown(S) = S
      BY <1>1, <1>2, <1>3, <1>5, <2>1
    <2>3. S \subseteq T /\ T \subseteq Pixels
      BY <1>3, <2>2 DEF Grown
    <2>4. CASE T = S
      BY <2>1, <2>2, <2>4
    <2>5. CASE T # S
      <3>1. IsFiniteSet(T) /\ IsFiniteSet(S)
        BY <1>3, <2>2, <2>3, FS_Subset
      <3>2. Cardinality(T) \in Nat /\ Cardinality(S) \in Nat
        BY <3>1, FS_CardinalityType
      <3>3. Cardinality(S) <= Cardinality(T) /\ Cardinality(S) # Cardinality(T)
        BY <2>3, <2>5, <3>1, FS_Subset
      <3>4. Cardinality(T) >= k
        BY <2>2, <2>5, <3>2, <3>3
      <3> QED BY <2>1, <2>2, <2>3, <3>4
    <2> QED BY <2>4, <2>5
  <1> HIDE DEF Good
  <1>6. \A k \in 0..n : k \in Good
    BY <1>3, <1>4, <1>5, UpTo
  <1>7. n \in Good
    BY <1>3, <1>6
  <1>8. PICK E : E = ToTheEdge
    OBVIOUS
  <1>9. E \subseteq Pixels /\ Seeds \subseteq E /\ (Cardinality(E) >= n \/ Grown(E) = E)
    BY <1>1, <1>2, <1>7, <1>8 DEF Good
  <1>10. Grown(E) = E
    <2>1. CASE Cardinality(E) >= n
      <3>1. Cardinality(E) <= Cardinality(Pixels) /\ (Cardinality(Pixels) = Cardinality(E) => Pixels = E)
        BY <1>3, <1>9, FS_Subset
      <3>2. Cardinality(E) \in Nat
        BY <1>3, <1>9, FS_Subset, FS_CardinalityType
      <3>3. E = Pixels
        BY <1>3, <2>1, <3>1, <3>2
      <3> QED BY <1>3, <3>3 DEF Grown
    <2> QED BY <1>9, <2>1
  <1>11. Closed(E)
    BY <1>9, <1>10, ClosedGrown
  <1>12. ASSUME NEW C \in SUBSET Pixels, Seeds \subseteq C, Closed(C) PROVE E \subseteq C
    <2> DEFINE In == {k \in 0..n : f[k] \subseteq C}
    <2>1. 0 \in In
      BY <1>1, <1>3, <1>12
    <2>2. ASSUME NEW k \in 1..n, k - 1 \in In PROVE k \in In
      <3>1. f[k] = Grown(f[k - 1]) /\ f[k - 1] \subseteq C /\ k \in 0..n
        BY <1>1, <1>2, <1>3, <2>2
      <3>2. Grown(C) = C
        BY <1>12, ClosedGrown
      <3>3. Grown(f[k - 1]) \subseteq Grown(C)
        BY <3>1 DEF Grown
      <3> QED BY <3>1, <3>2, <3>3
    <2> HIDE DEF In
    <2>3. \A k \in 0..n : k \in In
      BY <1>3, <2>1, <2>2, UpTo
    <2>4. n \in In
      BY <1>3, <2>3
    <2> QED BY <1>1, <1>2, <1>8, <2>4 DEF In
  <1> QED BY <1>8, <1>9, <1>11, <1>12

\* What a fill under way has cleared is joined to the border, and what is beside it has been looked
\* at or will be; what was cleared in the end is all that is joined.
FillInv ==
    /\ alpha = Opaque \/ (todo \in {<<"crop2x3">>, <<>>} /\ Cleared = ToTheEdge)
    /\ fill.on => /\ Seeds \subseteq fill.cleared /\ fill.cleared \subseteq ToTheEdge
                  /\ fill.queue \subseteq fill.cleared
                  /\ \A p \in fill.cleared \ fill.queue : Beside(p) \cap Plain \subseteq fill.cleared

\* What is joined to the border is so by the photo alone.
LEMMA EdgeStays ==
    ASSUME UNCHANGED <<photo, across, down>>
    PROVE  /\ ToTheEdge' = ToTheEdge /\ Plain' = Plain /\ Seeds' = Seeds
           /\ \A p : Beside(p)' = Beside(p)
  <1>1. column(0)' = column(0) /\ \A p : column(p)' = column(p) /\ row(p)' = row(p)
    BY DEF column, row
  <1>2. \A p : Beside(p)' = Beside(p)
    BY <1>1 DEF Beside
  <1>3. Border' = Border /\ Plain' = Plain
    BY <1>1 DEF Border, Plain
  <1>4. ToTheEdge' = ToTheEdge
    BY <1>2, <1>3, Zenon DEF ToTheEdge
  <1> QED BY <1>2, <1>3, <1>4 DEF Seeds

\* Nothing is cleared from an opaque photo.
LEMMA OpaqueFacts == alpha = Opaque => Cleared = {}
  BY DEF Opaque, Cleared

\* Nothing is cleared at first.
LEMMA FillInit == CoverInit => FillInv
  BY DEF CoverInit, FillInv, NoFill

\* Every step keeps what is cleared joined to the border.
LEMMA FillNext == FrameInv /\ FrameInv' /\ FillInv /\ [CoverNext]_coverVars => FillInv'
  <1> SUFFICES ASSUME FrameInv, FrameInv', FillInv, [CoverNext]_coverVars PROVE FillInv'
    OBVIOUS
  <1>1. /\ across \in Nat \ {0} /\ todo \in Plans /\ fill \in Fill
        /\ fill.queue \subseteq Pixels /\ fill.cleared \subseteq Pixels
        /\ fill.on => todo # <<>> /\ Head(todo) = "removeBackground"
    BY DEF FrameInv, Fill
  <1>2. todo # <<>> /\ Head(todo) # "crop2x3" => alpha = Opaque
    <2>1. Head(<<"crop2x3">>) = "crop2x3"
      OBVIOUS
    <2> QED BY <2>1 DEF FillInv
  <1>3. CASE rotate90
    <2>1. todo # <<>> /\ Head(todo) = "rotate90" /\ alpha' = alpha /\ fill' = fill
      BY <1>3 DEF rotate90, Wanted
    <2> QED BY <1>1, <1>2, <2>1 DEF FillInv
  <1>4. CASE StartFill
    <2>1. /\ UNCHANGED <<photo, across, down, alpha>> /\ ~fill.on /\ todo # <<>> /\ Head(todo) = "removeBackground"
          /\ fill' = fill \/ fill' = takeAll([NoFill EXCEPT !.on = TRUE], Seeds)
      BY <1>4, Zenon DEF StartFill, Wanted, shape, Seeds
    <2>2. CASE fill' = fill
      BY <1>2, <2>1, <2>2 DEF FillInv
    <2>3. CASE fill' = takeAll([NoFill EXCEPT !.on = TRUE], Seeds)
      <3>1. fill'.cleared = Seeds /\ fill'.queue = Seeds
        BY <2>3 DEF takeAll, NoFill
      <3>2. Seeds \subseteq ToTheEdge
        BY <1>1, EdgeFacts
      <3>3. ToTheEdge' = ToTheEdge /\ Seeds' = Seeds
        BY <2>1, EdgeStays
      <3> QED BY <1>2, <2>1, <3>1, <3>2, <3>3 DEF FillInv
    <2> QED BY <2>1, <2>2, <2>3
  <1>5. CASE FillOne
    <2>1. PICK p : p = Min(fill.queue)
      OBVIOUS
    <2>2. /\ UNCHANGED <<photo, across, down, alpha, todo>> /\ fill.on /\ fill.queue # {}
          /\ fill' = takeAll([fill EXCEPT !.queue = fill.queue \ {p}], Beside(p) \cap Plain)
      BY <1>5, <2>1 DEF FillOne, shape
    <2>3. p \in fill.queue
      <3>1. Size \in Nat /\ fill.queue \in SUBSET (0..(Size - 1))
        BY <1>1, SizeFacts
      <3> QED BY <2>1, <2>2, <3>1, EndsOfLines
    <2>4. PICK S : S = Beside(p) \cap Plain
      OBVIOUS
    <2>5. /\ fill'.cleared = fill.cleared \cup S
          /\ fill'.queue = (fill.queue \ {p}) \cup (S \ fill.cleared)
      BY <1>1, <2>2, <2>4 DEF takeAll, Fill
    <2>6. Closed(ToTheEdge)
      BY <1>1, EdgeFacts
    <2>7. S \subseteq ToTheEdge
      BY <2>2, <2>3, <2>4, <2>6 DEF Closed, FillInv
    <2>8. ASSUME NEW q \in fill'.cleared \ fill'.queue PROVE Beside(q) \cap Plain \subseteq fill'.cleared
      <3>1. CASE q = p
        BY <2>4, <2>5, <3>1
      <3>2. CASE q # p
        <4>1. q \in fill.cleared \ fill.queue
          BY <2>5, <2>8, <3>2
        <4> QED BY <2>2, <2>5, <4>1 DEF FillInv
      <3> QED BY <3>1, <3>2
    <2>9. ToTheEdge' = ToTheEdge /\ Seeds' = Seeds /\ Plain' = Plain /\ \A q : Beside(q)' = Beside(q)
      BY <2>2, EdgeStays
    <2>10. alpha' = Opaque
      BY <1>1, <1>2, <2>2
    <2>11. /\ Seeds \subseteq fill'.cleared /\ fill'.cleared \subseteq ToTheEdge
           /\ fill'.queue \subseteq fill'.cleared
      BY <2>2, <2>5, <2>7 DEF FillInv
    <2> QED BY <2>8, <2>9, <2>10, <2>11 DEF FillInv
  <1>6. CASE EndFill
    <2>1. /\ UNCHANGED <<photo, across, down>> /\ fill.on /\ fill.queue = {}
          /\ fill' = [fill EXCEPT !.on = FALSE]
          /\ todo' = Tail(todo)
          /\ \/ alpha' = alpha
             \/ \E outline : alpha' = [p \in Pixels |->
                       IF p \in fill.cleared THEN "none"
                       ELSE IF p \in outline /\ photo[p] = "soft" THEN "part" ELSE "full"]
      BY <1>6, Zenon DEF EndFill, shape, NoOp, Done
    <2>2. ~fill'.on
      BY <1>1, <2>1 DEF Fill
    <2>3. CASE alpha' = alpha
      BY <1>1, <1>2, <2>1, <2>2, <2>3 DEF FillInv
    <2>4. CASE alpha' # alpha
      <3>1. Cleared' = fill.cleared
        BY <1>1, <2>1, <2>4 DEF Cleared
      <3>2. Closed(fill.cleared)
        BY <2>1 DEF FillInv, Closed
      <3>3. fill.cleared = ToTheEdge
        BY <1>1, <2>1, <3>2, EdgeFacts DEF FillInv
      <3>4. ToTheEdge' = ToTheEdge
        BY <2>1, EdgeStays
      <3>5. todo' \in {<<>>, <<"crop2x3">>}
        BY <1>1, <2>1, PlanFacts
      <3> QED BY <2>2, <3>1, <3>3, <3>4, <3>5 DEF FillInv
    <2> QED BY <2>3, <2>4
  <1>7. CASE cropTo2x3
    <2>1. /\ UNCHANGED <<photo, across, down, alpha, fill>>
          /\ todo # <<>> /\ Head(todo) = "crop2x3" /\ todo' = Tail(todo)
      BY <1>7, Zenon DEF cropTo2x3, Wanted, Done, NoOp, shape
    <2>2. todo' = <<>> /\ ~fill.on
      BY <1>1, <2>1, PlanFacts
    <2>3. ToTheEdge' = ToTheEdge /\ Cleared' = Cleared
      BY <2>1, EdgeStays DEF Cleared
    <2> QED BY <2>1, <2>2, <2>3 DEF FillInv
  <1>8. CASE Throws
    <2>1. alpha' = Opaque /\ fill' = NoFill
      BY <1>8 DEF Throws
    <2> QED BY <2>1 DEF FillInv, NoFill, Opaque
  <1>9. CASE UNCHANGED coverVars
    <2>1. UNCHANGED <<photo, across, down, alpha, fill, todo>>
      BY <1>9 DEF coverVars, shape
    <2>2. /\ ToTheEdge' = ToTheEdge /\ Seeds' = Seeds /\ Plain' = Plain /\ Cleared' = Cleared
          /\ \A q : Beside(q)' = Beside(q)
      BY <2>1, EdgeStays DEF Cleared
    <2> QED BY <2>1, <2>2 DEF FillInv
  <1> QED BY <1>3, <1>4, <1>5, <1>6, <1>7, <1>8, <1>9 DEF CoverNext

\* A stored cover has lost the backdrop that is joined to the photo's border and nothing else, or
\* nothing at all, for photos of every size and content (transform.ts, clearBackdrop).
THEOREM ClearsTheBackdropOnlyHolds == CoverSpec => []ClearsTheBackdropOnly
  <1>1. FillInv => ClearsTheBackdropOnly
    BY OpaqueFacts DEF FillInv, ClearsTheBackdropOnly
  <1> QED BY <1>1, FrameHolds, FillInit, FillNext, PTL DEF CoverSpec

-----------------------------------------------------------------------------
(* The reading of a product page: one reading at each stage                *)

\* What is true of the form being filled at each stage: its sides are of one reading, nothing is
\* blank that a rung has once the blanks are filled, and the status tells what is there.
Filled == \A f \in RUNG_FIELDS : Readers(f) # {} /\ ~(f = "price" /\ Own /\ page.free) => present(draft[f])
Marked == \A f \in RUNG_FIELDS : present(draft[f]) <=> fieldStatus[f] # "missing"
LadderInv ==
    /\ page \in Readings /\ DOMAIN draft = RUNG_FIELDS
    /\ OneMeasure /\ (present(draft["width"]) <=> present(draft["length"]))
    /\ stage \in {"fetched", "parsed", "filled", "unread", "final", "again"}
    /\ stage = "fetched" => draft = [f \in RUNG_FIELDS |-> Blank]
    /\ stage \in {"filled", "final", "again"} => Filled
    /\ Read => Marked

LEMMA SidesTogether == page \in Readings => Readers("width") = Readers("length")
BY ReadingsForm DEF Readers, rungReads, Sides, RUNG_FIELDS

LEMMA MergeForm ==
    ASSUME page \in Readings
    PROVE  /\ DOMAIN mergeRungs = RUNG_FIELDS /\ mergeRungs["width"] = mergeRungs["length"]
           /\ \A f \in RUNG_FIELDS : Readers(f) # {} => present(mergeRungs[f])
<1>1. DOMAIN mergeRungs = RUNG_FIELDS
  BY DEF mergeRungs
<1>2. mergeRungs["width"] = mergeRungs["length"]
  BY SidesTogether DEF mergeRungs, RUNG_FIELDS, Sides
<1>3. ASSUME NEW f \in RUNG_FIELDS, Readers(f) # {} PROVE present(mergeRungs[f])
  <2>1. PICK by, how : mergeRungs[f] = At(by, how) /\ how \in {"derived", "stated"}
    BY <1>3 DEF mergeRungs
  <2> QED BY <2>1 DEF present, At, Blank
<1> QED BY <1>1, <1>2, <1>3

LEMMA ParseInv == LadderInv /\ parse => LadderInv'
<1> SUFFICES ASSUME LadderInv, parse PROVE LadderInv'
  OBVIOUS
<1>0. page' = page /\ page \in Readings /\ stage = "fetched" /\ draft = [f \in RUNG_FIELDS |-> Blank] /\ supplier' = supplier
  BY DEF LadderInv, parse
<1>1. CASE supplier = "ecarpetgallery"
  <2>1. draft' = parseEcg /\ stage' = "parsed"
    BY <1>1 DEF parse
  <2>2. DOMAIN parseEcg = RUNG_FIELDS /\ parseEcg["width"] = parseEcg["length"]
    BY DEF parseEcg, RUNG_FIELDS, Sides, ecgSide
  <2> QED BY <1>0, <2>1, <2>2 DEF LadderInv, OneMeasure, Read
<1>2. CASE supplier # "ecarpetgallery" /\ storeProduct
  <2>1. draft' = parseKaravan /\ stage' = "parsed"
    BY <1>2 DEF parse
  <2>2. DOMAIN parseKaravan = RUNG_FIELDS /\ parseKaravan["width"] = parseKaravan["length"]
    BY DEF parseKaravan, RUNG_FIELDS, Sides
  <2> QED BY <1>0, <2>1, <2>2 DEF LadderInv, OneMeasure, Read
<1>3. CASE supplier # "ecarpetgallery" /\ ~storeProduct /\ Html
  <2>1. draft' = draftToRug /\ stage' = "filled"
    BY <1>3 DEF parse
  <2>2. DOMAIN draftToRug = RUNG_FIELDS /\ draftToRug["width"] = draftToRug["length"]
        /\ \A f \in RUNG_FIELDS : Readers(f) # {} => present(draftToRug[f])
    BY <1>0, MergeForm DEF draftToRug, RUNG_FIELDS, Sides, present, At, Blank
  <2>3. Filled'
    BY <1>0, <2>1, <2>2 DEF Filled, Readers, rungReads, Sized, Own
  <2> QED BY <1>0, <2>1, <2>2, <2>3 DEF LadderInv, OneMeasure, Read
<1>4. CASE supplier # "ecarpetgallery" /\ ~storeProduct /\ ~Html
  <2>1. draft' = draft /\ stage' = "unread"
    BY <1>4 DEF parse
  <2> QED BY <1>0, <2>1 DEF LadderInv, OneMeasure, Read
<1> QED BY <1>1, <1>2, <1>3, <1>4

LEMMA FillBlanksInv == LadderInv /\ fillBlanks => LadderInv'
<1> SUFFICES ASSUME LadderInv, fillBlanks PROVE LadderInv'
  OBVIOUS
<1>0. page' = page /\ page \in Readings /\ stage' = "filled" /\ supplier' = supplier
  BY DEF LadderInv, fillBlanks
<1>1. draft' = [f \in RUNG_FIELDS |-> IF present(draft[f]) THEN draft[f] ELSE mergeRungs[f]]
  BY DEF fillBlanks
<1>2. "width" \in RUNG_FIELDS /\ "length" \in RUNG_FIELDS
  BY DEF RUNG_FIELDS, Sides
<1>3. OneMeasure' /\ (present(draft'["width"]) <=> present(draft'["length"]))
  BY <1>0, <1>1, <1>2, MergeForm DEF LadderInv, OneMeasure
<1>4. \A f \in RUNG_FIELDS : Readers(f) # {} => present(draft'[f])
  BY <1>0, <1>1, MergeForm
<1>5. Filled'
  BY <1>0, <1>4 DEF Filled, Readers, rungReads, Sized, Own
<1> QED BY <1>0, <1>1, <1>3, <1>5 DEF LadderInv, Read, present

LEMMA FinaliseInv == LadderInv /\ (finaliseScraped \/ finaliseCached) => LadderInv'
<1> SUFFICES ASSUME LadderInv, finaliseScraped \/ finaliseCached PROVE LadderInv'
  OBVIOUS
<1>0. page' = page /\ page \in Readings /\ stage' \in {"final", "again"} /\ supplier' = supplier
  BY DEF LadderInv, finaliseScraped, finaliseCached
<1>1. \/ draft' = draft
      \/ Own /\ page.free /\ draft' = [draft EXCEPT !["price"] = Blank]
  BY DEF finaliseScraped, finaliseCached
<1>2. DOMAIN draft' = RUNG_FIELDS /\ draft'["width"] = draft["width"] /\ draft'["length"] = draft["length"]
  BY <1>1 DEF LadderInv, RUNG_FIELDS, Sides
<1>3. Filled
  BY DEF LadderInv, finaliseScraped, finaliseCached
<1>4. Filled'
  <2> SUFFICES ASSUME NEW f \in RUNG_FIELDS, Readers(f)' # {}, ~(f = "price" /\ Own' /\ page'.free) PROVE present(draft'[f])
    BY DEF Filled, present
  <2>1. Readers(f) # {} /\ Own' = Own
    BY <1>0 DEF Readers, rungReads, Sized, Own
  <2>2. draft'[f] = draft[f]
    BY <1>0, <1>1, <2>1 DEF LadderInv
  <2> QED BY <1>0, <1>3, <2>1, <2>2 DEF Filled
<1>5. fieldStatus' = [f \in RUNG_FIELDS |-> autoStatus(f)]
  BY DEF finaliseScraped, finaliseCached
<1>6. Marked'
  <2> SUFFICES ASSUME NEW f \in RUNG_FIELDS PROVE present(draft'[f]) <=> fieldStatus'[f] # "missing"
    BY DEF Marked, present
  <2> QED BY <1>5 DEF autoStatus
<1> QED BY <1>0, <1>2, <1>4, <1>6 DEF LadderInv, OneMeasure, present

LEMMA LadderInitInv == LadderInit => LadderInv
<1> SUFFICES ASSUME LadderInit PROVE LadderInv
  OBVIOUS
<1>1. "width" \in RUNG_FIELDS /\ "length" \in RUNG_FIELDS
  BY DEF RUNG_FIELDS, Sides
<1> QED BY <1>1 DEF LadderInit, LadderInv, OneMeasure, Read

LEMMA LadderStep == LadderInv /\ [LadderNext]_ladderVars => LadderInv'
<1>1. LadderInv /\ UNCHANGED ladderVars => LadderInv'
  BY DEF ladderVars, LadderInv, OneMeasure, Read, Filled, Marked, present, Readers, rungReads, Sized, Own
<1> QED BY <1>1, ParseInv, FillBlanksInv, FinaliseInv DEF LadderNext

\* Whatever the rungs of the ladder hold and whichever parser reads the page, also when the reading comes
\* from the cache: both sides of a rug are of one reading, no field is left blank that a rung has, and
\* the status of a field tells whether something is in it.
THEOREM FormIsOneReadingHolds == LadderSpec => []FormIsOneReading
<1>1. LadderInv => FormIsOneReading
  BY DEF LadderInv, FormIsOneReading, NothingLeftBehind, Filled, Marked, Read
<1> QED BY <1>1, LadderInitInv, LadderStep, PTL DEF LadderSpec

-----------------------------------------------------------------------------
(* What robots.txt says of a path: the folds of the parser and of the      *)
(* choice of a rule go place by place, the rules chosen are those of the   *)
(* groups that name us best, and the groups hold what the lines address    *)

\* A fold of the library is a function of the sets of places it has folded, and goes by the last place.
Folds(h, n, X, first, step) ==
    /\ h[{}] = first
    /\ \A t \in SUBSET (1..n) : t # {} /\ h[t \ {Max(t)}] \in X => h[t] = step[<<h[t \ {Max(t)}], Max(t)>>]

\* The last of the places folded.
LEMMA MaxIs ==
    ASSUME NEW n \in Nat, NEW t \in SUBSET (1..n), t # {}
    PROVE  Max(t) \in t /\ \A j \in t : j <= Max(t)
  <1>1. n + 1 \in Nat /\ t \in SUBSET (0..((n + 1) - 1))
    OBVIOUS
  <1> QED BY <1>1, EndsOfLines

\* The first places are folded one by one.
Looped(v, n, X, first, step) == \E g : Loop(g, n, X, first, step) /\ g[n] = v

LEMMA FoldRuns ==
    ASSUME NEW n \in Nat, NEW X, NEW first \in X, NEW step \in [X \X (1..n) -> X], NEW h, Folds(h, n, X, first, step),
           NEW v, v = h[1..n]
    PROVE  Looped(v, n, X, first, step)
  <1> DEFINE S == {k \in 0..n : h[1..k] \in X}
  <1>1. 1..0 = {}
    OBVIOUS
  <1>2. 0 \in S
    BY <1>1 DEF Folds
  <1>3. ASSUME NEW k \in 1..n PROVE /\ 1..k \in SUBSET (1..n) /\ 1..k # {} /\ (1..k) \ {k} = 1..(k - 1) /\ Max(1..k) = k
    <2>1. 1..k \in SUBSET (1..n) /\ k \in 1..k /\ (1..k) \ {k} = 1..(k - 1)
      OBVIOUS
    <2>2. Max(1..k) \in 1..k /\ k <= Max(1..k)
      BY <2>1, MaxIs
    <2>3. Max(1..k) = k
      BY <2>2
    <2> QED BY <2>1, <2>3
  <1>4. ASSUME NEW k \in 1..n, h[1..(k - 1)] \in X PROVE h[1..k] = step[<<h[1..(k - 1)], k>>] /\ h[1..k] \in X
    <2>1. PICK t : t = 1..k
      OBVIOUS
    <2>2. t \in SUBSET (1..n) /\ t # {} /\ Max(t) = k /\ t \ {k} = 1..(k - 1)
      BY <1>3, <2>1
    <2>3. h[t] = step[<<h[1..(k - 1)], k>>]
      BY <1>4, <2>2 DEF Folds
    <2> QED BY <1>4, <2>1, <2>3
  <1>5. \A k \in 0..n : k \in S
    <2>1. ASSUME NEW k \in 1..n, k - 1 \in S PROVE k \in S
      <3>1. h[1..(k - 1)] \in X /\ k \in 0..n
        BY <2>1
      <3>2. h[1..k] \in X
        BY <1>4, <3>1
      <3> QED BY <3>1, <3>2
    <2> HIDE DEF S
    <2> QED BY <1>2, <2>1, UpTo
  <1>6. PICK g : g = [k \in 0..n |-> h[1..k]]
    OBVIOUS
  <1>7. g \in [0..n -> X] /\ g[0] = first /\ g[n] = h[1..n]
    BY <1>1, <1>5, <1>6 DEF Folds
  <1>8. ASSUME NEW k \in 1..n PROVE g[k] = step[<<g[k - 1], k>>]
    <2>1. k \in 0..n /\ k - 1 \in 0..n /\ k - 1 \in S
      BY <1>5
    <2> QED BY <1>4, <1>6, <2>1
  <1> QED BY <1>7, <1>8 DEF Loop, Looped

\* A function that folds every set of places.
Folder(h, n, X, first, step) ==
    /\ h \in [SUBSET (1..n) -> X] /\ h[{}] = first
    /\ \A t \in SUBSET (1..n) : t # {} => h[t] = step[<<h[t \ {Max(t)}], Max(t)>>]

\* Such a function exists.
LEMMA FolderExists ==
    ASSUME NEW n \in Nat, NEW X, NEW first \in X, NEW step \in [X \X (1..n) -> X]
    PROVE  \E h : Folder(h, n, X, first, step)
  <1> DEFINE S == {m \in 0..n : \E h : Folder(h, m, X, first, step)}
  <1>1. 0 \in S
    <2>1. PICK h : h = [t \in SUBSET (1..0) |-> first]
      OBVIOUS
    <2>2. 1..0 = {} /\ SUBSET (1..0) = {{}}
      OBVIOUS
    <2>3. Folder(h, 0, X, first, step)
      BY <2>1, <2>2 DEF Folder
    <2> QED BY <2>3
  <1>2. ASSUME NEW m \in 1..n, m - 1 \in S PROVE m \in S
    <2>1. PICK f : Folder(f, m - 1, X, first, step)
      BY <1>2
    <2>2. PICK h : h = [t \in SUBSET (1..m) |-> IF m \in t THEN step[<<f[t \ {m}], m>>] ELSE f[t]]
      OBVIOUS
    <2>3. ASSUME NEW t \in SUBSET (1..m)
          PROVE  /\ m \in t => t \ {m} \in SUBSET (1..(m - 1)) /\ Max(t) = m
                 /\ m \notin t => t \in SUBSET (1..(m - 1))
      <3>1. CASE m \in t
        <4>0. m \in Nat /\ t # {}
          BY <3>1
        <4>1. Max(t) \in t /\ m <= Max(t)
          BY <3>1, <4>0, MaxIs
        <4>2. Max(t) = m
          <5>1. Max(t) \in 1..m
            BY <4>1
          <5> QED BY <4>0, <4>1, <5>1
        <4> QED BY <3>1, <4>2
      <3>2. CASE m \notin t
        BY <3>2
      <3> QED BY <3>1, <3>2
    <2>4. \A t \in SUBSET (1..(m - 1)) : f[t] \in X
      BY <2>1 DEF Folder
    <2>5. h \in [SUBSET (1..m) -> X]
      <3>1. ASSUME NEW t \in SUBSET (1..m) PROVE (IF m \in t THEN step[<<f[t \ {m}], m>>] ELSE f[t]) \in X
        BY <2>3, <2>4
      <3> QED BY <2>2, <3>1
    <2>6. h[{}] = first
      BY <2>1, <2>2 DEF Folder
    <2>7. ASSUME NEW t \in SUBSET (1..m), t # {} PROVE h[t] = step[<<h[t \ {Max(t)}], Max(t)>>]
      <3>1. CASE m \in t
        <4>1. Max(t) = m /\ t \ {m} \in SUBSET (1..m) /\ m \notin t \ {m}
          BY <2>3, <3>1
        <4>2. h[t \ {m}] = f[t \ {m}]
          BY <2>2, <4>1
        <4> QED BY <2>2, <3>1, <4>1, <4>2
      <3>2. CASE m \notin t
        <4>1. t \in SUBSET (1..(m - 1)) /\ h[t] = f[t]
          BY <2>2, <2>3, <3>2
        <4>2. f[t] = step[<<f[t \ {Max(t)}], Max(t)>>]
          BY <2>1, <2>7, <4>1 DEF Folder
        <4>3. t \ {Max(t)} \in SUBSET (1..m) /\ m \notin t \ {Max(t)}
          BY <3>2
        <4>4. h[t \ {Max(t)}] = f[t \ {Max(t)}]
          BY <2>2, <4>3
        <4> QED BY <4>1, <4>2, <4>4
      <3> QED BY <3>1, <3>2
    <2>8. Folder(h, m, X, first, step)
      BY <2>5, <2>6, <2>7 DEF Folder
    <2> QED BY <1>2, <2>8
  <1>3. n \in S
    <2> HIDE DEF S
    <2>1. \A k \in 0..n : k \in S
      BY <1>1, <1>2, UpTo
    <2> QED BY <2>1
  <1> QED BY <1>3

\* The values of the parser and of the choice: the rules kept, the groups, and the best found so far.
RuleLines == {Line(f, p) : f \in {"allow", "disallow"}, p \in Patterns}
AgentNames == ToSet(Tokens) \cup Strangers
AGroup == [agents : Seq(AgentNames), rules : Seq(RuleLines)]
ABest == [rank : 1..Nobody, rules : Seq(RuleLines)]

\* The place of a name among ours.
LEMMA RankIs ==
    /\ Len(Tokens) \in Nat /\ DOMAIN Tokens = 1..Len(Tokens) /\ Nobody \in Nat
    /\ \A a : /\ Rank(a) \in 1..Nobody /\ (a \in ToSet(Tokens) <=> Rank(a) # Nobody)
              /\ Rank(a) # Nobody => Rank(a) \in DOMAIN Tokens /\ Tokens[Rank(a)] = a
    /\ \A t \in DOMAIN Tokens : Tokens[t] \in ToSet(Tokens) /\ Rank(Tokens[t]) = t
  <1>1. Len(Tokens) \in Nat /\ DOMAIN Tokens = 1..Len(Tokens)
    BY RobotsConstants, LenProperties
  <1>2. ASSUME NEW a \in ToSet(Tokens) PROVE Rank(a) \in DOMAIN Tokens /\ Tokens[Rank(a)] = a
    <2>1. \E i \in DOMAIN Tokens : Tokens[i] = a
      BY DEF ToSet
    <2> QED BY <2>1 DEF Rank
  <1>3. \A a : a \notin ToSet(Tokens) => Rank(a) = Nobody
    BY DEF Rank
  <1>4. Nobody \in Nat /\ Nobody \notin DOMAIN Tokens /\ DOMAIN Tokens \subseteq 1..Nobody /\ Nobody \in 1..Nobody
    BY <1>1 DEF Nobody
  <1>5. ASSUME NEW t \in DOMAIN Tokens PROVE Tokens[t] \in ToSet(Tokens) /\ Rank(Tokens[t]) = t
    <2>1. Tokens[t] \in ToSet(Tokens)
      BY DEF ToSet
    <2> QED BY <1>2, <2>1, RobotsConstants
  <1> QED BY <1>1, <1>2, <1>3, <1>4, <1>5

\* What names us in a group, with the rules of the group; and what is best of such.
ClaimOf(agent, rules) == [rank |-> Rank(agent), rules |-> ToSet(rules)]
Claims(group) == {ClaimOf(group.agents[i], group.rules) : i \in DOMAIN group.agents}
BestOf(b, H) ==
    /\ \A x \in H : b.rank <= x.rank
    /\ b.rank = Nobody \/ \E x \in H : x.rank = b.rank
    /\ \A r : r \in ToSet(b.rules) <=> b.rank # Nobody /\ \E x \in H : x.rank = b.rank /\ r \in x.rules

Ranked(H) == \A x \in H : x.rank \in 1..Nobody
Joins(u, s, t) == \A x : x \in ToSet(u) <=> x \in ToSet(s) \/ x \in ToSet(t)

\* What is in two lists put together.
LEMMA ToSetOfConcat ==
    ASSUME NEW S, NEW s \in Seq(S), NEW t \in Seq(S), NEW u, u = s \o t
    PROVE  u \in Seq(S) /\ Joins(u, s, t)
  <1>1. /\ Len(s) \in Nat /\ Len(t) \in Nat /\ DOMAIN s = 1..Len(s) /\ DOMAIN t = 1..Len(t)
        /\ u \in Seq(S) /\ Len(u) = Len(s) + Len(t) /\ DOMAIN u = 1..(Len(s) + Len(t))
        /\ \A i \in 1..(Len(s) + Len(t)) : u[i] = IF i <= Len(s) THEN s[i] ELSE t[i - Len(s)]
    BY ConcatProperties, LenProperties
  <1>2. ASSUME NEW i \in DOMAIN u PROVE u[i] \in ToSet(s) \cup ToSet(t)
    BY <1>1 DEF ToSet
  <1>3. ASSUME NEW i \in DOMAIN s PROVE s[i] \in ToSet(u)
    BY <1>1 DEF ToSet
  <1>4. ASSUME NEW i \in DOMAIN t PROVE t[i] \in ToSet(u)
    <2>1. i + Len(s) \in DOMAIN u /\ ~(i + Len(s) <= Len(s)) /\ (i + Len(s)) - Len(s) = i
      BY <1>1
    <2>2. u[i + Len(s)] = t[i]
      BY <1>1, <2>1
    <2> QED BY <2>1, <2>2 DEF ToSet
  <1>5. ToSet(u) \subseteq ToSet(s) \cup ToSet(t)
    BY <1>2 DEF ToSet
  <1>6. ToSet(s) \subseteq ToSet(u)
    BY <1>3 DEF ToSet
  <1>7. ToSet(t) \subseteq ToSet(u)
    BY <1>4 DEF ToSet
  <1> QED BY <1>1, <1>5, <1>6, <1>7 DEF Joins

\* One more name is heard.
LEMMA BetterIsBest ==
    ASSUME NEW b \in ABest, NEW H, Ranked(H), BestOf(b, H),
           NEW agent, NEW rules \in Seq(RuleLines), NEW c, c = Better(b, agent, rules),
           NEW K, K = H \cup {ClaimOf(agent, rules)}
    PROVE  c \in ABest /\ BestOf(c, K) /\ Ranked(K)
  <1>1. PICK x : x = ClaimOf(agent, rules)
    OBVIOUS
  <1>2. x.rank = Rank(agent) /\ x.rules = ToSet(rules) /\ x.rank \in 1..Nobody /\ b.rank \in 1..Nobody /\ Nobody \in Nat
    BY <1>1, RankIs DEF ClaimOf, ABest
  <1>0. K = H \cup {x} /\ \A y \in H : y.rank \in 1..Nobody
    BY <1>1 DEF Ranked
  <1>6. Ranked(K)
    BY <1>0, <1>2 DEF Ranked
  <1>3. CASE x.rank < b.rank
    <2>1. c = [rank |-> x.rank, rules |-> rules]
      BY <1>2, <1>3 DEF Better
    <2>2. c \in ABest /\ c.rank = x.rank /\ c.rules = rules
      BY <1>2, <2>1 DEF ABest
    <2>3. \A y \in H : ~(y.rank = x.rank) /\ x.rank <= y.rank
      BY <1>0, <1>2, <1>3 DEF BestOf
    <2>4. x.rank # Nobody
      BY <1>2, <1>3
    <2> QED BY <1>0, <1>2, <1>6, <2>2, <2>3, <2>4 DEF BestOf
  <1>4. CASE x.rank = b.rank /\ x.rank # Nobody
    <2>1. c = [b EXCEPT !.rules = b.rules \o rules]
      BY <1>2, <1>4 DEF Better
    <2>2. PICK p, q : p = b.rules /\ q = p \o rules
      OBVIOUS
    <2>3. p \in Seq(RuleLines)
      BY <2>2 DEF ABest
    <2>41. q \in Seq(RuleLines) /\ Joins(q, p, rules)
      BY <2>2, <2>3, ToSetOfConcat
    <2>4. q \in Seq(RuleLines) /\ \A r : r \in ToSet(q) <=> r \in ToSet(b.rules) \/ r \in ToSet(rules)
      BY <2>2, <2>41 DEF Joins
    <2>5. c \in ABest /\ c.rank = b.rank /\ c.rules = q
      BY <2>1, <2>2, <2>4 DEF ABest
    <2>6. \A r : r \in ToSet(c.rules) <=> \E y \in H \cup {x} : y.rank = c.rank /\ r \in y.rules
      BY <1>2, <1>4, <2>4, <2>5 DEF BestOf
    <2> QED BY <1>0, <1>2, <1>4, <1>6, <2>5, <2>6 DEF BestOf
  <1>5. CASE ~(x.rank < b.rank) /\ ~(x.rank = b.rank /\ x.rank # Nobody)
    <2>1. c = b
      BY <1>2, <1>5 DEF Better
    <2>2. b.rank <= x.rank /\ (x.rank = b.rank => b.rank = Nobody)
      BY <1>2, <1>5
    <2> QED BY <1>0, <1>2, <1>6, <2>1, <2>2 DEF BestOf
  <1> QED BY <1>3, <1>4, <1>5

\* The names of a group are heard one by one.
GroupRun(g, n, best, group) ==
    g \in [0..n -> ABest] /\ g[0] = best /\ \A k \in 1..n : g[k] = Better(g[k - 1], group.agents[k], group.rules)

LEMMA BetterIsABest ==
    ASSUME NEW b \in ABest, NEW agent, NEW rules \in Seq(RuleLines)
    PROVE  Better(b, agent, rules) \in ABest
  <1>1. Rank(agent) \in 1..Nobody
    BY RankIs
  <1>2. b.rules \o rules \in Seq(RuleLines)
    BY ConcatProperties DEF ABest
  <1>3. [rank |-> Rank(agent), rules |-> rules] \in ABest
    BY <1>1 DEF ABest
  <1>4. [b EXCEPT !.rules = b.rules \o rules] \in ABest
    BY <1>2 DEF ABest
  <1> QED BY <1>3, <1>4 DEF Better

LEMMA GroupRuns ==
    ASSUME NEW best \in ABest, NEW group \in AGroup
    PROVE  \E g : GroupRun(g, Len(group.agents), best, group) /\ ByGroup(best, group) = g[Len(group.agents)]
  <1>1. PICK s, q, n : s = group.agents /\ q = group.rules /\ n = Len(group.agents)
    OBVIOUS
  <1>2. s \in Seq(AgentNames) /\ q \in Seq(RuleLines) /\ n \in Nat /\ DOMAIN s = 1..n
    BY <1>1, LenProperties DEF AGroup
  <1> DEFINE step == [z \in ABest \X (1..n) |-> Better(z[1], s[z[2]], q)]
             Is(iter) == iter = [t \in SUBSET (1..n) |-> IF t = {} THEN best ELSE Better(iter[t \ {Max(t)}], s[Max(t)], q)]
             h == CHOOSE iter : Is(iter)
  <1>3. step \in [ABest \X (1..n) -> ABest] /\ \A b \in ABest, k \in 1..n : step[<<b, k>>] = Better(b, s[k], q)
    BY <1>2, BetterIsABest
  <1>4. ByGroup(best, group) = h[1..n]
    BY <1>1, <1>2 DEF ByGroup, FoldLeft, MapThenFoldSet
  <1>5. PICK z : z = step
    OBVIOUS
  <1> HIDE DEF step
  <1>6. PICK f : Folder(f, n, ABest, best, z)
    BY <1>2, <1>3, <1>5, FolderExists
  <1>7. ASSUME NEW t \in SUBSET (1..n), t # {} PROVE Max(t) \in 1..n /\ t \ {Max(t)} \in SUBSET (1..n)
    BY <1>2, <1>7, MaxIs
  <1>8. Is(f)
    <2>1. DOMAIN f = SUBSET (1..n) /\ f = [t \in SUBSET (1..n) |-> f[t]]
      BY <1>6 DEF Folder
    <2>2. ASSUME NEW t \in SUBSET (1..n) PROVE f[t] = IF t = {} THEN best ELSE Better(f[t \ {Max(t)}], s[Max(t)], q)
      <3>1. CASE t = {}
        BY <1>6, <3>1 DEF Folder
      <3>2. CASE t # {}
        <4>1. f[t \ {Max(t)}] \in ABest /\ Max(t) \in 1..n
          BY <1>6, <1>7, <3>2 DEF Folder
        <4>2. f[t] = z[<<f[t \ {Max(t)}], Max(t)>>]
          BY <1>6, <3>2 DEF Folder
        <4> QED BY <1>3, <1>5, <3>2, <4>1, <4>2
      <3> QED BY <3>1, <3>2
    <2> QED BY <2>1, <2>2
  <1>9. Is(h)
    <2> HIDE DEF Is
    <2> QED BY <1>8
  <1>10. PICK e : e = h
    OBVIOUS
  <1>11. PICK g : Loop(g, n, ABest, best, z) /\ g[n] = e[1..n]
    <2>2. e = [t \in SUBSET (1..n) |-> IF t = {} THEN best ELSE Better(e[t \ {Max(t)}], s[Max(t)], q)]
      BY <1>9, <1>10
    <2>3. e[{}] = best
      BY <2>2
    <2>4. ASSUME NEW t \in SUBSET (1..n), t # {}, e[t \ {Max(t)}] \in ABest PROVE e[t] = z[<<e[t \ {Max(t)}], Max(t)>>]
      <3>1. e[t] = Better(e[t \ {Max(t)}], s[Max(t)], q)
        BY <2>2, <2>4
      <3> QED BY <1>3, <1>5, <1>7, <2>4, <3>1
    <2>5. Folds(e, n, ABest, best, z)
      BY <2>3, <2>4 DEF Folds
    <2>6. z \in [ABest \X (1..n) -> ABest]
      BY <1>3, <1>5
    <2>7. PICK v : v = e[1..n]
      OBVIOUS
    <2> HIDE DEF h, Is
    <2>8. Looped(v, n, ABest, best, z)
      BY <1>2, <2>5, <2>6, <2>7, FoldRuns
    <2> QED BY <2>7, <2>8 DEF Looped
  <1>12. GroupRun(g, n, best, group)
    <2>1. g \in [0..n -> ABest] /\ g[0] = best /\ \A k \in 1..n : g[k] = z[<<g[k - 1], k>>]
      BY <1>11 DEF Loop
    <2>2. ASSUME NEW k \in 1..n PROVE g[k] = Better(g[k - 1], s[k], q)
      <3>1. g[k - 1] \in ABest
        BY <1>2, <2>1
      <3> QED BY <1>3, <1>5, <2>1, <3>1
    <2> QED BY <1>1, <2>1, <2>2 DEF GroupRun
  <1> HIDE DEF h, Is
  <1> QED BY <1>1, <1>4, <1>10, <1>11, <1>12

ClaimsTo(group, k) == {ClaimOf(group.agents[i], group.rules) : i \in 1..k}

\* A group is heard whole.
LEMMA GroupIsBest ==
    ASSUME NEW best \in ABest, NEW group \in AGroup, NEW H, Ranked(H), BestOf(best, H),
           NEW c, c = ByGroup(best, group), NEW K, K = H \cup Claims(group)
    PROVE  c \in ABest /\ BestOf(c, K) /\ Ranked(K)
  <1>1. PICK n : n = Len(group.agents)
    OBVIOUS
  <1>2. PICK g : GroupRun(g, n, best, group) /\ c = g[n]
    BY <1>1, GroupRuns
  <1>3. n \in Nat /\ DOMAIN group.agents = 1..n /\ group.rules \in Seq(RuleLines)
    BY <1>1, LenProperties DEF AGroup
  <1> DEFINE Sofar(k) == H \cup ClaimsTo(group, k)
             S == {k \in 0..n : BestOf(g[k], Sofar(k)) /\ Ranked(Sofar(k))}
  <1>4. 0 \in S
    <2>1. ClaimsTo(group, 0) = {}
      BY DEF ClaimsTo
    <2>2. PICK M, b : M = Sofar(0) /\ b = g[0]
      OBVIOUS
    <2>3. M = H
      BY <2>1, <2>2
    <2>4. b = best
      BY <1>2, <2>2 DEF GroupRun
    <2>5. BestOf(b, M) /\ Ranked(M)
      BY <2>3, <2>4
    <2> QED BY <1>3, <2>2, <2>5
  <1>5. ASSUME NEW k \in 1..n, k - 1 \in S PROVE k \in S
    <2>1. PICK b, d, a : b = g[k - 1] /\ d = g[k] /\ a = group.agents[k]
      OBVIOUS
    <2>2. b \in ABest /\ d = Better(b, a, group.rules) /\ BestOf(b, Sofar(k - 1)) /\ Ranked(Sofar(k - 1))
      BY <1>2, <1>3, <1>5, <2>1 DEF GroupRun
    <2>3. ClaimsTo(group, k) = ClaimsTo(group, k - 1) \cup {ClaimOf(a, group.rules)}
      <3>1. 1..k = (1..(k - 1)) \cup {k}
        BY <1>3
      <3> QED BY <2>1, <3>1 DEF ClaimsTo
    <2>4. PICK L, M : L = Sofar(k - 1) /\ M = Sofar(k)
      OBVIOUS
    <2>5. M = L \cup {ClaimOf(a, group.rules)}
      BY <2>3, <2>4
    <2>6. BestOf(d, M) /\ Ranked(M)
      BY <1>3, <2>2, <2>4, <2>5, BetterIsBest
    <2> QED BY <1>3, <2>1, <2>4, <2>6
  <1>6. n \in S
    <2> HIDE DEF S
    <2>1. \A k \in 0..n : k \in S
      BY <1>3, <1>4, <1>5, UpTo
    <2> QED BY <1>3, <2>1
  <1>7. Sofar(n) = K
    BY <1>3 DEF ClaimsTo, Claims
  <1> QED BY <1>2, <1>3, <1>6, <1>7 DEF GroupRun

NoBest == [rank |-> Nobody, rules |-> <<>>]
FileRun(g, n, found) == g \in [0..n -> ABest] /\ g[0] = NoBest /\ \A k \in 1..n : g[k] = ByGroup(g[k - 1], found[k])

\* Hearing a group leaves a best.
LEMMA ByGroupIsABest ==
    ASSUME NEW best \in ABest, NEW group \in AGroup
    PROVE  ByGroup(best, group) \in ABest
  <1>1. PICK g : GroupRun(g, Len(group.agents), best, group) /\ ByGroup(best, group) = g[Len(group.agents)]
    BY GroupRuns
  <1>2. Len(group.agents) \in Nat
    BY LenProperties DEF AGroup
  <1> QED BY <1>1, <1>2 DEF GroupRun

\* Nothing has been heard at the start.
LEMMA NoBestIsBest == NoBest \in ABest /\ BestOf(NoBest, {}) /\ Ranked({})
  <1>1. <<>> \in Seq(RuleLines) /\ Nobody \in 1..Nobody
    BY RankIs
  <1>2. NoBest \in ABest /\ NoBest.rank = Nobody /\ NoBest.rules = <<>>
    BY <1>1 DEF NoBest, ABest
  <1>3. \A r : r \notin ToSet(<<>>)
    BY DEF ToSet
  <1> QED BY <1>2, <1>3 DEF BestOf, Ranked

\* The groups are heard one by one.
LEMMA FileRuns ==
    ASSUME NEW found \in Seq(AGroup)
    PROVE  \E g : FileRun(g, Len(found), found) /\ rulesFor(found) = g[Len(found)].rules
  <1>1. PICK n : n = Len(found)
    OBVIOUS
  <1>2. n \in Nat /\ DOMAIN found = 1..n /\ \A k \in 1..n : found[k] \in AGroup
    BY <1>1, LenProperties, ElementOfSeq
  <1>3. PICK best : best = NoBest
    OBVIOUS
  <1>4. best \in ABest
    BY <1>3, NoBestIsBest
  <1> DEFINE step == [z \in ABest \X (1..n) |-> ByGroup(z[1], found[z[2]])]
             Is(iter) == iter = [t \in SUBSET (1..n) |-> IF t = {} THEN best ELSE ByGroup(iter[t \ {Max(t)}], found[Max(t)])]
             h == CHOOSE iter : Is(iter)
  <1>5. step \in [ABest \X (1..n) -> ABest] /\ \A b \in ABest, k \in 1..n : step[<<b, k>>] = ByGroup(b, found[k])
    BY <1>2, ByGroupIsABest
  <1>6. rulesFor(found) = h[1..n].rules
    BY <1>1, <1>2, <1>3 DEF rulesFor, FoldLeft, MapThenFoldSet, NoBest
  <1>7. PICK z : z = step
    OBVIOUS
  <1> HIDE DEF step
  <1>8. PICK f : Folder(f, n, ABest, best, z)
    BY <1>2, <1>4, <1>5, <1>7, FolderExists
  <1>9. ASSUME NEW t \in SUBSET (1..n), t # {} PROVE Max(t) \in 1..n /\ t \ {Max(t)} \in SUBSET (1..n)
    BY <1>2, <1>9, MaxIs
  <1>10. Is(f)
    <2>1. DOMAIN f = SUBSET (1..n) /\ f = [t \in SUBSET (1..n) |-> f[t]]
      BY <1>8 DEF Folder
    <2>2. ASSUME NEW t \in SUBSET (1..n) PROVE f[t] = IF t = {} THEN best ELSE ByGroup(f[t \ {Max(t)}], found[Max(t)])
      <3>1. CASE t = {}
        BY <1>8, <3>1 DEF Folder
      <3>2. CASE t # {}
        <4>1. f[t \ {Max(t)}] \in ABest /\ Max(t) \in 1..n
          BY <1>8, <1>9, <3>2 DEF Folder
        <4>2. f[t] = z[<<f[t \ {Max(t)}], Max(t)>>]
          BY <1>8, <3>2 DEF Folder
        <4> QED BY <1>5, <1>7, <3>2, <4>1, <4>2
      <3> QED BY <3>1, <3>2
    <2> QED BY <2>1, <2>2
  <1>11. Is(h)
    <2> HIDE DEF Is
    <2> QED BY <1>10
  <1>12. PICK e : e = h
    OBVIOUS
  <1>13. PICK g : Loop(g, n, ABest, best, z) /\ g[n] = e[1..n]
    <2>1. e = [t \in SUBSET (1..n) |-> IF t = {} THEN best ELSE ByGroup(e[t \ {Max(t)}], found[Max(t)])]
      BY <1>11, <1>12
    <2>2. e[{}] = best
      BY <2>1
    <2>3. ASSUME NEW t \in SUBSET (1..n), t # {}, e[t \ {Max(t)}] \in ABest PROVE e[t] = z[<<e[t \ {Max(t)}], Max(t)>>]
      <3>1. e[t] = ByGroup(e[t \ {Max(t)}], found[Max(t)])
        BY <2>1, <2>3
      <3> QED BY <1>5, <1>7, <1>9, <2>3, <3>1
    <2>4. Folds(e, n, ABest, best, z)
      BY <2>2, <2>3 DEF Folds
    <2>5. z \in [ABest \X (1..n) -> ABest]
      BY <1>5, <1>7
    <2>6. PICK v : v = e[1..n]
      OBVIOUS
    <2> HIDE DEF h, Is
    <2>7. Looped(v, n, ABest, best, z)
      BY <1>2, <1>4, <2>4, <2>5, <2>6, FoldRuns
    <2> QED BY <2>6, <2>7 DEF Looped
  <1>14. FileRun(g, n, found)
    <2>1. g \in [0..n -> ABest] /\ g[0] = best /\ \A k \in 1..n : g[k] = z[<<g[k - 1], k>>]
      BY <1>13 DEF Loop
    <2>2. ASSUME NEW k \in 1..n PROVE g[k] = ByGroup(g[k - 1], found[k])
      <3>1. g[k - 1] \in ABest
        BY <1>2, <2>1
      <3> QED BY <1>5, <1>7, <2>1, <3>1
    <2> QED BY <1>3, <2>1, <2>2 DEF FileRun
  <1> HIDE DEF h, Is
  <1> QED BY <1>1, <1>6, <1>12, <1>13, <1>14

AllClaims(found, n) == UNION {Claims(found[j]) : j \in 1..n}

\* The rules chosen are those of all the groups that name us best.
LEMMA RulesAreBest ==
    ASSUME NEW found \in Seq(AGroup)
    PROVE  \E b \in ABest : BestOf(b, AllClaims(found, Len(found))) /\ rulesFor(found) = b.rules
  <1>1. PICK n : n = Len(found)
    OBVIOUS
  <1>2. n \in Nat /\ \A k \in 1..n : found[k] \in AGroup
    BY <1>1, LenProperties, ElementOfSeq
  <1>3. PICK g : FileRun(g, n, found) /\ rulesFor(found) = g[n].rules
    BY <1>1, FileRuns
  <1> DEFINE S == {k \in 0..n : BestOf(g[k], AllClaims(found, k)) /\ Ranked(AllClaims(found, k))}
  <1>4. 0 \in S
    <2>1. AllClaims(found, 0) = {}
      BY DEF AllClaims
    <2>2. PICK M, b : M = AllClaims(found, 0) /\ b = g[0]
      OBVIOUS
    <2>3. b = NoBest
      BY <1>3, <2>2 DEF FileRun
    <2>4. BestOf(b, M) /\ Ranked(M)
      BY <2>1, <2>2, <2>3, NoBestIsBest
    <2> QED BY <1>2, <2>2, <2>4
  <1>5. ASSUME NEW k \in 1..n, k - 1 \in S PROVE k \in S
    <2>1. PICK b, d, group, L, M : /\ b = g[k - 1] /\ d = g[k] /\ group = found[k]
                                   /\ L = AllClaims(found, k - 1) /\ M = AllClaims(found, k)
      OBVIOUS
    <2>2. b \in ABest /\ group \in AGroup /\ d = ByGroup(b, group) /\ BestOf(b, L) /\ Ranked(L)
      BY <1>2, <1>3, <1>5, <2>1 DEF FileRun
    <2>3. M = L \cup Claims(group)
      <3>1. 1..k = (1..(k - 1)) \cup {k}
        BY <1>2
      <3> QED BY <2>1, <3>1 DEF AllClaims
    <2>4. BestOf(d, M) /\ Ranked(M)
      BY <2>2, <2>3, GroupIsBest
    <2> QED BY <1>2, <2>1, <2>4
  <1>6. n \in S
    <2> HIDE DEF S
    <2>1. \A k \in 0..n : k \in S
      BY <1>2, <1>4, <1>5, UpTo
    <2> QED BY <1>2, <2>1
  <1> QED BY <1>1, <1>2, <1>3, <1>6 DEF FileRun

AVerdict == [length : Nat, allow : BOOLEAN]
NoRule == [length |-> 0, allow |-> TRUE]

\* A rule that is kept has a pattern.
LEMMA RuleIs ==
    ASSUME NEW r \in RuleLines
    PROVE  r.value \in Patterns /\ Len(r.value) \in Nat \ {0} /\ r.field \in {"allow", "disallow"}
  <1>1. PICK f \in {"allow", "disallow"}, p \in Patterns : r = Line(f, p)
    BY DEF RuleLines
  <1> QED BY <1>1, RobotsConstants DEF Line

\* Weighing a rule leaves a verdict.
LEMMA WeighedIsAVerdict ==
    ASSUME NEW b \in AVerdict, NEW r \in RuleLines, NEW path
    PROVE  Weighed(b, r, path) \in AVerdict
  <1>1. Len(r.value) \in Nat
    BY RuleIs
  <1>2. [length |-> Len(r.value), allow |-> r.field = "allow"] \in AVerdict
    BY <1>1 DEF AVerdict
  <1> QED BY <1>2 DEF Weighed

\* The verdict of a set of rules that match: the longest has spoken, and for the path when one as long allows it.
VerdictOf(b, R) ==
    /\ \A r \in R : Len(r.value) <= b.length
    /\ R = {} => b.allow
    /\ R # {} => \E r \in R : Len(r.value) = b.length
    /\ R # {} => (b.allow <=> \E r \in R : Len(r.value) = b.length /\ r.field = "allow")
    /\ R = {} => b.length = 0
    /\ R \subseteq RuleLines

\* One more rule is weighed.
LEMMA WeighedIsVerdict ==
    ASSUME NEW b \in AVerdict, NEW R, VerdictOf(b, R), NEW r \in RuleLines, NEW path, NEW c, c = Weighed(b, r, path),
           NEW Q, Q = R \cup (IF <<r.value, path>> \in Matching THEN {r} ELSE {})
    PROVE  VerdictOf(c, Q)
  <1>1. Len(r.value) \in Nat \ {0} /\ b.length \in Nat /\ b.allow \in BOOLEAN /\ r.field \in {"allow", "disallow"}
    BY RuleIs DEF AVerdict
  <1>2. \A x \in R : Len(x.value) \in Nat
    BY RuleIs DEF VerdictOf
  <1>3. CASE <<r.value, path>> \notin Matching
    <2>1. Q = R /\ c = b
      BY <1>3 DEF Weighed
    <2> QED BY <2>1
  <1>4. CASE <<r.value, path>> \in Matching
    <2>1. Q = R \cup {r} /\ Q # {} /\ Q \subseteq RuleLines
      BY <1>4 DEF VerdictOf
    <2>2. CASE Len(r.value) > b.length
      <3>1. c.length = Len(r.value) /\ (c.allow <=> r.field = "allow")
        BY <1>4, <2>2 DEF Weighed, Decides
      <3>2. \A x \in R : Len(x.value) < c.length
        BY <1>1, <1>2, <2>2, <3>1 DEF VerdictOf
      <3>3. \A x \in Q : Len(x.value) <= c.length /\ (Len(x.value) = c.length => x = r)
        BY <1>1, <1>2, <2>1, <3>1, <3>2
      <3> QED BY <2>1, <3>1, <3>3 DEF VerdictOf
    <2>3. CASE Len(r.value) = b.length
      <3>1. R # {}
        BY <1>1, <2>3 DEF VerdictOf
      <3>2. CASE r.field = "allow"
        <4>1. c.length = b.length /\ c.allow
          BY <1>4, <2>3, <3>2 DEF Weighed, Decides
        <4> QED BY <1>1, <2>1, <2>3, <3>2, <4>1 DEF VerdictOf
      <3>3. CASE r.field = "disallow"
        <4>1. c = b
          BY <1>1, <2>3, <3>3 DEF Weighed, Decides
        <4>2. (\E x \in Q : Len(x.value) = b.length /\ x.field = "allow") <=> (\E x \in R : Len(x.value) = b.length /\ x.field = "allow")
          BY <2>1, <3>3
        <4> QED BY <1>1, <2>1, <2>3, <3>1, <4>1, <4>2 DEF VerdictOf
      <3> QED BY <1>1, <3>2, <3>3
    <2>4. CASE Len(r.value) < b.length
      <3>1. R # {}
        BY <1>1, <2>4 DEF VerdictOf
      <3>2. c = b
        BY <1>1, <2>4 DEF Weighed, Decides
      <3>3. (\E x \in Q : Len(x.value) = b.length /\ x.field = "allow") <=> (\E x \in R : Len(x.value) = b.length /\ x.field = "allow")
        BY <1>1, <2>1, <2>4
      <3> QED BY <1>1, <2>1, <2>4, <3>1, <3>2, <3>3 DEF VerdictOf
    <2> QED BY <1>1, <2>2, <2>3, <2>4
  <1> QED BY <1>3, <1>4

WeighRun(g, n, rules, path) ==
    g \in [0..n -> AVerdict] /\ g[0] = NoRule /\ \A k \in 1..n : g[k] = Weighed(g[k - 1], rules[k], path)

\* The rules are weighed one by one.
LEMMA WeighRuns ==
    ASSUME NEW rules \in Seq(RuleLines), NEW path
    PROVE  \E g : WeighRun(g, Len(rules), rules, path) /\ isPathAllowed(rules, path) = g[Len(rules)].allow
  <1>1. PICK n : n = Len(rules)
    OBVIOUS
  <1>2. n \in Nat /\ DOMAIN rules = 1..n /\ \A k \in 1..n : rules[k] \in RuleLines
    BY <1>1, LenProperties, ElementOfSeq
  <1>3. PICK best : best = NoRule
    OBVIOUS
  <1>4. best \in AVerdict
    BY <1>3 DEF NoRule, AVerdict
  <1> DEFINE step == [z \in AVerdict \X (1..n) |-> Weighed(z[1], rules[z[2]], path)]
             Is(iter) == iter = [t \in SUBSET (1..n) |-> IF t = {} THEN best ELSE Weighed(iter[t \ {Max(t)}], rules[Max(t)], path)]
             h == CHOOSE iter : Is(iter)
  <1>5. step \in [AVerdict \X (1..n) -> AVerdict] /\ \A b \in AVerdict, k \in 1..n : step[<<b, k>>] = Weighed(b, rules[k], path)
    BY <1>2, WeighedIsAVerdict
  <1>6. isPathAllowed(rules, path) = h[1..n].allow
    BY <1>1, <1>2, <1>3 DEF isPathAllowed, FoldLeft, MapThenFoldSet, NoRule
  <1>7. PICK z : z = step
    OBVIOUS
  <1> HIDE DEF step
  <1>8. PICK f : Folder(f, n, AVerdict, best, z)
    BY <1>2, <1>4, <1>5, <1>7, FolderExists
  <1>9. ASSUME NEW t \in SUBSET (1..n), t # {} PROVE Max(t) \in 1..n /\ t \ {Max(t)} \in SUBSET (1..n)
    BY <1>2, <1>9, MaxIs
  <1>10. Is(f)
    <2>1. DOMAIN f = SUBSET (1..n) /\ f = [t \in SUBSET (1..n) |-> f[t]]
      BY <1>8 DEF Folder
    <2>2. ASSUME NEW t \in SUBSET (1..n) PROVE f[t] = IF t = {} THEN best ELSE Weighed(f[t \ {Max(t)}], rules[Max(t)], path)
      <3>1. CASE t = {}
        BY <1>8, <3>1 DEF Folder
      <3>2. CASE t # {}
        <4>1. f[t \ {Max(t)}] \in AVerdict /\ Max(t) \in 1..n
          BY <1>8, <1>9, <3>2 DEF Folder
        <4>2. f[t] = z[<<f[t \ {Max(t)}], Max(t)>>]
          BY <1>8, <3>2 DEF Folder
        <4> QED BY <1>5, <1>7, <3>2, <4>1, <4>2
      <3> QED BY <3>1, <3>2
    <2> QED BY <2>1, <2>2
  <1>11. Is(h)
    <2> HIDE DEF Is
    <2> QED BY <1>10
  <1>12. PICK e : e = h
    OBVIOUS
  <1>13. PICK g : Loop(g, n, AVerdict, best, z) /\ g[n] = e[1..n]
    <2>1. e = [t \in SUBSET (1..n) |-> IF t = {} THEN best ELSE Weighed(e[t \ {Max(t)}], rules[Max(t)], path)]
      BY <1>11, <1>12
    <2>2. e[{}] = best
      BY <2>1
    <2>3. ASSUME NEW t \in SUBSET (1..n), t # {}, e[t \ {Max(t)}] \in AVerdict PROVE e[t] = z[<<e[t \ {Max(t)}], Max(t)>>]
      <3>1. e[t] = Weighed(e[t \ {Max(t)}], rules[Max(t)], path)
        BY <2>1, <2>3
      <3> QED BY <1>5, <1>7, <1>9, <2>3, <3>1
    <2>4. Folds(e, n, AVerdict, best, z)
      BY <2>2, <2>3 DEF Folds
    <2>5. z \in [AVerdict \X (1..n) -> AVerdict]
      BY <1>5, <1>7
    <2>6. PICK v : v = e[1..n]
      OBVIOUS
    <2> HIDE DEF h, Is
    <2>7. Looped(v, n, AVerdict, best, z)
      BY <1>2, <1>4, <2>4, <2>5, <2>6, FoldRuns
    <2> QED BY <2>6, <2>7 DEF Looped
  <1>14. WeighRun(g, n, rules, path)
    <2>1. g \in [0..n -> AVerdict] /\ g[0] = best /\ \A k \in 1..n : g[k] = z[<<g[k - 1], k>>]
      BY <1>13 DEF Loop
    <2>2. ASSUME NEW k \in 1..n PROVE g[k] = Weighed(g[k - 1], rules[k], path)
      <3>1. g[k - 1] \in AVerdict
        BY <1>2, <2>1
      <3> QED BY <1>5, <1>7, <2>1, <3>1
    <2> QED BY <1>3, <2>1, <2>2 DEF WeighRun
  <1> HIDE DEF h, Is
  <1> QED BY <1>1, <1>6, <1>12, <1>13, <1>14

MatchedOf(rules, k, path) == {r \in {rules[i] : i \in 1..k} : <<r.value, path>> \in Matching}
Refuted(R) == \A no \in R : no.field = "disallow" => \E yes \in R : yes.field = "allow" /\ Len(yes.value) >= Len(no.value)

\* A path is allowed when no matching rule refuses it without one as long that allows it.
LEMMA AllowedWhenRefuted ==
    ASSUME NEW rules \in Seq(RuleLines), NEW path, NEW R, R = {r \in ToSet(rules) : <<r.value, path>> \in Matching}
    PROVE  isPathAllowed(rules, path) <=> Refuted(R)
  <1>1. PICK n : n = Len(rules)
    OBVIOUS
  <1>2. n \in Nat /\ DOMAIN rules = 1..n /\ \A k \in 1..n : rules[k] \in RuleLines
    BY <1>1, LenProperties, ElementOfSeq
  <1>3. PICK g : WeighRun(g, n, rules, path) /\ isPathAllowed(rules, path) = g[n].allow
    BY <1>1, WeighRuns
  <1> DEFINE S == {k \in 0..n : VerdictOf(g[k], MatchedOf(rules, k, path))}
  <1>4. 0 \in S
    <2>1. PICK M, b : M = MatchedOf(rules, 0, path) /\ b = g[0]
      OBVIOUS
    <2>2. M = {} /\ b = NoRule
      BY <1>3, <2>1 DEF MatchedOf, WeighRun
    <2>3. VerdictOf(b, M)
      BY <2>2 DEF VerdictOf, NoRule
    <2> QED BY <1>2, <2>1, <2>3
  <1>5. ASSUME NEW k \in 1..n, k - 1 \in S PROVE k \in S
    <2>1. PICK b, c, r, M, Q : /\ b = g[k - 1] /\ c = g[k] /\ r = rules[k]
                               /\ M = MatchedOf(rules, k - 1, path) /\ Q = MatchedOf(rules, k, path)
      OBVIOUS
    <2>2. b \in AVerdict /\ r \in RuleLines /\ c = Weighed(b, r, path) /\ VerdictOf(b, M)
      BY <1>2, <1>3, <1>5, <2>1 DEF WeighRun
    <2>3. Q = M \cup (IF <<r.value, path>> \in Matching THEN {r} ELSE {})
      <3>1. 1..k = (1..(k - 1)) \cup {k}
        BY <1>2
      <3> QED BY <2>1, <3>1 DEF MatchedOf
    <2>4. VerdictOf(c, Q)
      BY <2>2, <2>3, WeighedIsVerdict
    <2> QED BY <1>2, <2>1, <2>4
  <1>6. n \in S
    <2> HIDE DEF S
    <2>1. \A k \in 0..n : k \in S
      BY <1>2, <1>4, <1>5, UpTo
    <2> QED BY <1>2, <2>1
  <1>7. MatchedOf(rules, n, path) = R
    BY <1>2 DEF MatchedOf, ToSet
  <1>8. PICK b : b = g[n] /\ b \in AVerdict /\ VerdictOf(b, R)
    BY <1>2, <1>3, <1>6, <1>7 DEF WeighRun
  <1>9. \A r \in R : Len(r.value) \in Nat /\ r.field \in {"allow", "disallow"}
    BY <1>8, RuleIs DEF VerdictOf
  <1>10. b.length \in Nat
    BY <1>8 DEF AVerdict
  <1>11. ASSUME b.allow PROVE Refuted(R)
    BY <1>8, <1>9, <1>10, <1>11 DEF VerdictOf, Refuted
  <1>12. ASSUME Refuted(R) PROVE b.allow
    <2>1. CASE R = {}
      BY <1>8, <2>1 DEF VerdictOf
    <2>2. CASE R # {}
      <3>1. PICK r \in R : Len(r.value) = b.length
        BY <1>8, <2>2 DEF VerdictOf
      <3>2. CASE r.field = "allow"
        BY <1>8, <2>2, <3>1, <3>2 DEF VerdictOf
      <3>3. CASE r.field = "disallow"
        <4>1. PICK y \in R : y.field = "allow" /\ Len(y.value) >= Len(r.value)
          BY <1>12, <3>3 DEF Refuted
        <4>2. Len(y.value) = b.length
          BY <1>8, <1>9, <1>10, <3>1, <4>1 DEF VerdictOf
        <4> QED BY <1>8, <2>2, <4>1, <4>2 DEF VerdictOf
      <3> QED BY <1>9, <3>2, <3>3
    <2> QED BY <2>1, <2>2
  <1>13. isPathAllowed(rules, path) = b.allow
    BY <1>3, <1>8
  <1> QED BY <1>11, <1>12, <1>13

\* The lines of the file as the standard reads them.
Agent(tx, n) == tx[n].field = "user-agent"
Ruled(tx, n) == tx[n].field \in {"allow", "disallow"}
Addr(tx, n, k) == Agent(tx, n) /\ n < k /\ ~\E i, j \in (n + 1)..(k - 1) : i < j /\ Ruled(tx, i) /\ Agent(tx, j)
Asks(tx, a) == {n \in DOMAIN tx : Agent(tx, n) /\ tx[n].value = <<a>>}
AskedIn(tx, a) == \E n \in Asks(tx, a) : n \in DOMAIN tx
OpenIn(tx, a) == \E n \in Asks(tx, a) : Addr(tx, n, Len(tx) + 1)
RulesIn(tx, a, r) == \E n \in Asks(tx, a) : \E k \in DOMAIN tx : Addr(tx, n, k) /\ tx[k] = r
RunIs(tx, run) ==
    \A n \in DOMAIN tx : Agent(tx, n) =>
        IF run THEN Addr(tx, n, Len(tx) + 1) => \A k \in (n + 1)..Len(tx) : ~Ruled(tx, k)
               ELSE \E k \in (n + 1)..Len(tx) : Ruled(tx, k)

OneMore(tx, ty, line) ==
    /\ Len(tx) \in Nat /\ DOMAIN tx = 1..Len(tx) /\ Len(ty) = Len(tx) + 1 /\ DOMAIN ty = 1..(Len(tx) + 1)
    /\ ty[Len(tx) + 1] = line /\ \A i \in 1..Len(tx) : ty[i] = tx[i]

\* A line is read at the end of the file.
LEMMA AppendIsOneMore ==
    ASSUME NEW X, NEW tx \in Seq(X), NEW line \in X, NEW ty, ty = Append(tx, line)
    PROVE  ty \in Seq(X) /\ OneMore(tx, ty, line)
  BY AppendProperties, LenProperties DEF OneMore

\* What the lines before the last address is not changed by the last.
LEMMA AddressesBefore ==
    ASSUME NEW tx, NEW ty, NEW line, OneMore(tx, ty, line), NEW n \in DOMAIN tx, NEW k \in 1..(Len(tx) + 1)
    PROVE  Addr(ty, n, k) <=> Addr(tx, n, k)
  <1>1. \A i \in (n + 1)..(k - 1) : ty[i] = tx[i]
    BY DEF OneMore
  <1>2. ty[n] = tx[n]
    BY DEF OneMore
  <1> QED BY <1>1, <1>2 DEF Addr, Agent, Ruled

\* What a line addresses behind the last, after one more.
LEMMA AddressesNext ==
    ASSUME NEW tx, NEW ty, NEW line, OneMore(tx, ty, line), NEW n \in DOMAIN tx
    PROVE  Addr(ty, n, Len(ty) + 1) <=>
             Addr(tx, n, Len(tx) + 1) /\ (line.field = "user-agent" => \A i \in (n + 1)..Len(tx) : ~Ruled(tx, i))
  <1>1. PICK m : m = Len(tx)
    OBVIOUS
  <1>2. /\ m \in Nat /\ n \in 1..m /\ Len(ty) = m + 1 /\ ty[m + 1] = line
        /\ \A i \in 1..m : ty[i] = tx[i]
    BY <1>1 DEF OneMore
  <1>3. ASSUME Addr(ty, n, m + 2) PROVE Addr(tx, n, m + 1) /\ (line.field = "user-agent" => \A i \in (n + 1)..m : ~Ruled(tx, i))
    <2>1. ASSUME NEW i \in (n + 1)..m, NEW j \in (n + 1)..m PROVE ~(i < j /\ Ruled(tx, i) /\ Agent(tx, j))
      <3>1. i \in (n + 1)..((m + 2) - 1) /\ j \in (n + 1)..((m + 2) - 1) /\ ty[i] = tx[i] /\ ty[j] = tx[j]
        BY <1>2
      <3> QED BY <1>3, <3>1 DEF Addr, Agent, Ruled
    <2>2. ASSUME line.field = "user-agent", NEW i \in (n + 1)..m PROVE ~Ruled(tx, i)
      <3>1. i \in (n + 1)..((m + 2) - 1) /\ m + 1 \in (n + 1)..((m + 2) - 1) /\ i < m + 1 /\ ty[i] = tx[i]
        BY <1>2
      <3> QED BY <1>2, <1>3, <2>2, <3>1 DEF Addr, Agent, Ruled
    <2>3. Agent(tx, n) /\ n < m + 1 /\ (m + 1) - 1 = m
      BY <1>2, <1>3 DEF Addr, Agent
    <2> QED BY <2>1, <2>2, <2>3 DEF Addr
  <1>4. ASSUME Addr(tx, n, m + 1), line.field = "user-agent" => \A i \in (n + 1)..m : ~Ruled(tx, i) PROVE Addr(ty, n, m + 2)
    <2>1. ASSUME NEW i \in (n + 1)..((m + 2) - 1), NEW j \in (n + 1)..((m + 2) - 1), i < j, Ruled(ty, i), Agent(ty, j) PROVE FALSE
      <3>1. i \in (n + 1)..m /\ ty[i] = tx[i] /\ (m + 1) - 1 = m
        BY <1>2, <2>1
      <3>2. CASE j = m + 1
        BY <1>2, <1>4, <2>1, <3>1, <3>2 DEF Agent, Ruled
      <3>3. CASE j # m + 1
        <4>1. j \in (n + 1)..m /\ ty[j] = tx[j]
          BY <1>2, <3>3
        <4> QED BY <1>4, <2>1, <3>1, <4>1 DEF Addr, Agent, Ruled
      <3> QED BY <3>2, <3>3
    <2>2. Agent(ty, n) /\ n < m + 2
      BY <1>2, <1>4 DEF Addr, Agent
    <2> QED BY <2>1, <2>2 DEF Addr
  <1>5. Len(ty) + 1 = m + 2
    BY <1>2
  <1> QED BY <1>1, <1>3, <1>4, <1>5

\* What a new line changes of who is asked for, of who is addressed next, and of the rules read.
Told(tx, ty, a, asked, open) ==
    /\ AskedIn(ty, a) <=> AskedIn(tx, a) \/ asked
    /\ OpenIn(ty, a) <=> open
RulesSame(tx, ty, a) == \A r \in RuleLines : RulesIn(ty, a, r) <=> RulesIn(tx, a, r)

\* Who is asked for, after one more line.
LEMMA AskedNext ==
    ASSUME NEW tx, NEW ty, NEW line, OneMore(tx, ty, line), NEW a
    PROVE  /\ Asks(tx, a) = Asks(ty, a) \ {Len(tx) + 1}
           /\ Len(tx) + 1 \in Asks(ty, a) <=> line.field = "user-agent" /\ line.value = <<a>>
           /\ Asks(ty, a) \subseteq 1..(Len(tx) + 1)
  BY DEF OneMore, Asks, Agent

\* The rules read for a name, after one more line.
LEMMA RulesNext ==
    ASSUME NEW tx, NEW ty, NEW line, OneMore(tx, ty, line), NEW a, NEW r
    PROVE  RulesIn(ty, a, r) <=> RulesIn(tx, a, r) \/ (r = line /\ OpenIn(tx, a))
  <1>1. PICK m : m = Len(tx)
    OBVIOUS
  <1>2. /\ m \in Nat /\ DOMAIN tx = 1..m /\ DOMAIN ty = 1..(m + 1) /\ ty[m + 1] = line
        /\ \A i \in 1..m : ty[i] = tx[i]
    BY <1>1 DEF OneMore
  <1>3. /\ Asks(tx, a) = Asks(ty, a) \ {m + 1} /\ Asks(tx, a) \subseteq 1..m /\ Asks(ty, a) \subseteq 1..(m + 1)
    BY <1>1, <1>2, AskedNext
  <1>4. ASSUME NEW n \in 1..m, NEW k \in 1..(m + 1) PROVE Addr(ty, n, k) <=> Addr(tx, n, k)
    BY <1>1, <1>2, AddressesBefore
  <1>5. ASSUME NEW n \in Asks(ty, a), NEW k \in 1..(m + 1), Addr(ty, n, k) PROVE n \in Asks(tx, a)
    <2>1. n < k /\ n \in 1..(m + 1)
      BY <1>3, <1>5 DEF Addr
    <2>2. n # m + 1
      BY <1>2, <2>1
    <2> QED BY <1>3, <2>2
  <1>6. ASSUME RulesIn(ty, a, r) PROVE RulesIn(tx, a, r) \/ (r = line /\ OpenIn(tx, a))
    <2>1. PICK n \in Asks(ty, a) : \E k \in DOMAIN ty : Addr(ty, n, k) /\ ty[k] = r
      BY <1>6 DEF RulesIn
    <2>2. PICK k \in DOMAIN ty : Addr(ty, n, k) /\ ty[k] = r
      BY <2>1
    <2>3. n \in Asks(tx, a) /\ n \in 1..m /\ k \in 1..(m + 1)
      BY <1>2, <1>3, <1>5, <2>2
    <2>4. Addr(tx, n, k)
      BY <1>4, <2>2, <2>3
    <2>5. CASE k = m + 1
      BY <1>1, <1>2, <2>2, <2>3, <2>4, <2>5 DEF OpenIn
    <2>6. CASE k # m + 1
      <3>1. k \in 1..m /\ tx[k] = r
        BY <1>2, <2>2, <2>3, <2>6
      <3> QED BY <1>2, <2>3, <2>4, <3>1 DEF RulesIn
    <2> QED BY <2>5, <2>6
  <1>7. ASSUME RulesIn(tx, a, r) PROVE RulesIn(ty, a, r)
    <2>1. PICK n \in Asks(tx, a) : \E k \in DOMAIN tx : Addr(tx, n, k) /\ tx[k] = r
      BY <1>7 DEF RulesIn
    <2>2. PICK k \in DOMAIN tx : Addr(tx, n, k) /\ tx[k] = r
      BY <2>1
    <2>3. n \in Asks(ty, a) /\ n \in 1..m /\ k \in 1..m /\ k \in 1..(m + 1) /\ ty[k] = r
      BY <1>2, <1>3, <2>2
    <2> QED BY <1>2, <1>4, <2>2, <2>3 DEF RulesIn
  <1>8. ASSUME r = line, OpenIn(tx, a) PROVE RulesIn(ty, a, r)
    <2>1. PICK n \in Asks(tx, a) : Addr(tx, n, m + 1)
      BY <1>1, <1>8 DEF OpenIn
    <2>2. n \in Asks(ty, a) /\ n \in 1..m /\ m + 1 \in 1..(m + 1)
      BY <1>2, <1>3
    <2> QED BY <1>2, <1>4, <1>8, <2>1, <2>2 DEF RulesIn
  <1> QED BY <1>6, <1>7, <1>8

\* A User-agent line.
LEMMA AgentTold ==
    ASSUME NEW tx, NEW ty, NEW line, OneMore(tx, ty, line), NEW run \in BOOLEAN, RunIs(tx, run), line.field = "user-agent"
    PROVE  /\ RunIs(ty, TRUE)
           /\ \A a : Told(tx, ty, a, line.value = <<a>>, line.value = <<a>> \/ (run /\ OpenIn(tx, a)))
  <1>1. PICK m : m = Len(tx)
    OBVIOUS
  <1>2. /\ m \in Nat /\ DOMAIN tx = 1..m /\ DOMAIN ty = 1..(m + 1) /\ Len(ty) = m + 1 /\ ty[m + 1] = line
        /\ \A i \in 1..m : ty[i] = tx[i]
    BY <1>1 DEF OneMore
  <1>3. ASSUME NEW n \in 1..m PROVE Addr(ty, n, Len(ty) + 1) <=> Addr(tx, n, m + 1) /\ run
    <2>1. Addr(ty, n, Len(ty) + 1) <=> Addr(tx, n, m + 1) /\ \A i \in (n + 1)..m : ~Ruled(tx, i)
      BY <1>1, <1>2, AddressesNext
    <2>2. Addr(tx, n, m + 1) => Agent(tx, n)
      BY DEF Addr
    <2> QED BY <1>1, <1>2, <2>1, <2>2 DEF RunIs
  <1>4. Addr(ty, m + 1, Len(ty) + 1)
    <2>1. m + 1 < (m + 1) + 1 /\ ((m + 1) + 1)..(((m + 1) + 1) - 1) = {}
      BY <1>2
    <2>2. Agent(ty, m + 1)
      BY <1>2 DEF Agent
    <2> QED BY <1>2, <2>1, <2>2 DEF Addr
  <1>5. RunIs(ty, TRUE)
    <2>1. ASSUME NEW n \in 1..(m + 1), Addr(ty, n, Len(ty) + 1), NEW k \in (n + 1)..(m + 1) PROVE ~Ruled(ty, k)
      <3>1. n \in 1..m
        BY <1>2, <2>1
      <3>2. Addr(tx, n, m + 1) /\ run /\ Agent(tx, n)
        BY <1>3, <2>1, <3>1 DEF Addr
      <3>3. CASE k = m + 1
        BY <1>2, <3>3 DEF Ruled
      <3>4. CASE k # m + 1
        <4>1. k \in (n + 1)..m /\ ty[k] = tx[k]
          BY <1>2, <3>1, <3>4
        <4>2. ~Ruled(tx, k)
          BY <1>1, <1>2, <3>1, <3>2, <4>1 DEF RunIs
        <4> QED BY <4>1, <4>2 DEF Ruled
      <3> QED BY <3>3, <3>4
    <2> QED BY <1>2, <2>1 DEF RunIs
  <1>6. ASSUME NEW a PROVE Told(tx, ty, a, line.value = <<a>>, line.value = <<a>> \/ (run /\ OpenIn(tx, a)))
    <2>1. /\ Asks(tx, a) = Asks(ty, a) \ {m + 1}
          /\ m + 1 \in Asks(ty, a) <=> line.value = <<a>>
          /\ Asks(tx, a) \subseteq 1..m /\ Asks(ty, a) \subseteq 1..(m + 1)
      BY <1>1, <1>2, AskedNext
    <2>2. AskedIn(ty, a) <=> AskedIn(tx, a) \/ line.value = <<a>>
      BY <1>2, <2>1 DEF AskedIn
    <2>3. OpenIn(ty, a) <=> line.value = <<a>> \/ (run /\ OpenIn(tx, a))
      BY <1>1, <1>3, <1>4, <2>1 DEF OpenIn
    <2> QED BY <2>2, <2>3 DEF Told
  <1> QED BY <1>5, <1>6

\* Any other line.
RunAfter(ty, line, run) ==
    /\ line.field \in {"allow", "disallow"} => RunIs(ty, FALSE)
    /\ line.field \notin {"allow", "disallow"} => RunIs(ty, run)

LEMMA OtherTold ==
    ASSUME NEW tx, NEW ty, NEW line, OneMore(tx, ty, line), NEW run \in BOOLEAN, RunIs(tx, run), line.field # "user-agent"
    PROVE  RunAfter(ty, line, run) /\ \A a : Told(tx, ty, a, FALSE, OpenIn(tx, a))
  <1>1. PICK m : m = Len(tx)
    OBVIOUS
  <1>2. /\ m \in Nat /\ DOMAIN tx = 1..m /\ DOMAIN ty = 1..(m + 1) /\ Len(ty) = m + 1 /\ ty[m + 1] = line
        /\ \A i \in 1..m : ty[i] = tx[i]
    BY <1>1 DEF OneMore
  <1>3. ASSUME NEW n \in 1..m PROVE Addr(ty, n, Len(ty) + 1) <=> Addr(tx, n, m + 1)
    BY <1>1, <1>2, AddressesNext
  <1>4. ~Agent(ty, m + 1) /\ \A n \in 1..m : Agent(ty, n) <=> Agent(tx, n)
    BY <1>2 DEF Agent
  <1>5. ASSUME line.field \in {"allow", "disallow"} PROVE RunIs(ty, FALSE)
    <2>1. Ruled(ty, m + 1)
      BY <1>2, <1>5 DEF Ruled
    <2>2. ASSUME NEW n \in 1..(m + 1), Agent(ty, n) PROVE m + 1 \in (n + 1)..(m + 1)
      <3>1. n # m + 1
        BY <1>4, <2>2
      <3> QED BY <1>2, <3>1
    <2>3. RunIs(ty, FALSE)
      BY <1>2, <2>1, <2>2 DEF RunIs
    <2> QED BY <1>5, <2>3
  <1>6. ASSUME line.field \notin {"allow", "disallow"} PROVE RunIs(ty, run)
    <2>1. ~Ruled(ty, m + 1) /\ \A n \in 1..m : Ruled(ty, n) <=> Ruled(tx, n)
      BY <1>2, <1>6 DEF Ruled
    <2>2. ASSUME NEW n \in 1..(m + 1), Agent(ty, n)
          PROVE  IF run THEN Addr(ty, n, Len(ty) + 1) => \A k \in (n + 1)..(m + 1) : ~Ruled(ty, k)
                        ELSE \E k \in (n + 1)..(m + 1) : Ruled(ty, k)
      <3>1. n \in 1..m /\ Agent(tx, n)
        <4>1. n # m + 1
          BY <1>4, <2>2
        <4> QED BY <1>2, <1>4, <2>2, <4>1
      <3>2. (n + 1)..(m + 1) = ((n + 1)..m) \cup {m + 1} /\ (n + 1)..m \subseteq 1..m
        BY <1>2, <3>1
      <3>3. CASE run
        <4>1. Addr(tx, n, m + 1) => \A k \in (n + 1)..m : ~Ruled(tx, k)
          BY <1>1, <1>2, <3>1, <3>3 DEF RunIs
        <4> QED BY <1>3, <2>1, <3>1, <3>2, <3>3, <4>1
      <3>4. CASE ~run
        <4>1. \E k \in (n + 1)..m : Ruled(tx, k)
          BY <1>1, <1>2, <3>1, <3>4 DEF RunIs
        <4> QED BY <2>1, <3>2, <3>4, <4>1
      <3> QED BY <3>3, <3>4
    <2>3. RunIs(ty, run)
      BY <1>2, <2>2 DEF RunIs
    <2> QED BY <1>6, <2>3
  <1>7. ASSUME NEW a PROVE Told(tx, ty, a, FALSE, OpenIn(tx, a))
    <2>0. Asks(tx, a) = Asks(ty, a) \ {m + 1} /\ m + 1 \notin Asks(ty, a) /\ Asks(ty, a) \subseteq 1..(m + 1)
      BY <1>1, <1>2, AskedNext
    <2>1. Asks(tx, a) = Asks(ty, a) /\ Asks(tx, a) \subseteq 1..m
      <3>1. \A n \in Asks(ty, a) : n \in 1..m
        BY <1>2, <2>0
      <3> QED BY <2>0, <3>1
    <2>2. AskedIn(ty, a) <=> AskedIn(tx, a)
      BY <1>2, <2>1 DEF AskedIn
    <2>3. OpenIn(ty, a) <=> OpenIn(tx, a)
      BY <1>1, <1>3, <2>1 DEF OpenIn
    <2> QED BY <2>2, <2>3 DEF Told
  <1> QED BY <1>5, <1>6, <1>7 DEF RunAfter

\* The groups of the parser.
NamedIn(gs, a) == \E g \in DOMAIN gs : a \in ToSet(gs[g].agents)
LastNames(gs, a) == gs # <<>> /\ a \in ToSet(gs[Len(gs)].agents)
RuledIn(gs, a, r) == \E g \in DOMAIN gs : a \in ToSet(gs[g].agents) /\ r \in ToSet(gs[g].rules)
HeardOf(gs, hs, a, more, open) == (NamedIn(hs, a) <=> NamedIn(gs, a) \/ more) /\ (LastNames(hs, a) <=> open)
KeptRules(gs, hs) == \A a : \A r : RuledIn(hs, a, r) <=> RuledIn(gs, a, r)

NewGroup(named) == [agents |-> named, rules |-> <<>>]
MoreNames(group, named) == [group EXCEPT !.agents = group.agents \o named]
MoreRules(group, line) == [group EXCEPT !.rules = Append(group.rules, line)]

\* Nothing is in an empty list.
LEMMA NothingIn == \A x : x \notin ToSet(<<>>)
  BY DEF ToSet

Adds(u, s, x) == ToSet(u) = ToSet(s) \cup {x}

\* What is in a list with one more at its end.
LEMMA ToSetOfAppend ==
    ASSUME NEW S, NEW s \in Seq(S), NEW x \in S, NEW u, u = Append(s, x)
    PROVE  u \in Seq(S) /\ Adds(u, s, x)
  <1>1. OneMore(s, u, x) /\ u \in Seq(S)
    BY AppendIsOneMore
  <1>2. PICK m : m = Len(s)
    OBVIOUS
  <1>3. m \in Nat /\ DOMAIN s = 1..m /\ DOMAIN u = 1..(m + 1) /\ u[m + 1] = x /\ \A i \in 1..m : u[i] = s[i]
    BY <1>1, <1>2 DEF OneMore
  <1>4. ASSUME NEW i \in DOMAIN u PROVE u[i] \in ToSet(s) \cup {x}
    <2>1. CASE i = m + 1
      BY <1>3, <2>1
    <2>2. CASE i # m + 1
      <3>1. i \in DOMAIN s /\ u[i] = s[i]
        BY <1>3, <2>2
      <3> QED BY <3>1 DEF ToSet
    <2> QED BY <2>1, <2>2
  <1>5. ASSUME NEW i \in DOMAIN s PROVE s[i] \in ToSet(u)
    <2>1. i \in DOMAIN u /\ u[i] = s[i]
      BY <1>3
    <2> QED BY <2>1 DEF ToSet
  <1>6. x \in ToSet(u)
    <2>1. m + 1 \in DOMAIN u
      BY <1>3
    <2> QED BY <1>3, <2>1 DEF ToSet
  <1>7. ToSet(u) \subseteq ToSet(s) \cup {x}
    BY <1>4 DEF ToSet
  <1>8. ToSet(s) \subseteq ToSet(u)
    BY <1>5 DEF ToSet
  <1> QED BY <1>1, <1>6, <1>7, <1>8 DEF Adds

\* A run of names opens a group.
LEMMA NewHeard ==
    ASSUME NEW gs \in Seq(AGroup), NEW named \in Seq(AgentNames), NEW hs, hs = Append(gs, NewGroup(named))
    PROVE  /\ hs \in Seq(AGroup) /\ hs # <<>> /\ hs[Len(hs)].rules = <<>> /\ KeptRules(gs, hs)
           /\ \A a : HeardOf(gs, hs, a, a \in ToSet(named), a \in ToSet(named))
  <1>1. PICK G, m : G = NewGroup(named) /\ m = Len(gs)
    OBVIOUS
  <1>2. G.agents = named /\ G.rules = <<>> /\ G \in AGroup
    BY <1>1 DEF NewGroup, AGroup
  <1>3. hs \in Seq(AGroup) /\ OneMore(gs, hs, G)
    BY <1>1, <1>2, AppendIsOneMore
  <1>4. /\ m \in Nat /\ DOMAIN gs = 1..m /\ DOMAIN hs = 1..(m + 1) /\ Len(hs) = m + 1 /\ hs[m + 1] = G
        /\ \A i \in 1..m : hs[i] = gs[i]
    BY <1>1, <1>3 DEF OneMore
  <1>5. hs # <<>>
    <2>1. m + 1 \in DOMAIN hs /\ DOMAIN <<>> = {}
      BY <1>4
    <2> QED BY <2>1
  <1>6. ASSUME NEW a PROVE HeardOf(gs, hs, a, a \in ToSet(named), a \in ToSet(named))
    <2>1. NamedIn(hs, a) => NamedIn(gs, a) \/ a \in ToSet(named)
      <3>1. ASSUME NEW g \in DOMAIN hs, a \in ToSet(hs[g].agents) PROVE NamedIn(gs, a) \/ a \in ToSet(named)
        <4>1. CASE g = m + 1
          BY <1>2, <1>4, <3>1, <4>1
        <4>2. CASE g # m + 1
          <5>1. g \in DOMAIN gs /\ hs[g] = gs[g]
            BY <1>4, <4>2
          <5> QED BY <3>1, <5>1 DEF NamedIn
        <4> QED BY <4>1, <4>2
      <3> QED BY <3>1 DEF NamedIn
    <2>2. NamedIn(gs, a) => NamedIn(hs, a)
      BY <1>4 DEF NamedIn
    <2>3. a \in ToSet(named) => NamedIn(hs, a)
      <3>1. m + 1 \in DOMAIN hs
        BY <1>4
      <3> QED BY <1>2, <1>4, <3>1 DEF NamedIn
    <2>4. LastNames(hs, a) <=> a \in ToSet(named)
      BY <1>2, <1>4, <1>5 DEF LastNames
    <2> QED BY <2>1, <2>2, <2>3, <2>4 DEF HeardOf
  <1>7. ASSUME NEW a, NEW r PROVE RuledIn(hs, a, r) <=> RuledIn(gs, a, r)
    <2>1. ASSUME NEW g \in DOMAIN hs, a \in ToSet(hs[g].agents), r \in ToSet(hs[g].rules) PROVE RuledIn(gs, a, r)
      <3>1. g # m + 1
        BY <1>2, <1>4, <2>1, NothingIn
      <3>2. g \in DOMAIN gs /\ hs[g] = gs[g]
        BY <1>4, <3>1
      <3> QED BY <2>1, <3>2 DEF RuledIn
    <2>2. RuledIn(gs, a, r) => RuledIn(hs, a, r)
      BY <1>4, SMTT(30) DEF RuledIn
    <2> QED BY <2>1, <2>2 DEF RuledIn
  <1> QED BY <1>2, <1>3, <1>4, <1>5, <1>6, <1>7 DEF KeptRules

WithLast(gs, G) == [gs EXCEPT ![Len(gs)] = G]
Amended(gs, hs, G) ==
    /\ Len(hs) = Len(gs) /\ DOMAIN hs = 1..Len(gs) /\ DOMAIN gs = 1..Len(gs) /\ Len(gs) \in Nat \ {0}
    /\ hs[Len(gs)] = G /\ \A i \in 1..Len(gs) : i # Len(gs) => hs[i] = gs[i]

\* Only the last group is changed.
LEMMA LastIsAmended ==
    ASSUME NEW gs \in Seq(AGroup), gs # <<>>, NEW G \in AGroup, NEW hs, hs = WithLast(gs, G)
    PROVE  hs \in Seq(AGroup) /\ Amended(gs, hs, G) /\ hs # <<>>
  <1>1. Len(gs) \in Nat /\ DOMAIN gs = 1..Len(gs) /\ Len(gs) # 0
    BY LenProperties, EmptySeq
  <1>2. Len(gs) \in 1..Len(gs)
    BY <1>1
  <1>3. hs \in Seq(AGroup) /\ Len(hs) = Len(gs)
    BY <1>2, ExceptSeq, SMTT(30) DEF WithLast
  <1>4. DOMAIN hs = DOMAIN gs /\ hs[Len(gs)] = G /\ \A i \in 1..Len(gs) : i # Len(gs) => hs[i] = gs[i]
    BY <1>1, <1>2 DEF WithLast
  <1>5. hs # <<>>
    <2>1. DOMAIN <<>> = {}
      OBVIOUS
    <2> QED BY <1>1, <1>2, <1>4, <2>1
  <1> QED BY <1>1, <1>3, <1>4, <1>5 DEF Amended

\* A run of names goes on.
LEMMA MoreHeard ==
    ASSUME NEW gs \in Seq(AGroup), gs # <<>>, gs[Len(gs)].rules = <<>>, NEW named \in Seq(AgentNames),
           NEW hs, hs = WithLast(gs, MoreNames(gs[Len(gs)], named))
    PROVE  /\ hs \in Seq(AGroup) /\ hs # <<>> /\ hs[Len(hs)].rules = <<>> /\ KeptRules(gs, hs)
           /\ \A a : HeardOf(gs, hs, a, a \in ToSet(named), a \in ToSet(named) \/ LastNames(gs, a))
  <1>1. PICK F, G, m, s, u : /\ F = gs[Len(gs)] /\ m = Len(gs) /\ G = MoreNames(F, named)
                             /\ s = F.agents /\ u = s \o named
    OBVIOUS
  <1>2. m \in Nat \ {0} /\ F \in AGroup /\ DOMAIN gs = 1..m
    <2>1. Len(gs) \in Nat /\ DOMAIN gs = 1..Len(gs) /\ Len(gs) # 0
      BY LenProperties, EmptySeq
    <2>2. Len(gs) \in 1..Len(gs)
      BY <2>1
    <2> QED BY <1>1, <2>1, <2>2, ElementOfSeq
  <1>3. s \in Seq(AgentNames)
    BY <1>1, <1>2 DEF AGroup
  <1>4. u \in Seq(AgentNames) /\ Joins(u, s, named)
    BY <1>1, <1>3, ToSetOfConcat
  <1>5. G = [F EXCEPT !.agents = u]
    BY <1>1 DEF MoreNames
  <1>6. G \in AGroup /\ G.agents = u /\ G.rules = F.rules /\ G.rules = <<>>
    BY <1>1, <1>2, <1>4, <1>5 DEF AGroup
  <1>7. hs \in Seq(AGroup) /\ Amended(gs, hs, G) /\ hs # <<>>
    BY <1>1, <1>6, LastIsAmended
  <1>8. Len(hs) = m /\ DOMAIN hs = 1..m /\ hs[m] = G /\ gs[m] = F /\ \A i \in 1..m : i # m => hs[i] = gs[i]
    BY <1>1, <1>7 DEF Amended
  <1>9. m \in 1..m
    BY <1>2
  <1>10. ASSUME NEW a PROVE HeardOf(gs, hs, a, a \in ToSet(named), a \in ToSet(named) \/ LastNames(gs, a))
    <2>1. a \in ToSet(u) <=> a \in ToSet(s) \/ a \in ToSet(named)
      BY <1>4 DEF Joins
    <2>2. LastNames(gs, a) <=> a \in ToSet(s)
      BY <1>1 DEF LastNames
    <2>3. LastNames(hs, a) <=> a \in ToSet(u)
      BY <1>6, <1>7, <1>8 DEF LastNames
    <2>4. ASSUME NEW g \in DOMAIN hs, a \in ToSet(hs[g].agents) PROVE NamedIn(gs, a) \/ a \in ToSet(named)
      <3>1. CASE g = m
        BY <1>1, <1>2, <1>6, <1>8, <1>9, <2>1, <2>4, <3>1 DEF NamedIn
      <3>2. CASE g # m
        BY <1>2, <1>8, <2>4, <3>2 DEF NamedIn
      <3> QED BY <3>1, <3>2
    <2>5. ASSUME NEW g \in DOMAIN gs, a \in ToSet(gs[g].agents) PROVE NamedIn(hs, a)
      <3>1. CASE g = m
        BY <1>1, <1>6, <1>8, <1>9, <2>1, <2>5, <3>1 DEF NamedIn
      <3>2. CASE g # m
        BY <1>2, <1>8, <2>5, <3>2 DEF NamedIn
      <3> QED BY <3>1, <3>2
    <2>6. a \in ToSet(named) => NamedIn(hs, a)
      BY <1>6, <1>8, <1>9, <2>1 DEF NamedIn
    <2>7. NamedIn(hs, a) <=> NamedIn(gs, a) \/ a \in ToSet(named)
      BY <2>4, <2>5, <2>6 DEF NamedIn
    <2> QED BY <2>1, <2>2, <2>3, <2>7 DEF HeardOf
  <1>11. ASSUME NEW a, NEW r PROVE RuledIn(hs, a, r) <=> RuledIn(gs, a, r)
    <2>1. ASSUME NEW g \in 1..m PROVE a \in ToSet(hs[g].agents) /\ r \in ToSet(hs[g].rules) <=> a \in ToSet(gs[g].agents) /\ r \in ToSet(gs[g].rules)
      <3>1. CASE g = m
        BY <1>1, <1>6, <1>8, <3>1, NothingIn
      <3>2. CASE g # m
        BY <1>8, <3>2
      <3> QED BY <3>1, <3>2
    <2> QED BY <1>2, <1>8, <2>1 DEF RuledIn
  <1> QED BY <1>6, <1>7, <1>8, <1>10, <1>11 DEF KeptRules

GainedRules(gs, hs, line) == \A a : \A r : RuledIn(hs, a, r) <=> RuledIn(gs, a, r) \/ (r = line /\ LastNames(gs, a))

\* A rule for the group the last names opened.
LEMMA RuleHeard ==
    ASSUME NEW gs \in Seq(AGroup), gs # <<>>, NEW line \in RuleLines,
           NEW hs, hs = WithLast(gs, MoreRules(gs[Len(gs)], line))
    PROVE  /\ hs \in Seq(AGroup) /\ \A a : HeardOf(gs, hs, a, FALSE, LastNames(gs, a))
           /\ GainedRules(gs, hs, line)
  <1>1. PICK F, G, m, s, u : /\ F = gs[Len(gs)] /\ m = Len(gs) /\ G = MoreRules(F, line)
                             /\ s = F.rules /\ u = Append(s, line)
    OBVIOUS
  <1>2. m \in Nat \ {0} /\ F \in AGroup /\ DOMAIN gs = 1..m
    <2>1. Len(gs) \in Nat /\ DOMAIN gs = 1..Len(gs) /\ Len(gs) # 0
      BY LenProperties, EmptySeq
    <2>2. Len(gs) \in 1..Len(gs)
      BY <2>1
    <2> QED BY <1>1, <2>1, <2>2, ElementOfSeq
  <1>3. s \in Seq(RuleLines)
    BY <1>1, <1>2 DEF AGroup
  <1>4. u \in Seq(RuleLines) /\ ToSet(u) = ToSet(s) \cup {line}
    <2>1. u \in Seq(RuleLines) /\ Adds(u, s, line)
      BY <1>1, <1>3, ToSetOfAppend
    <2> QED BY <2>1 DEF Adds
  <1>5. G = [F EXCEPT !.rules = u]
    BY <1>1 DEF MoreRules
  <1>6. G \in AGroup /\ G.rules = u /\ G.agents = F.agents
    BY <1>2, <1>4, <1>5 DEF AGroup
  <1>7. hs \in Seq(AGroup) /\ Amended(gs, hs, G) /\ hs # <<>>
    BY <1>1, <1>6, LastIsAmended
  <1>8. Len(hs) = m /\ DOMAIN hs = 1..m /\ hs[m] = G /\ gs[m] = F /\ \A i \in 1..m : i # m => hs[i] = gs[i]
    BY <1>1, <1>7 DEF Amended
  <1>9. m \in 1..m
    BY <1>2
  <1>10. \A g \in 1..m : hs[g].agents = gs[g].agents
    BY <1>6, <1>8
  <1>11. ASSUME NEW a PROVE HeardOf(gs, hs, a, FALSE, LastNames(gs, a))
    <2>1. NamedIn(hs, a) <=> NamedIn(gs, a)
      BY <1>2, <1>8, <1>10 DEF NamedIn
    <2>2. LastNames(hs, a) <=> LastNames(gs, a)
      BY <1>1, <1>7, <1>8, <1>9, <1>10 DEF LastNames
    <2> QED BY <2>1, <2>2 DEF HeardOf
  <1>12. ASSUME NEW a, NEW r PROVE RuledIn(hs, a, r) <=> RuledIn(gs, a, r) \/ (r = line /\ LastNames(gs, a))
    <2>1. LastNames(gs, a) <=> a \in ToSet(F.agents)
      BY <1>1 DEF LastNames
    <2>2. ASSUME RuledIn(hs, a, r) PROVE RuledIn(gs, a, r) \/ (r = line /\ LastNames(gs, a))
      <3>1. PICK g \in 1..m : a \in ToSet(hs[g].agents) /\ r \in ToSet(hs[g].rules)
        BY <1>8, <2>2 DEF RuledIn
      <3>2. CASE g = m
        BY <1>1, <1>2, <1>4, <1>6, <1>8, <1>9, <2>1, <3>1, <3>2 DEF RuledIn
      <3>3. CASE g # m
        BY <1>2, <1>8, <3>1, <3>3 DEF RuledIn
      <3> QED BY <3>2, <3>3
    <2>3. ASSUME RuledIn(gs, a, r) PROVE RuledIn(hs, a, r)
      <3>1. PICK g \in 1..m : a \in ToSet(gs[g].agents) /\ r \in ToSet(gs[g].rules)
        BY <1>2, <2>3 DEF RuledIn
      <3>2. CASE g = m
        BY <1>1, <1>4, <1>6, <1>8, <1>9, <3>1, <3>2 DEF RuledIn
      <3>3. CASE g # m
        BY <1>8, <3>1, <3>3 DEF RuledIn
      <3> QED BY <3>2, <3>3
    <2>4. ASSUME r = line, LastNames(gs, a) PROVE RuledIn(hs, a, r)
      BY <1>4, <1>6, <1>8, <1>9, <2>1, <2>4 DEF RuledIn
    <2> QED BY <2>2, <2>3, <2>4
  <1> QED BY <1>7, <1>11, <1>12 DEF GainedRules

\* The groups name whom the lines ask for, the last one those still addressed, with the rules addressed to each.
Agrees(tx, gs) ==
    \A a \in ToSet(Tokens) :
        /\ NamedIn(gs, a) <=> AskedIn(tx, a)
        /\ LastNames(gs, a) <=> OpenIn(tx, a)
        /\ \A r \in RuleLines : RuledIn(gs, a, r) <=> RulesIn(tx, a, r)

RobotsType ==
    /\ text \in Seq(FileLines) /\ groups \in Seq(AGroup) /\ agentRun \in BOOLEAN
    /\ agentRun => groups # <<>> /\ groups[Len(groups)].rules = <<>>

RobotsInv == RobotsType /\ RunIs(text, agentRun) /\ Agrees(text, groups)

\* Before the first line.
LEMMA RobotsInitially == RobotsInit => RobotsInv
  <1> SUFFICES ASSUME RobotsInit PROVE RobotsInv
    OBVIOUS
  <1>1. text = <<>> /\ groups = <<>> /\ agentRun = FALSE /\ DOMAIN <<>> = {}
    BY DEF RobotsInit
  <1>2. RobotsType
    <2>1. <<>> \in Seq(FileLines) /\ <<>> \in Seq(AGroup)
      OBVIOUS
    <2>2. text \in Seq(FileLines) /\ groups \in Seq(AGroup)
      BY <1>1, <2>1
    <2>3. agentRun \in BOOLEAN /\ ~agentRun
      BY <1>1
    <2> QED BY <2>2, <2>3 DEF RobotsType
  <1>3. RunIs(text, agentRun)
    BY <1>1 DEF RunIs
  <1>4. Agrees(text, groups)
    BY <1>1 DEF Agrees, NamedIn, LastNames, RuledIn, AskedIn, OpenIn, RulesIn, Asks
  <1> QED BY <1>2, <1>3, <1>4 DEF RobotsInv

\* A line is of one kind, and only a rule with a value is kept.
LEMMA FileLineIs ==
    ASSUME NEW line \in FileLines
    PROVE  /\ line.field = "user-agent" => \E x \in AgentNames \cup {Nameless} : line.value = <<x>>
           /\ line.field \in {"allow", "disallow"} => line.value = <<>> \/ (line \in RuleLines /\ line.value \in Patterns)
           /\ line.field \in {"user-agent", "allow", "disallow", "other"}
           /\ line.field \notin {"allow", "disallow"} => line \notin RuleLines
           /\ line.value = <<>> => line \notin RuleLines
  <1>1. ASSUME line \in RuleLines PROVE line.field \in {"allow", "disallow"} /\ line.value # <<>>
    <2>1. Len(line.value) # 0 /\ line.field \in {"allow", "disallow"}
      BY <1>1, RuleIs
    <2>2. line.value # <<>>
      BY <2>1
    <2> QED BY <2>1, <2>2
  <1>2. CASE \E a \in AgentNames \cup {Nameless} : line = Line("user-agent", <<a>>)
    BY <1>1, <1>2 DEF Line
  <1>3. CASE \E f \in {"allow", "disallow"}, p \in Patterns \cup {<<>>} : line = Line(f, p)
    <2>1. PICK f \in {"allow", "disallow"}, p \in Patterns \cup {<<>>} : line = Line(f, p)
      BY <1>3
    <2>2. line.field = f /\ line.value = p
      BY <2>1 DEF Line
    <2>3. p \in Patterns => line \in RuleLines
      BY <2>1 DEF RuleLines
    <2> QED BY <1>1, <2>2, <2>3
  <1>4. CASE line = Line("other", <<>>)
    BY <1>1, <1>4 DEF Line
  <1> QED BY <1>2, <1>3, <1>4 DEF FileLines, AgentNames

\* A User-agent line.
LEMMA UserAgentKeeps ==
    ASSUME RobotsInv, NEW line \in FileLines, text' = Append(text, line), UserAgent(line)
    PROVE  RobotsInv'
  <1>1. PICK tx, ty, gs, hs, run : tx = text /\ ty = text' /\ gs = groups /\ hs = groups' /\ run = agentRun
    OBVIOUS
  <1>2. /\ tx \in Seq(FileLines) /\ gs \in Seq(AGroup) /\ run \in BOOLEAN /\ RunIs(tx, run) /\ Agrees(tx, gs)
        /\ run => gs # <<>> /\ gs[Len(gs)].rules = <<>>
    BY <1>1 DEF RobotsInv, RobotsType
  <1>3. ty \in Seq(FileLines) /\ OneMore(tx, ty, line)
    BY <1>1, <1>2, AppendIsOneMore
  <1>4. line.field = "user-agent" /\ agentRun' = TRUE
    BY DEF UserAgent
  <1>5. PICK x \in AgentNames \cup {Nameless} : line.value = <<x>>
    BY <1>4, FileLineIs
  <1>6. PICK named : named = IF x = Nameless THEN <<>> ELSE <<x>>
    OBVIOUS
  <1>7. named \in Seq(AgentNames) /\ named = IF line.value = <<Nameless>> THEN <<>> ELSE line.value
    BY <1>5, <1>6
  <1>8. ASSUME NEW a \in ToSet(Tokens) PROVE a \in ToSet(named) <=> line.value = <<a>>
    <2>1. a # Nameless
      BY RobotsConstants
    <2>2. CASE x = Nameless
      BY <1>5, <1>6, <2>1, <2>2, NothingIn
    <2>3. CASE x # Nameless
      <3>1. named = <<x>> /\ DOMAIN <<x>> = {1}
        BY <1>6, <2>3
      <3>2. ToSet(named) = {x}
        BY <3>1 DEF ToSet
      <3> QED BY <1>5, <3>2
    <2> QED BY <2>2, <2>3
  <1>9. RunIs(ty, TRUE) /\ \A a : Told(tx, ty, a, line.value = <<a>>, line.value = <<a>> \/ (run /\ OpenIn(tx, a)))
    BY <1>2, <1>3, <1>4, AgentTold
  <1>10. \A a : \A r \in RuleLines : RulesIn(ty, a, r) <=> RulesIn(tx, a, r)
    <2>1. line \notin RuleLines
      BY <1>4, FileLineIs
    <2> QED BY <1>3, <2>1, RulesNext
  <1>11. /\ hs \in Seq(AGroup) /\ hs # <<>> /\ hs[Len(hs)].rules = <<>> /\ KeptRules(gs, hs)
         /\ \A a : HeardOf(gs, hs, a, a \in ToSet(named), a \in ToSet(named) \/ (run /\ LastNames(gs, a)))
    <2>1. CASE run
      <3>1. hs = WithLast(gs, MoreNames(gs[Len(gs)], named))
        BY <1>1, <1>7, <2>1 DEF UserAgent, MoreNames, WithLast
      <3>2. /\ hs \in Seq(AGroup) /\ hs # <<>> /\ hs[Len(hs)].rules = <<>> /\ KeptRules(gs, hs)
            /\ \A a : HeardOf(gs, hs, a, a \in ToSet(named), a \in ToSet(named) \/ LastNames(gs, a))
        BY <1>2, <1>7, <2>1, <3>1, MoreHeard
      <3> QED BY <2>1, <3>2 DEF HeardOf
    <2>2. CASE ~run
      <3>1. hs = Append(gs, NewGroup(named))
        BY <1>1, <1>7, <2>2 DEF UserAgent, NewGroup
      <3>2. /\ hs \in Seq(AGroup) /\ hs # <<>> /\ hs[Len(hs)].rules = <<>> /\ KeptRules(gs, hs)
            /\ \A a : HeardOf(gs, hs, a, a \in ToSet(named), a \in ToSet(named))
        BY <1>2, <1>7, <3>1, NewHeard
      <3> QED BY <2>2, <3>2 DEF HeardOf
    <2> QED BY <1>2, <2>1, <2>2
  <1>12. Agrees(ty, hs)
    <2>1. ASSUME NEW a \in ToSet(Tokens) PROVE NamedIn(hs, a) <=> AskedIn(ty, a)
      BY <1>2, <1>8, <1>9, <1>11, <2>1 DEF Agrees, Told, HeardOf
    <2>2. ASSUME NEW a \in ToSet(Tokens) PROVE LastNames(hs, a) <=> OpenIn(ty, a)
      BY <1>2, <1>8, <1>9, <1>11, <2>2 DEF Agrees, Told, HeardOf
    <2>3. ASSUME NEW a \in ToSet(Tokens), NEW r \in RuleLines PROVE RuledIn(hs, a, r) <=> RulesIn(ty, a, r)
      BY <1>2, <1>10, <1>11 DEF Agrees, KeptRules
    <2> QED BY <2>1, <2>2, <2>3 DEF Agrees
  <1> QED BY <1>1, <1>3, <1>4, <1>9, <1>11, <1>12 DEF RobotsInv, RobotsType

\* A rule.
LEMMA RuleLineKeeps ==
    ASSUME RobotsInv, NEW line \in FileLines, text' = Append(text, line), RuleLine(line)
    PROVE  RobotsInv'
  <1>1. PICK tx, ty, gs, hs, run : tx = text /\ ty = text' /\ gs = groups /\ hs = groups' /\ run = agentRun
    OBVIOUS
  <1>2. tx \in Seq(FileLines) /\ gs \in Seq(AGroup) /\ run \in BOOLEAN /\ RunIs(tx, run) /\ Agrees(tx, gs)
    BY <1>1 DEF RobotsInv, RobotsType
  <1>3. ty \in Seq(FileLines) /\ OneMore(tx, ty, line)
    BY <1>1, <1>2, AppendIsOneMore
  <1>4. line.field \in {"allow", "disallow"} /\ agentRun' = FALSE
    BY DEF RuleLine
  <1>5. RunIs(ty, FALSE) /\ \A a : Told(tx, ty, a, FALSE, OpenIn(tx, a))
    <2>1. line.field # "user-agent"
      BY <1>4
    <2>2. RunAfter(ty, line, run) /\ \A a : Told(tx, ty, a, FALSE, OpenIn(tx, a))
      BY <1>2, <1>3, <2>1, OtherTold
    <2> QED BY <1>4, <2>2 DEF RunAfter
  <1>6. \A a : \A r : RulesIn(ty, a, r) <=> RulesIn(tx, a, r) \/ (r = line /\ OpenIn(tx, a))
    BY <1>3, RulesNext
  <1>7. hs \in Seq(AGroup) /\ Agrees(ty, hs)
    <2>1. CASE gs = <<>> \/ line.value = <<>>
      <3>1. hs = gs
        BY <1>1, <2>1 DEF RuleLine
      <3>2. ASSUME NEW a \in ToSet(Tokens), NEW r \in RuleLines, r = line PROVE ~OpenIn(tx, a)
        <4>1. gs = <<>>
          BY <2>1, <3>2, FileLineIs
        <4> QED BY <1>2, <4>1 DEF Agrees, LastNames
      <3>3. ASSUME NEW a \in ToSet(Tokens) PROVE NamedIn(hs, a) <=> AskedIn(ty, a)
        BY <1>2, <1>5, <3>1 DEF Agrees, Told
      <3>4. ASSUME NEW a \in ToSet(Tokens) PROVE LastNames(hs, a) <=> OpenIn(ty, a)
        BY <1>2, <1>5, <3>1 DEF Agrees, Told
      <3>5. ASSUME NEW a \in ToSet(Tokens), NEW r \in RuleLines PROVE RuledIn(hs, a, r) <=> RulesIn(ty, a, r)
        BY <1>2, <1>6, <3>1, <3>2 DEF Agrees
      <3> QED BY <1>2, <3>1, <3>3, <3>4, <3>5 DEF Agrees
    <2>2. CASE ~(gs = <<>> \/ line.value = <<>>)
      <3>1. hs = WithLast(gs, MoreRules(gs[Len(gs)], line))
        BY <1>1, <2>2 DEF RuleLine, MoreRules, WithLast
      <3>2. line \in RuleLines
        BY <1>4, <2>2, FileLineIs
      <3>3. /\ hs \in Seq(AGroup) /\ \A a : HeardOf(gs, hs, a, FALSE, LastNames(gs, a))
            /\ GainedRules(gs, hs, line)
        <4>1. gs # <<>>
          BY <2>2
        <4> QED BY <1>2, <3>1, <3>2, <4>1, RuleHeard
      <3>4. ASSUME NEW a \in ToSet(Tokens) PROVE NamedIn(hs, a) <=> AskedIn(ty, a)
        BY <1>2, <1>5, <3>3 DEF Agrees, Told, HeardOf
      <3>5. ASSUME NEW a \in ToSet(Tokens) PROVE LastNames(hs, a) <=> OpenIn(ty, a)
        BY <1>2, <1>5, <3>3 DEF Agrees, Told, HeardOf
      <3>6. ASSUME NEW a \in ToSet(Tokens), NEW r \in RuleLines PROVE RuledIn(hs, a, r) <=> RulesIn(ty, a, r)
        BY <1>2, <1>6, <3>3 DEF Agrees, GainedRules
      <3> QED BY <3>3, <3>4, <3>5, <3>6 DEF Agrees
    <2> QED BY <2>1, <2>2
  <1> QED BY <1>1, <1>3, <1>4, <1>5, <1>7 DEF RobotsInv, RobotsType

\* A line that is neither.
LEMMA SkippedKeeps ==
    ASSUME RobotsInv, NEW line \in FileLines, text' = Append(text, line), Skipped(line)
    PROVE  RobotsInv'
  <1>1. PICK tx, ty, gs, run : tx = text /\ ty = text' /\ gs = groups /\ run = agentRun
    OBVIOUS
  <1>2. tx \in Seq(FileLines) /\ gs \in Seq(AGroup) /\ run \in BOOLEAN /\ RunIs(tx, run) /\ Agrees(tx, gs)
    BY <1>1 DEF RobotsInv, RobotsType
  <1>3. ty \in Seq(FileLines) /\ OneMore(tx, ty, line)
    BY <1>1, <1>2, AppendIsOneMore
  <1>4. line.field = "other" /\ UNCHANGED <<groups, agentRun>>
    BY DEF Skipped
  <1>5. RunIs(ty, run) /\ \A a : Told(tx, ty, a, FALSE, OpenIn(tx, a))
    <2>1. line.field # "user-agent"
      BY <1>4
    <2>2. RunAfter(ty, line, run) /\ \A a : Told(tx, ty, a, FALSE, OpenIn(tx, a))
      BY <1>2, <1>3, <2>1, OtherTold
    <2> QED BY <1>4, <2>2 DEF RunAfter
  <1>6. \A a : \A r \in RuleLines : RulesIn(ty, a, r) <=> RulesIn(tx, a, r)
    <2>1. line \notin RuleLines
      BY <1>4, FileLineIs
    <2> QED BY <1>3, <2>1, RulesNext
  <1>7. Agrees(ty, gs)
    <2>1. ASSUME NEW a \in ToSet(Tokens) PROVE (NamedIn(gs, a) <=> AskedIn(ty, a)) /\ (LastNames(gs, a) <=> OpenIn(ty, a))
      BY <1>2, <1>5 DEF Agrees, Told
    <2>2. ASSUME NEW a \in ToSet(Tokens), NEW r \in RuleLines PROVE RuledIn(gs, a, r) <=> RulesIn(ty, a, r)
      BY <1>2, <1>6 DEF Agrees
    <2> QED BY <2>1, <2>2 DEF Agrees
  <1> QED BY <1>1, <1>3, <1>4, <1>5, <1>7 DEF RobotsInv, RobotsType

\* Every line keeps it.
LEMMA RobotsStep == RobotsInv /\ [RobotsNext]_robotsFileVars => RobotsInv'
  <1> SUFFICES ASSUME RobotsInv, [RobotsNext]_robotsFileVars PROVE RobotsInv'
    OBVIOUS
  <1>1. CASE RobotsNext
    BY <1>1, UserAgentKeeps, RuleLineKeeps, SkippedKeeps DEF RobotsNext
  <1>2. CASE UNCHANGED robotsFileVars
    BY <1>2 DEF RobotsInv, RobotsType, robotsFileVars
  <1> QED BY <1>1, <1>2

\* The lines say of the file what the groups do.
LEMMA OurRulesAreBest ==
    ASSUME RobotsInv, NEW b \in ABest, BestOf(b, AllClaims(groups, Len(groups))), NEW r \in RuleLines
    PROVE  r \in ToSet(b.rules) <=> r \in OurRules
  <1>1. PICK H, n : H = AllClaims(groups, Len(groups)) /\ n = Len(groups)
    OBVIOUS
  <1>2. n \in Nat /\ DOMAIN groups = 1..n /\ DOMAIN text = 1..Len(text) /\ Len(text) \in Nat
    BY <1>1, LenProperties DEF RobotsInv, RobotsType
  <1>3. /\ Len(Tokens) \in Nat /\ DOMAIN Tokens = 1..Len(Tokens) /\ Nobody \in Nat /\ Nobody = Len(Tokens) + 1
        /\ \A t \in DOMAIN Tokens : Tokens[t] \in ToSet(Tokens) /\ Rank(Tokens[t]) = t
    BY RankIs DEF Nobody
  <1>4. BestOf(b, H) /\ b.rank \in 1..Nobody
    BY <1>1 DEF ABest
  <1>5. ASSUME NEW x \in H
        PROVE  \E g \in 1..n : \E i \in DOMAIN groups[g].agents : x.rank = Rank(groups[g].agents[i]) /\ x.rules = ToSet(groups[g].rules)
    BY <1>1, <1>5 DEF AllClaims, Claims, ClaimOf
  <1>6. ASSUME NEW g \in 1..n, NEW a \in ToSet(groups[g].agents)
        PROVE  \E x \in H : x.rank = Rank(a) /\ x.rules = ToSet(groups[g].rules)
    <2>1. PICK i \in DOMAIN groups[g].agents : groups[g].agents[i] = a
      BY <1>6 DEF ToSet
    <2>2. PICK x : x = ClaimOf(a, groups[g].rules)
      OBVIOUS
    <2>3. x \in H /\ x.rank = Rank(a) /\ x.rules = ToSet(groups[g].rules)
      BY <1>1, <2>1, <2>2 DEF AllClaims, Claims, ClaimOf
    <2> QED BY <2>3
  <1>7. ASSUME NEW t \in DOMAIN Tokens PROVE (\E x \in H : x.rank = t) <=> NamesUs(t) # {}
    <2>1. ASSUME NEW x \in H, x.rank = t PROVE NamedIn(groups, Tokens[t])
      <3>1. PICK g \in 1..n : \E i \in DOMAIN groups[g].agents : x.rank = Rank(groups[g].agents[i]) /\ x.rules = ToSet(groups[g].rules)
        BY <1>5
      <3>2. PICK i \in DOMAIN groups[g].agents : x.rank = Rank(groups[g].agents[i])
        BY <3>1
      <3>3. PICK a : a = groups[g].agents[i]
        OBVIOUS
      <3>4. Rank(a) = t /\ t # Nobody
        BY <1>3, <2>1, <3>2, <3>3
      <3>5. a = Tokens[t] /\ a \in ToSet(groups[g].agents)
        BY <3>2, <3>3, <3>4, RankIs DEF ToSet
      <3> QED BY <1>2, <3>5 DEF NamedIn
    <2>2. ASSUME NamedIn(groups, Tokens[t]) PROVE \E x \in H : x.rank = t
      <3>1. PICK g \in 1..n : Tokens[t] \in ToSet(groups[g].agents)
        BY <1>2, <2>2 DEF NamedIn
      <3> QED BY <1>3, <1>6, <3>1
    <2>3. NamedIn(groups, Tokens[t]) <=> AskedIn(text, Tokens[t])
      BY <1>3 DEF RobotsInv, Agrees
    <2>4. AskedIn(text, Tokens[t]) <=> NamesUs(t) # {}
      BY DEF AskedIn, Asks, Agent, NamesUs, IsAgent
    <2> QED BY <2>1, <2>2, <2>3, <2>4
  <1>8. ASSUME NEW t \in DOMAIN Tokens PROVE (\E x \in H : x.rank = t /\ r \in x.rules) <=> RulesIn(text, Tokens[t], r)
    <2>1. ASSUME NEW x \in H, x.rank = t, r \in x.rules PROVE RuledIn(groups, Tokens[t], r)
      <3>1. PICK g \in 1..n : \E i \in DOMAIN groups[g].agents : x.rank = Rank(groups[g].agents[i]) /\ x.rules = ToSet(groups[g].rules)
        BY <1>5
      <3>2. PICK i \in DOMAIN groups[g].agents : x.rank = Rank(groups[g].agents[i]) /\ x.rules = ToSet(groups[g].rules)
        BY <3>1
      <3>3. PICK a : a = groups[g].agents[i]
        OBVIOUS
      <3>4. Rank(a) = t /\ t # Nobody
        BY <1>3, <2>1, <3>2, <3>3
      <3>5. a = Tokens[t] /\ a \in ToSet(groups[g].agents)
        BY <3>2, <3>3, <3>4, RankIs DEF ToSet
      <3> QED BY <1>2, <2>1, <3>2, <3>5 DEF RuledIn
    <2>2. ASSUME RuledIn(groups, Tokens[t], r) PROVE \E x \in H : x.rank = t /\ r \in x.rules
      <3>1. PICK g \in 1..n : Tokens[t] \in ToSet(groups[g].agents) /\ r \in ToSet(groups[g].rules)
        BY <1>2, <2>2 DEF RuledIn
      <3>2. PICK x \in H : x.rank = Rank(Tokens[t]) /\ x.rules = ToSet(groups[g].rules)
        BY <1>6, <3>1
      <3> QED BY <1>3, <3>1, <3>2
    <2>3. RuledIn(groups, Tokens[t], r) <=> RulesIn(text, Tokens[t], r)
      BY <1>3 DEF RobotsInv, Agrees
    <2> QED BY <2>1, <2>2, <2>3
  <1>9. CASE ~\E t \in DOMAIN Tokens : NamesUs(t) # {}
    <2>1. b.rank = Nobody
      <3>1. ASSUME b.rank # Nobody PROVE FALSE
        <4>1. b.rank \in DOMAIN Tokens /\ \E x \in H : x.rank = b.rank
          BY <1>3, <1>4, <3>1 DEF BestOf
        <4> QED BY <1>7, <1>9, <4>1
      <3> QED BY <3>1
    <2>2. OurRules = {}
      BY <1>9 DEF OurRules
    <2> QED BY <1>4, <2>1, <2>2 DEF BestOf
  <1>10. CASE \E t \in DOMAIN Tokens : NamesUs(t) # {}
    <2>1. PICK t \in DOMAIN Tokens : NamesUs(t) # {}
      BY <1>10
    <2>2. PICK x \in H : x.rank = t
      BY <1>7, <2>1
    <2>3. b.rank # Nobody /\ b.rank \in DOMAIN Tokens
      BY <1>3, <1>4, <2>2 DEF BestOf
    <2>4. PICK o : o = b.rank
      OBVIOUS
    <2>5. NamesUs(o) # {}
      BY <1>4, <1>7, <2>3, <2>4 DEF BestOf
    <2>6. ASSUME NEW u \in DOMAIN Tokens, u < o PROVE NamesUs(u) = {}
      <3>1. ASSUME NamesUs(u) # {} PROVE FALSE
        <4>1. PICK y \in H : y.rank = u
          BY <1>7, <3>1
        <4> QED BY <1>3, <1>4, <2>3, <2>4, <2>6, <4>1 DEF BestOf
      <3> QED BY <3>1
    <2>7. o \in DOMAIN Tokens /\ \A u \in 1..(o - 1) : NamesUs(u) = {}
      <3>1. \A u \in 1..(o - 1) : u \in DOMAIN Tokens /\ u < o
        BY <1>3, <2>3, <2>4
      <3> QED BY <2>3, <2>4, <2>6, <3>1
    <2>8. PICK p : p = OurToken
      OBVIOUS
    <2>9. p \in DOMAIN Tokens /\ NamesUs(p) # {} /\ \A u \in 1..(p - 1) : NamesUs(u) = {}
      BY <2>5, <2>7, <2>8 DEF OurToken
    <2>10. p = o
      <3>1. CASE p < o
        BY <2>6, <2>9, <3>1
      <3>2. CASE o < p
        <4>1. o \in 1..(p - 1)
          BY <1>3, <2>7, <2>9, <3>2
        <4> QED BY <2>5, <2>9, <4>1
      <3> QED BY <1>3, <2>7, <2>9, <3>1, <3>2
    <2>11. r \in OurRules <=> \E k \in DOMAIN text : IsRule(k) /\ r = text[k] /\ \E m \in NamesUs(o) : Addresses(m, k)
      BY <1>10, <2>8, <2>10 DEF OurRules
    <2>12. (\E k \in DOMAIN text : IsRule(k) /\ r = text[k] /\ \E m \in NamesUs(o) : Addresses(m, k)) <=> RulesIn(text, Tokens[o], r)
      <3>1. NamesUs(o) = Asks(text, Tokens[o])
        BY DEF NamesUs, Asks, IsAgent, Agent
      <3>2. \A m, k : Addresses(m, k) <=> Addr(text, m, k)
        BY DEF Addresses, Addr, IsAgent, Agent, IsRule, Ruled
      <3>3. \A k \in DOMAIN text : r = text[k] => IsRule(k)
        BY RuleIs DEF IsRule
      <3> QED BY <3>1, <3>2, <3>3 DEF RulesIn
    <2>13. r \in ToSet(b.rules) <=> \E y \in H : y.rank = o /\ r \in y.rules
      BY <1>4, <2>3, <2>4 DEF BestOf
    <2> QED BY <1>8, <2>3, <2>4, <2>11, <2>12, <2>13
  <1> QED BY <1>9, <1>10

\* So the verdict is the standard's.
LEMMA RobotsInvSays == RobotsInv => VerdictIsTheStandards
  <1> SUFFICES ASSUME RobotsInv, NEW path \in Paths
               PROVE  LET matched == {rule \in OurRules : <<rule.value, path>> \in Matching}
                      IN  isPathAllowed(rulesFor(groups), path) <=> Refuted(matched)
    BY DEF VerdictIsTheStandards, Refuted
  <1>1. groups \in Seq(AGroup) /\ text \in Seq(FileLines)
    BY DEF RobotsInv, RobotsType
  <1>2. PICK b \in ABest : BestOf(b, AllClaims(groups, Len(groups))) /\ rulesFor(groups) = b.rules
    BY <1>1, RulesAreBest
  <1>3. PICK q, M, R : /\ q = rulesFor(groups) /\ M = {rule \in OurRules : <<rule.value, path>> \in Matching}
                       /\ R = {rule \in ToSet(q) : <<rule.value, path>> \in Matching}
    OBVIOUS
  <1>4. q \in Seq(RuleLines) /\ q = b.rules
    BY <1>2, <1>3 DEF ABest
  <1>5. isPathAllowed(q, path) <=> Refuted(R)
    BY <1>3, <1>4, AllowedWhenRefuted
  <1>6. \A rule \in ToSet(q) : rule \in RuleLines
    <2>1. \A i \in DOMAIN q : q[i] \in RuleLines
      BY <1>4, LenProperties, ElementOfSeq
    <2> QED BY <2>1 DEF ToSet
  <1>7. ASSUME NEW rule \in OurRules, <<rule.value, path>> \in Matching PROVE rule \in RuleLines
    <2>1. PICK k \in DOMAIN text : IsRule(k) /\ rule = text[k]
      BY DEF OurRules
    <2>2. text[k] \in FileLines
      BY <1>1, LenProperties, ElementOfSeq
    <2>3. rule.value \in Patterns
      BY <1>7 DEF Matching
    <2>4. rule.value # <<>>
      <3>1. Len(rule.value) # 0
        BY <2>3, RobotsConstants
      <3> QED BY <3>1
    <2> QED BY <2>1, <2>2, <2>4, FileLineIs DEF IsRule
  <1>8. \A rule \in RuleLines : rule \in ToSet(q) <=> rule \in OurRules
    BY <1>2, <1>4, OurRulesAreBest
  <1>9. M = R
    BY <1>3, <1>6, <1>7, <1>8
  <1> QED BY <1>3, <1>5, <1>9

\* What the parser and the choice of a rule say of a path is what the lines of the file say, for every
\* file, names, patterns and paths (isPathAllowed after parseRobots).
THEOREM VerdictIsTheStandardsHolds == RobotsSpec => []VerdictIsTheStandards
  <1>1. RobotsSpec => []RobotsInv
    BY RobotsInitially, RobotsStep, PTL DEF RobotsSpec
  <1> QED BY <1>1, RobotsInvSays, PTL

-----------------------------------------------------------------------------
(* The tabs of the catalogue are those of its cards: every list is made by *)
(* adding what it does not hold, and holds what was added, once            *)

Unrepeated(s) == \A i, j \in DOMAIN s : i # j => s[i] # s[j]
AddsTo(u, X, list, A) == u \in Seq(X) /\ ToSet(u) = ToSet(list) \cup A /\ (Unrepeated(list) => Unrepeated(u))

\* What is in a list of a kind is of the kind.
LEMMA ToSetInKind ==
    ASSUME NEW X, NEW s \in Seq(X)
    PROVE  ToSet(s) \subseteq X /\ (s # <<>> => ToSet(s) # {})
  BY LenProperties, EmptySeq, ElementOfSeq DEF ToSet

\* A list of what is picked for the places of another.
LEMMA ListOf ==
    ASSUME NEW n \in Nat, NEW X, NEW s, DOMAIN s = 1..n, s = [i \in 1..n |-> s[i]], \A i \in 1..n : s[i] \in X
    PROVE  s \in Seq(X) /\ Len(s) = n
  <1>1. s \in [1..n -> X]
    OBVIOUS
  <1>2. s \in Seq(X)
    BY <1>1, SeqDef
  <1> QED BY <1>2, LenProperties

\* One more is added.
LEMMA AddNewAdds ==
    ASSUME NEW X, NEW list \in Seq(X), NEW x \in X, NEW u, u = AddNew(list, x)
    PROVE  AddsTo(u, X, list, {x})
  <1>1. Len(list) \in Nat /\ DOMAIN list = 1..Len(list)
    BY LenProperties
  <1>2. CASE Contains(list, x)
    <2>1. u = list /\ x \in ToSet(list)
      BY <1>1, <1>2 DEF AddNew, Contains, ToSet
    <2> QED BY <2>1 DEF AddsTo
  <1>3. CASE ~Contains(list, x)
    <2>1. u = Append(list, x) /\ \A i \in DOMAIN list : list[i] # x
      BY <1>1, <1>3 DEF AddNew, Contains
    <2>2. u \in Seq(X) /\ OneMore(list, u, x)
      BY <2>1, AppendIsOneMore
    <2>3. ToSet(u) = ToSet(list) \cup {x}
      BY <2>2 DEF ToSet, OneMore
    <2>4. Unrepeated(list) => Unrepeated(u)
      <3> SUFFICES ASSUME Unrepeated(list), NEW i \in DOMAIN u, NEW j \in DOMAIN u, i # j PROVE u[i] # u[j]
        BY DEF Unrepeated
      <3>1. CASE i \in DOMAIN list /\ j \in DOMAIN list
        BY <2>2, <3>1 DEF Unrepeated, OneMore
      <3>2. CASE i \in DOMAIN list /\ j \notin DOMAIN list
        <4>1. j = Len(list) + 1
          BY <2>2, <3>2 DEF OneMore
        <4> QED BY <2>1, <2>2, <3>2, <4>1 DEF OneMore
      <3>3. CASE i \notin DOMAIN list
        <4>1. i = Len(list) + 1 /\ j \in DOMAIN list
          BY <2>2, <3>3 DEF OneMore
        <4> QED BY <2>1, <2>2, <4>1 DEF OneMore
      <3> QED BY <3>1, <3>2, <3>3
    <2> QED BY <2>2, <2>3, <2>4 DEF AddsTo
  <1> QED BY <1>2, <1>3

AddRun(g, n, X, list, more) ==
    g \in [0..n -> Seq(X)] /\ g[0] = list /\ \A k \in 1..n : g[k] = AddNew(g[k - 1], more[k])

\* A list is added one by one.
LEMMA AddRuns ==
    ASSUME NEW X, NEW list \in Seq(X), NEW more \in Seq(X)
    PROVE  \E g : AddRun(g, Len(more), X, list, more) /\ AddAll(list, more) = g[Len(more)]
  <1>1. PICK n : n = Len(more)
    OBVIOUS
  <1>2. n \in Nat /\ DOMAIN more = 1..n /\ \A k \in 1..n : more[k] \in X
    BY <1>1, LenProperties, ElementOfSeq
  <1> DEFINE step == [z \in Seq(X) \X (1..n) |-> AddNew(z[1], more[z[2]])]
             Is(iter) == iter = [t \in SUBSET (1..n) |-> IF t = {} THEN list ELSE AddNew(iter[t \ {Max(t)}], more[Max(t)])]
             h == CHOOSE iter : Is(iter)
  <1>3. \A s \in Seq(X), k \in 1..n : AddNew(s, more[k]) \in Seq(X)
    BY <1>2, AddNewAdds DEF AddsTo
  <1>4. step \in [Seq(X) \X (1..n) -> Seq(X)] /\ \A s \in Seq(X), k \in 1..n : step[<<s, k>>] = AddNew(s, more[k])
    BY <1>3
  <1>5. AddAll(list, more) = h[1..n]
    BY <1>1, <1>2 DEF AddAll, FoldLeft, MapThenFoldSet
  <1>6. PICK z : z = step
    OBVIOUS
  <1> HIDE DEF step
  <1>7. PICK f : Folder(f, n, Seq(X), list, z)
    BY <1>2, <1>4, <1>6, FolderExists
  <1>8. ASSUME NEW t \in SUBSET (1..n), t # {} PROVE Max(t) \in 1..n /\ t \ {Max(t)} \in SUBSET (1..n)
    BY <1>2, <1>8, MaxIs
  <1>9. Is(f)
    <2>1. DOMAIN f = SUBSET (1..n) /\ f = [t \in SUBSET (1..n) |-> f[t]]
      BY <1>7 DEF Folder
    <2>2. ASSUME NEW t \in SUBSET (1..n) PROVE f[t] = IF t = {} THEN list ELSE AddNew(f[t \ {Max(t)}], more[Max(t)])
      <3>1. CASE t = {}
        BY <1>7, <3>1 DEF Folder
      <3>2. CASE t # {}
        <4>1. f[t \ {Max(t)}] \in Seq(X) /\ Max(t) \in 1..n
          BY <1>7, <1>8, <3>2 DEF Folder
        <4>2. f[t] = z[<<f[t \ {Max(t)}], Max(t)>>]
          BY <1>7, <3>2 DEF Folder
        <4> QED BY <1>4, <1>6, <3>2, <4>1, <4>2
      <3> QED BY <3>1, <3>2
    <2> QED BY <2>1, <2>2
  <1>10. Is(h)
    <2> HIDE DEF Is
    <2> QED BY <1>9
  <1>11. PICK e : e = h
    OBVIOUS
  <1>12. PICK g : Loop(g, n, Seq(X), list, z) /\ g[n] = e[1..n]
    <2>1. e = [t \in SUBSET (1..n) |-> IF t = {} THEN list ELSE AddNew(e[t \ {Max(t)}], more[Max(t)])]
      BY <1>10, <1>11
    <2>2. e[{}] = list
      BY <2>1
    <2>3. ASSUME NEW t \in SUBSET (1..n), t # {}, e[t \ {Max(t)}] \in Seq(X) PROVE e[t] = z[<<e[t \ {Max(t)}], Max(t)>>]
      <3>1. e[t] = AddNew(e[t \ {Max(t)}], more[Max(t)])
        BY <2>1, <2>3
      <3> QED BY <1>4, <1>6, <1>8, <2>3, <3>1
    <2>4. Folds(e, n, Seq(X), list, z)
      BY <2>2, <2>3 DEF Folds
    <2>5. z \in [Seq(X) \X (1..n) -> Seq(X)]
      BY <1>4, <1>6
    <2>6. PICK v : v = e[1..n]
      OBVIOUS
    <2> HIDE DEF h, Is
    <2>7. Looped(v, n, Seq(X), list, z)
      BY <1>2, <2>4, <2>5, <2>6, FoldRuns
    <2> QED BY <2>6, <2>7 DEF Looped
  <1>13. AddRun(g, n, X, list, more)
    <2>1. g \in [0..n -> Seq(X)] /\ g[0] = list /\ \A k \in 1..n : g[k] = z[<<g[k - 1], k>>]
      BY <1>12 DEF Loop
    <2>2. ASSUME NEW k \in 1..n PROVE g[k] = AddNew(g[k - 1], more[k])
      <3>1. g[k - 1] \in Seq(X)
        BY <1>2, <2>1
      <3> QED BY <1>4, <1>6, <2>1, <3>1
    <2> QED BY <2>1, <2>2 DEF AddRun
  <1> HIDE DEF h, Is
  <1> QED BY <1>1, <1>5, <1>11, <1>12, <1>13

\* Adding one thing after another.
LEMMA AddsTwice ==
    ASSUME NEW X, NEW list, NEW s, NEW u, NEW A, NEW B, AddsTo(s, X, list, A), AddsTo(u, X, s, B)
    PROVE  AddsTo(u, X, list, A \cup B)
  BY DEF AddsTo

\* A list holds what was added to it, once.
LEMMA AddAllAdds ==
    ASSUME NEW X, NEW list \in Seq(X), NEW more \in Seq(X), NEW u, u = AddAll(list, more)
    PROVE  AddsTo(u, X, list, ToSet(more))
  <1>1. PICK n : n = Len(more)
    OBVIOUS
  <1>2. n \in Nat /\ DOMAIN more = 1..n /\ \A k \in 1..n : more[k] \in X
    BY <1>1, LenProperties, ElementOfSeq
  <1>3. PICK g : AddRun(g, n, X, list, more) /\ u = g[n]
    BY <1>1, AddRuns
  <1> DEFINE A(k) == {more[i] : i \in 1..k}
             S == {k \in 0..n : AddsTo(g[k], X, list, A(k))}
  <1>4. 0 \in S
    <2>1. A(0) = {} /\ g[0] = list
      BY <1>3 DEF AddRun
    <2> QED BY <1>2, <2>1 DEF AddsTo
  <1>5. ASSUME NEW k \in 1..n, k - 1 \in S PROVE k \in S
    <2>1. PICK s, v, x : s = g[k - 1] /\ v = g[k] /\ x = more[k]
      OBVIOUS
    <2>2. s \in Seq(X) /\ x \in X /\ v = AddNew(s, x) /\ AddsTo(s, X, list, A(k - 1))
      BY <1>2, <1>3, <1>5, <2>1 DEF AddRun
    <2>3. AddsTo(v, X, s, {x})
      BY <2>2, AddNewAdds
    <2>4. A(k) = A(k - 1) \cup {x}
      <3>1. 1..k = (1..(k - 1)) \cup {k}
        BY <1>2
      <3> QED BY <2>1, <3>1
    <2>5. PICK L, M : L = A(k - 1) /\ M = A(k)
      OBVIOUS
    <2> HIDE DEF A
    <2>6. AddsTo(v, X, list, L \cup {x})
      BY <2>2, <2>3, <2>5, AddsTwice
    <2>7. AddsTo(v, X, list, M)
      BY <2>4, <2>5, <2>6
    <2>8. AddsTo(g[k], X, list, A(k)) /\ k \in 0..n
      BY <1>2, <2>1, <2>5, <2>7
    <2> QED BY <2>8
  <1>6. n \in S
    <2> HIDE DEF S
    <2>1. \A k \in 0..n : k \in S
      BY <1>2, <1>4, <1>5, UpTo
    <2> QED BY <1>2, <2>1
  <1>7. A(n) = ToSet(more)
    BY <1>2 DEF ToSet
  <1> QED BY <1>3, <1>6, <1>7
AllOf(lists) == UNION {ToSet(lists[i]) : i \in DOMAIN lists}
EachRun(g, n, X, list, lists) ==
    g \in [0..n -> Seq(X)] /\ g[0] = list /\ \A k \in 1..n : g[k] = AddAll(g[k - 1], lists[k])

\* Lists are added list by list.
LEMMA EachRuns ==
    ASSUME NEW X, NEW list \in Seq(X), NEW lists \in Seq(Seq(X))
    PROVE  \E g : EachRun(g, Len(lists), X, list, lists) /\ AddEach(list, lists) = g[Len(lists)]
  <1>1. PICK n : n = Len(lists)
    OBVIOUS
  <1>2. n \in Nat /\ DOMAIN lists = 1..n /\ \A k \in 1..n : lists[k] \in Seq(X)
    BY <1>1, LenProperties, ElementOfSeq
  <1> DEFINE step == [z \in Seq(X) \X (1..n) |-> AddAll(z[1], lists[z[2]])]
             Is(iter) == iter = [t \in SUBSET (1..n) |-> IF t = {} THEN list ELSE AddAll(iter[t \ {Max(t)}], lists[Max(t)])]
             h == CHOOSE iter : Is(iter)
  <1>3. \A s \in Seq(X), k \in 1..n : AddAll(s, lists[k]) \in Seq(X)
    BY <1>2, AddAllAdds DEF AddsTo
  <1>4. step \in [Seq(X) \X (1..n) -> Seq(X)] /\ \A s \in Seq(X), k \in 1..n : step[<<s, k>>] = AddAll(s, lists[k])
    BY <1>3
  <1>5. AddEach(list, lists) = h[1..n]
    BY <1>1, <1>2 DEF AddEach, FoldLeft, MapThenFoldSet
  <1>6. PICK z : z = step
    OBVIOUS
  <1> HIDE DEF step
  <1>7. PICK f : Folder(f, n, Seq(X), list, z)
    BY <1>2, <1>4, <1>6, FolderExists
  <1>8. ASSUME NEW t \in SUBSET (1..n), t # {} PROVE Max(t) \in 1..n /\ t \ {Max(t)} \in SUBSET (1..n)
    BY <1>2, <1>8, MaxIs
  <1>9. Is(f)
    <2>1. DOMAIN f = SUBSET (1..n) /\ f = [t \in SUBSET (1..n) |-> f[t]]
      BY <1>7 DEF Folder
    <2>2. ASSUME NEW t \in SUBSET (1..n) PROVE f[t] = IF t = {} THEN list ELSE AddAll(f[t \ {Max(t)}], lists[Max(t)])
      <3>1. CASE t = {}
        BY <1>7, <3>1 DEF Folder
      <3>2. CASE t # {}
        <4>1. f[t \ {Max(t)}] \in Seq(X) /\ Max(t) \in 1..n
          BY <1>7, <1>8, <3>2 DEF Folder
        <4>2. f[t] = z[<<f[t \ {Max(t)}], Max(t)>>]
          BY <1>7, <3>2 DEF Folder
        <4> QED BY <1>4, <1>6, <3>2, <4>1, <4>2
      <3> QED BY <3>1, <3>2
    <2> QED BY <2>1, <2>2
  <1>10. Is(h)
    <2> HIDE DEF Is
    <2> QED BY <1>9
  <1>11. PICK e : e = h
    OBVIOUS
  <1>12. PICK g : Loop(g, n, Seq(X), list, z) /\ g[n] = e[1..n]
    <2>1. e = [t \in SUBSET (1..n) |-> IF t = {} THEN list ELSE AddAll(e[t \ {Max(t)}], lists[Max(t)])]
      BY <1>10, <1>11
    <2>2. e[{}] = list
      BY <2>1
    <2>3. ASSUME NEW t \in SUBSET (1..n), t # {}, e[t \ {Max(t)}] \in Seq(X) PROVE e[t] = z[<<e[t \ {Max(t)}], Max(t)>>]
      <3>1. e[t] = AddAll(e[t \ {Max(t)}], lists[Max(t)])
        BY <2>1, <2>3
      <3> QED BY <1>4, <1>6, <1>8, <2>3, <3>1
    <2>4. Folds(e, n, Seq(X), list, z)
      BY <2>2, <2>3 DEF Folds
    <2>5. z \in [Seq(X) \X (1..n) -> Seq(X)]
      BY <1>4, <1>6
    <2>6. PICK v : v = e[1..n]
      OBVIOUS
    <2> HIDE DEF h, Is
    <2>7. Looped(v, n, Seq(X), list, z)
      BY <1>2, <2>4, <2>5, <2>6, FoldRuns
    <2> QED BY <2>6, <2>7 DEF Looped
  <1>13. EachRun(g, n, X, list, lists)
    <2>1. g \in [0..n -> Seq(X)] /\ g[0] = list /\ \A k \in 1..n : g[k] = z[<<g[k - 1], k>>]
      BY <1>12 DEF Loop
    <2>2. ASSUME NEW k \in 1..n PROVE g[k] = AddAll(g[k - 1], lists[k])
      <3>1. g[k - 1] \in Seq(X)
        BY <1>2, <2>1
      <3> QED BY <1>4, <1>6, <2>1, <3>1
    <2> QED BY <2>1, <2>2 DEF EachRun
  <1> HIDE DEF h, Is
  <1> QED BY <1>1, <1>5, <1>11, <1>12, <1>13

\* So it is when lists are added.
LEMMA AddEachAdds ==
    ASSUME NEW X, NEW list \in Seq(X), NEW lists \in Seq(Seq(X)), NEW u, u = AddEach(list, lists)
    PROVE  AddsTo(u, X, list, AllOf(lists))
  <1>1. PICK n : n = Len(lists)
    OBVIOUS
  <1>2. n \in Nat /\ DOMAIN lists = 1..n /\ \A k \in 1..n : lists[k] \in Seq(X)
    BY <1>1, LenProperties, ElementOfSeq
  <1>3. PICK g : EachRun(g, n, X, list, lists) /\ u = g[n]
    BY <1>1, EachRuns
  <1> DEFINE A(k) == UNION {ToSet(lists[i]) : i \in 1..k}
             S == {k \in 0..n : AddsTo(g[k], X, list, A(k))}
  <1>4. 0 \in S
    <2>1. A(0) = {} /\ g[0] = list
      BY <1>3 DEF EachRun
    <2> QED BY <1>2, <2>1 DEF AddsTo
  <1>5. ASSUME NEW k \in 1..n, k - 1 \in S PROVE k \in S
    <2>1. PICK s, v, x : s = g[k - 1] /\ v = g[k] /\ x = lists[k]
      OBVIOUS
    <2>2. s \in Seq(X) /\ x \in Seq(X) /\ v = AddAll(s, x) /\ AddsTo(s, X, list, A(k - 1))
      BY <1>2, <1>3, <1>5, <2>1 DEF EachRun
    <2>3. AddsTo(v, X, s, ToSet(x))
      BY <2>2, AddAllAdds
    <2>4. A(k) = A(k - 1) \cup ToSet(x)
      <3>1. 1..k = (1..(k - 1)) \cup {k}
        BY <1>2
      <3> QED BY <2>1, <3>1
    <2>5. PICK L, M : L = A(k - 1) /\ M = A(k)
      OBVIOUS
    <2> HIDE DEF A
    <2>6. AddsTo(v, X, list, L \cup ToSet(x))
      BY <2>2, <2>3, <2>5, AddsTwice
    <2>7. AddsTo(v, X, list, M)
      BY <2>4, <2>5, <2>6
    <2>8. AddsTo(g[k], X, list, A(k)) /\ k \in 0..n
      BY <1>2, <2>1, <2>5, <2>7
    <2> QED BY <2>8
  <1>6. n \in S
    <2> HIDE DEF S
    <2>1. \A k \in 0..n : k \in S
      BY <1>2, <1>4, <1>5, UpTo
    <2> QED BY <1>2, <2>1
  <1>7. A(n) = AllOf(lists)
    BY <1>2 DEF AllOf
  <1> QED BY <1>3, <1>6, <1>7

\* What is picked from a list, and a list of one thing.
LEMMA FirstOfLists ==
    ASSUME NEW X, NEW list \in Seq(X), NEW at \in 0..Len(list)
    PROVE  FirstOf(list, at) \in Seq(X)
  <1>1. CASE at = 0
    BY <1>1, EmptySeq DEF FirstOf
  <1>2. CASE at # 0
    <2>1. Len(list) \in Nat /\ at \in 1..Len(list)
      BY <1>2, LenProperties
    <2>2. PICK s : s = <<list[at]>>
      OBVIOUS
    <2>3. list[at] \in X /\ s = [i \in 1..1 |-> s[i]] /\ DOMAIN s = 1..1 /\ s[1] = list[at]
      BY <2>1, <2>2, ElementOfSeq
    <2>4. s \in Seq(X)
      BY <2>3, ListOf
    <2> QED BY <1>2, <2>2, <2>4 DEF FirstOf
  <1> QED BY <1>1, <1>2

\* The names looked for are found among those present, or not at all.
LEMMA HitsArePresent ==
    ASSUME NEW X, NEW shelf \in Seq(X), NEW slug
    PROVE  Exactly(slug, shelf) \in Seq(X) /\ Loosely(slug, shelf) \in Seq(X)
  <1>1. PICK n : n = Len(shelf)
    OBVIOUS
  <1>2. n \in Nat
    BY <1>1, LenProperties
  <1> DEFINE E == {i \in 1..n : shelf[i].slug = slug}
             L == {i \in 1..n : Singular(shelf[i].slug) = Singular(slug)}
  <1>3. ASSUME NEW S \in SUBSET (1..n), S # {} PROVE Min(S) \in 1..n
    <2>1. n + 1 \in Nat /\ S \in SUBSET (0..((n + 1) - 1))
      BY <1>2
    <2>2. Min(S) \in S
      BY <1>3, <2>1, EndsOfLines
    <2> QED BY <2>2
  <1>4. PICK at : at = IF E # {} THEN Min(E) ELSE 0
    OBVIOUS
  <1>5. PICK near : near = IF L # {} THEN Min(L) ELSE 0
    OBVIOUS
  <1>6. Exactly(slug, shelf) = FirstOf(shelf, at) /\ Loosely(slug, shelf) = FirstOf(shelf, near)
    BY <1>1, <1>4, <1>5 DEF Exactly, Loosely, SelectInSeq
  <1>7. E \in SUBSET (1..n) /\ L \in SUBSET (1..n)
    OBVIOUS
  <1> HIDE DEF E, L
  <1>8. at \in 0..n /\ near \in 0..n
    BY <1>2, <1>3, <1>4, <1>5, <1>7
  <1> QED BY <1>1, <1>6, <1>8, FirstOfLists

\* The things of a finite set in a list.
LEMMA ListOfSet ==
    ASSUME NEW S, IsFiniteSet(S), NEW u, u = SetToSeq(S)
    PROVE  u \in Seq(S) /\ ToSet(u) = S
  <1>1. PICK n : n = Cardinality(S)
    OBVIOUS
  <1>2. n \in Nat /\ ExistsBijection(1..n, S)
    BY <1>1, FS_CardinalityType
  <1>3. PICK f : f \in Bijection(1..n, S)
    BY <1>2 DEF ExistsBijection
  <1>4. f \in [1..n -> S] /\ IsInjective(f)
    BY <1>3 DEF Bijection, Injection, IsInjective
  <1>5. u \in [1..n -> S] /\ IsInjective(u)
    BY <1>1, <1>4 DEF SetToSeq
  <1>6. u \in Injection(1..n, S) /\ IsFiniteSet(1..n) /\ Cardinality(1..n) = n
    <2>1. u \in Injection(1..n, S)
      BY <1>5 DEF Injection, IsInjective
    <2> QED BY <1>2, <2>1, FS_Interval
  <1>7. u \in Surjection(1..n, S)
    BY <1>1, <1>6, FS_Injection
  <1>8. DOMAIN u = 1..n /\ ToSet(u) = S
    BY <1>5, <1>7 DEF Surjection, ToSet
  <1> QED BY <1>2, <1>5, <1>8, SeqDef

\* A list holds finitely many things.
LEMMA ListIsFinite ==
    ASSUME NEW X, NEW s \in Seq(X)
    PROVE  IsFiniteSet(ToSet(s))
  <1>1. PICK n : n = Len(s)
    OBVIOUS
  <1>2. n \in Nat /\ s \in [1..n -> X] /\ DOMAIN s = 1..n
    BY <1>1, LenProperties
  <1>3. s \in Surjection(1..n, ToSet(s)) /\ IsFiniteSet(1..n)
    <2>1. s \in [1..n -> ToSet(s)]
      BY <1>2 DEF ToSet
    <2>2. \A x \in ToSet(s) : \E i \in 1..n : s[i] = x
      BY <1>2 DEF ToSet
    <2> QED BY <1>2, <2>1, <2>2, FS_Interval DEF Surjection
  <1> QED BY <1>3, FS_Surjection

-----------------------------------------------------------------------------
\* The slugs of names, of all the rugs, and of entries.
SlugsOf(names, rows) == {collectionSlug(n, rows) : n \in ToSet(names)}
Filed(rugs, n) == n \in Nat /\ DOMAIN rugs = 1..n /\ \A i \in 1..n : rugs[i].names \in Seq(CollectionNames)
AllSlugs(rugs, n, rows) == UNION {SlugsOf(Named(rugs[i]), rows) : i \in 1..n}
SlugsIn(list) == {p.slug : p \in ToSet(list)}

\* A rug is under a name or more.
LEMMA NamedIsAList ==
    ASSUME NEW rug, rug.names \in Seq(CollectionNames)
    PROVE  Named(rug) \in Seq(CollectionNames) /\ Named(rug) # <<>> /\ ToSet(Named(rug)) # {}
  <1>1. PICK s : s = <<Unfiled>>
    OBVIOUS
  <1>2. Unfiled \in CollectionNames
    BY DEF CollectionNames
  <1>3. s = [i \in 1..1 |-> s[i]] /\ DOMAIN s = 1..1 /\ s[1] = Unfiled
    BY <1>1
  <1>4. s \in Seq(CollectionNames) /\ Len(s) = 1
    BY <1>2, <1>3, ListOf
  <1>5. s # <<>>
    BY <1>3
  <1>6. Named(rug) \in Seq(CollectionNames) /\ Named(rug) # <<>>
    BY <1>1, <1>4, <1>5 DEF Named
  <1> QED BY <1>6, ToSetInKind

\* A name is under the same slug as it is shown.
LEMMA ShownUnderItsSlug ==
    ASSUME NEW name \in CollectionNames, NEW rows
    PROVE  /\ displayCollection(name) \in CollectionNames
           /\ collectionSlug(displayCollection(name), rows) = collectionSlug(name, rows)
  <1>1. displayCollection(name) \in CollectionNames /\ displayCollection(displayCollection(name)) = displayCollection(name)
    <2>1. More # Unfiled /\ More \in CollectionNames
      BY DEF More, Unfiled, CollectionNames
    <2> QED BY <2>1 DEF displayCollection
  <1> QED BY <1>1 DEF collectionSlug

\* The slugs a card carries are those of its names, once each.
LEMMA CarriesItsSlugs ==
    ASSUME NEW rug, rug.names \in Seq(CollectionNames), NEW rows
    PROVE  /\ \E X : collectionSlugs(rug, rows) \in Seq(X)
           /\ ToSet(collectionSlugs(rug, rows)) = SlugsOf(Named(rug), rows)
  <1>1. PICK names : names = Named(rug)
    OBVIOUS
  <1>2. PICK n : n = Len(names)
    OBVIOUS
  <1>3. n \in Nat /\ DOMAIN names = 1..n
    BY <1>1, <1>2, NamedIsAList, LenProperties
  <1>4. PICK more : more = [i \in DOMAIN names |-> collectionSlug(names[i], rows)]
    OBVIOUS
  <1>5. PICK X : X = SlugsOf(names, rows)
    OBVIOUS
  <1>6. ToSet(more) = X
    BY <1>4, <1>5 DEF ToSet, SlugsOf
  <1>7. DOMAIN more = 1..n /\ more = [i \in 1..n |-> more[i]] /\ \A i \in 1..n : more[i] \in X
    BY <1>3, <1>4, <1>6 DEF ToSet
  <1>8. more \in Seq(X) /\ <<>> \in Seq(X)
    BY <1>3, <1>7, ListOf, EmptySeq
  <1>9. PICK u : u = AddAll(<<>>, more)
    OBVIOUS
  <1>10. AddsTo(u, X, <<>>, X)
    BY <1>6, <1>8, <1>9, AddAllAdds
  <1>11. u = collectionSlugs(rug, rows)
    BY <1>1, <1>4, <1>9 DEF collectionSlugs
  <1> QED BY <1>1, <1>5, <1>10, <1>11 DEF AddsTo, ToSet

\* So are those it is counted by.
LEMMA DisplayedAlike ==
    ASSUME NEW rug, rug.names \in Seq(CollectionNames), NEW rows
    PROVE  /\ Displayed(rug).names \in Seq(CollectionNames)
           /\ SlugsOf(Named(Displayed(rug)), rows) = SlugsOf(Named(rug), rows)
  <1>1. PICK names, n : names = Named(rug) /\ n = Len(names)
    OBVIOUS
  <1>2. names \in Seq(CollectionNames) /\ n \in Nat \ {0} /\ DOMAIN names = 1..n /\ \A i \in 1..n : names[i] \in CollectionNames
    BY <1>1, NamedIsAList, LenProperties, EmptySeq, ElementOfSeq
  <1>3. PICK shown : shown = [i \in DOMAIN names |-> displayCollection(names[i])]
    OBVIOUS
  <1>4. DOMAIN shown = 1..n /\ shown = [i \in 1..n |-> shown[i]] /\ \A i \in 1..n : shown[i] \in CollectionNames
    BY <1>2, <1>3, ShownUnderItsSlug
  <1>5. shown \in Seq(CollectionNames) /\ Len(shown) = n
    BY <1>2, <1>4, ListOf
  <1>6. Displayed(rug).names = shown /\ shown # <<>>
    BY <1>1, <1>2, <1>3, <1>5, EmptySeq DEF Displayed
  <1>7. Named(Displayed(rug)) = shown
    BY <1>6 DEF Named
  <1>8. \A i \in 1..n : collectionSlug(shown[i], rows) = collectionSlug(names[i], rows)
    BY <1>2, <1>3, ShownUnderItsSlug
  <1>9. SlugsOf(shown, rows) = {collectionSlug(shown[i], rows) : i \in 1..n}
    BY <1>4 DEF SlugsOf, ToSet
  <1>10. SlugsOf(names, rows) = {collectionSlug(names[i], rows) : i \in 1..n}
    BY <1>2 DEF SlugsOf, ToSet
  <1>11. SlugsOf(shown, rows) = SlugsOf(names, rows)
    BY <1>8, <1>9, <1>10
  <1> QED BY <1>1, <1>5, <1>6, <1>7, <1>11

\* The entries to be placed have the slugs of the names on the rugs.
LEMMA PresentSlugs ==
    ASSUME NEW rugs, NEW n, Filed(rugs, n), NEW rows, NEW shelf, shelf = Present(rugs, rows)
    PROVE  shelf \in Seq(ToSet(shelf)) /\ SlugsIn(shelf) = AllSlugs(rugs, n, rows)
  <1>1. PICK lists : lists = [i \in DOMAIN rugs |-> Named(rugs[i])]
    OBVIOUS
  <1>2. n \in Nat /\ DOMAIN lists = 1..n /\ lists = [i \in 1..n |-> lists[i]] /\ \A i \in 1..n : lists[i] = Named(rugs[i])
    BY <1>1 DEF Filed
  <1>3. \A i \in 1..n : lists[i] \in Seq(CollectionNames)
    BY <1>2, NamedIsAList DEF Filed
  <1>4. PICK Y : Y = Seq(CollectionNames)
    OBVIOUS
  <1>5. lists \in Seq(Y)
    BY <1>2, <1>3, <1>4, ListOf
  <1>6. PICK names : names = AddEach(<<>>, lists)
    OBVIOUS
  <1>7. AddsTo(names, CollectionNames, <<>>, AllOf(lists))
    BY <1>4, <1>5, <1>6, EmptySeq, AddEachAdds
  <1>8. names \in Seq(CollectionNames) /\ ToSet(names) = AllOf(lists)
    BY <1>7 DEF AddsTo, ToSet
  <1>9. PICK m : m = Len(names)
    OBVIOUS
  <1>10. m \in Nat /\ DOMAIN names = 1..m
    BY <1>8, <1>9, LenProperties
  <1>11. shelf = [i \in 1..m |-> [name |-> names[i], slug |-> collectionSlug(names[i], rows)]]
    BY <1>1, <1>6, <1>10 DEF Present
  <1>12. DOMAIN shelf = 1..m /\ shelf = [i \in 1..m |-> shelf[i]] /\ \A i \in 1..m : shelf[i] \in ToSet(shelf)
    BY <1>11 DEF ToSet
  <1>13. shelf \in Seq(ToSet(shelf))
    BY <1>10, <1>12, ListOf
  <1>14. SlugsIn(shelf) = {collectionSlug(names[i], rows) : i \in 1..m}
    BY <1>11, <1>12 DEF SlugsIn, ToSet
  <1>15. {collectionSlug(names[i], rows) : i \in 1..m} = {collectionSlug(x, rows) : x \in ToSet(names)}
    BY <1>10 DEF ToSet
  <1>16. {collectionSlug(x, rows) : x \in AllOf(lists)} = AllSlugs(rugs, n, rows)
    BY <1>2 DEF AllOf, AllSlugs, SlugsOf
  <1> QED BY <1>8, <1>13, <1>14, <1>15, <1>16

\* A hit for every name looked up adds entries that are present.
LEMMA HitsAdd ==
    ASSUME NEW X, NEW list \in Seq(X), NEW n \in Nat, NEW hits, DOMAIN hits = 1..n, hits = [i \in 1..n |-> hits[i]],
           \A i \in 1..n : hits[i] \in Seq(X), NEW u, u = AddEach(list, hits)
    PROVE  u \in Seq(X)
  <1>1. PICK Y : Y = Seq(X)
    OBVIOUS
  <1>2. hits \in Seq(Y)
    BY <1>1, ListOf
  <1>3. AddsTo(u, X, list, AllOf(hits))
    BY <1>1, <1>2, AddEachAdds
  <1> QED BY <1>3 DEF AddsTo

\* Ordering them loses no slug and invents none.
LEMMA OrderedSlugs ==
    ASSUME NEW rugs, NEW n, Filed(rugs, n), NEW rows, NEW k \in Nat, DOMAIN rows = 1..k,
           NEW shelf, shelf = Present(rugs, rows), NEW ordered, ordered = orderedCollections(rugs, rows)
    PROVE  ordered \in Seq(ToSet(shelf)) /\ SlugsIn(ordered) = SlugsIn(shelf)
  <1>1. PICK X : X = ToSet(shelf)
    OBVIOUS
  <1>2. shelf \in Seq(X)
    BY <1>1, PresentSlugs
  <1>3. PICK first : first = StudioHits(shelf, rows)
    OBVIOUS
  <1>4. PICK then : then = SheetHits(shelf, rows)
    OBVIOUS
  <1>5. PICK order : order = IF rows = <<>> THEN REFERENCE_ORDER ELSE [i \in DOMAIN rows |-> Ordered(rows)[i].name]
    OBVIOUS
  <1>6. PICK studio : studio = AddEach(<<>>, first)
    OBVIOUS
  <1>7. PICK sheet : sheet = AddEach(studio, then)
    OBVIOUS
  <1>8. PICK S : S = Rest(shelf, sheet)
    OBVIOUS
  <1>9. PICK rest : rest = SetToSeq(S)
    OBVIOUS
  <1>10. ordered = sheet \o rest
    BY <1>3, <1>4, <1>6, <1>7, <1>8, <1>9 DEF orderedCollections
  <1>11. \A slug : Exactly(slug, shelf) \in Seq(X) /\ Loosely(slug, shelf) \in Seq(X)
    BY <1>2, HitsArePresent
  <1>12. studio \in Seq(X)
    <2>1. PICK m : m = Len(STUDIO_ORDER)
      OBVIOUS
    <2>2. m \in Nat /\ DOMAIN STUDIO_ORDER = 1..m
      BY <2>1, ViewConstants, LenProperties
    <2>3. DOMAIN first = 1..m /\ first = [i \in 1..m |-> first[i]] /\ \A i \in 1..m : first[i] \in Seq(X)
      BY <1>3, <1>11, <2>2 DEF StudioHits
    <2> QED BY <1>6, <2>2, <2>3, EmptySeq, HitsAdd
  <1>13. sheet \in Seq(X)
    <2>1. \E m \in Nat : DOMAIN order = 1..m
      <3>1. CASE rows = <<>>
        BY <1>5, <3>1, ViewConstants, LenProperties
      <3>2. CASE rows # <<>>
        BY <1>5, <3>2
      <3> QED BY <3>1, <3>2
    <2>2. PICK m \in Nat : DOMAIN order = 1..m
      BY <2>1
    <2>3. DOMAIN then = 1..m /\ then = [i \in 1..m |-> then[i]] /\ \A i \in 1..m : then[i] \in Seq(X)
      BY <1>4, <1>5, <1>11, <2>2 DEF SheetHits
    <2> QED BY <1>7, <1>12, <2>2, <2>3, HitsAdd
  <1>14. IsFiniteSet(S) /\ S \subseteq X
    <2>1. S \subseteq X
      BY <1>1, <1>8 DEF Rest
    <2> QED BY <1>1, <1>2, <2>1, ListIsFinite, FS_Subset
  <1>15. rest \in Seq(X) /\ ToSet(rest) = S
    BY <1>9, <1>14, ListOfSet, SeqMonotonic
  <1>16. ordered \in Seq(X) /\ Joins(ordered, sheet, rest)
    BY <1>10, <1>13, <1>15, ToSetOfConcat
  <1>17. ToSet(ordered) = ToSet(sheet) \cup S /\ ToSet(sheet) \subseteq X
    BY <1>13, <1>15, <1>16, ToSetInKind DEF Joins
  <1>18. ASSUME NEW p \in X PROVE p \in S \/ \E q \in ToSet(sheet) : q.slug = p.slug
    BY <1>1, <1>8 DEF Rest, ToSet
  <1>19. SlugsIn(ordered) = SlugsIn(shelf)
    BY <1>1, <1>14, <1>17, <1>18 DEF SlugsIn
  <1> QED BY <1>1, <1>16, <1>19

TabsFor(tabs, slugs, rugs, n, rows) ==
    /\ Unrepeated(slugs) /\ ToSet(slugs) = AllSlugs(rugs, n, rows)
    /\ DOMAIN tabs = DOMAIN slugs
    /\ \A t \in DOMAIN slugs :
          /\ tabs[t].slug = slugs[t]
          /\ tabs[t].count = Cardinality({i \in 1..n : slugs[t] \in SlugsOf(Named(rugs[i]), rows)})

\* The tabs: one for each slug of the cards, which counts the cards that carry it.
LEMMA TabsAre ==
    ASSUME NEW rugs, NEW n, Filed(rugs, n), NEW rows, NEW k \in Nat, DOMAIN rows = 1..k, NEW tabs, tabs = navTabs(rugs, rows)
    PROVE  \E slugs : TabsFor(tabs, slugs, rugs, n, rows)
  <1>1. PICK displayed : displayed = [i \in DOMAIN rugs |-> Displayed(rugs[i])]
    OBVIOUS
  <1>2. n \in Nat /\ DOMAIN rugs = 1..n /\ \A i \in 1..n : rugs[i].names \in Seq(CollectionNames)
    BY DEF Filed
  <1>3. \A i \in 1..n : displayed[i] = Displayed(rugs[i])
    BY <1>1, <1>2
  <1>4. \A i \in 1..n : SlugsOf(Named(displayed[i]), rows) = SlugsOf(Named(rugs[i]), rows)
    BY <1>2, <1>3, DisplayedAlike
  <1>5. Filed(displayed, n)
    BY <1>1, <1>2, <1>3, DisplayedAlike DEF Filed
  <1>6. AllSlugs(displayed, n, rows) = AllSlugs(rugs, n, rows)
    BY <1>4 DEF AllSlugs
  <1>7. PICK shelf : shelf = Present(displayed, rows)
    OBVIOUS
  <1>8. PICK names : names = orderedCollections(displayed, rows)
    OBVIOUS
  <1>9. SlugsIn(shelf) = AllSlugs(rugs, n, rows)
    BY <1>5, <1>6, <1>7, PresentSlugs
  <1>10. names \in Seq(ToSet(shelf)) /\ SlugsIn(names) = SlugsIn(shelf)
    BY <1>5, <1>7, <1>8, OrderedSlugs
  <1>11. PICK m : m = Len(names)
    OBVIOUS
  <1>12. m \in Nat /\ DOMAIN names = 1..m
    BY <1>10, <1>11, LenProperties
  <1>13. PICK more : more = [i \in DOMAIN names |-> names[i].slug]
    OBVIOUS
  <1>14. PICK X : X = SlugsIn(names)
    OBVIOUS
  <1>15. DOMAIN more = 1..m /\ more = [i \in 1..m |-> more[i]] /\ ToSet(more) = X /\ \A i \in 1..m : more[i] \in X
    BY <1>12, <1>13, <1>14 DEF SlugsIn, ToSet
  <1>16. more \in Seq(X) /\ <<>> \in Seq(X)
    BY <1>12, <1>15, ListOf, EmptySeq
  <1>17. PICK slugs : slugs = AddAll(<<>>, more)
    OBVIOUS
  <1>18. AddsTo(slugs, X, <<>>, X)
    BY <1>15, <1>16, <1>17, AddAllAdds
  <1>19. slugs \in Seq(X) /\ Unrepeated(slugs) /\ ToSet(slugs) = X
    BY <1>18 DEF AddsTo, ToSet, Unrepeated
  <1>20. tabs = [t \in DOMAIN slugs |->
                    [slug |-> slugs[t],
                     count |-> Cardinality({i \in DOMAIN rugs : Contains(collectionSlugs(displayed[i], rows), slugs[t])})]]
    BY <1>1, <1>8, <1>13, <1>17 DEF navTabs
  <1>21. ASSUME NEW i \in 1..n, NEW slug PROVE Contains(collectionSlugs(displayed[i], rows), slug) <=> slug \in SlugsOf(Named(rugs[i]), rows)
    <2>1. PICK s : s = collectionSlugs(displayed[i], rows)
      OBVIOUS
    <2>2. displayed[i].names \in Seq(CollectionNames)
      BY <1>5 DEF Filed
    <2>3. PICK Y : s \in Seq(Y)
      BY <2>1, <2>2, CarriesItsSlugs
    <2>4. ToSet(s) = SlugsOf(Named(rugs[i]), rows)
      BY <1>4, <2>1, <2>2, CarriesItsSlugs
    <2>5. Contains(s, slug) <=> slug \in ToSet(s)
      BY <2>3, LenProperties DEF Contains, ToSet
    <2> QED BY <2>1, <2>4, <2>5
  <1>22. ASSUME NEW t \in DOMAIN slugs
         PROVE  {i \in DOMAIN rugs : Contains(collectionSlugs(displayed[i], rows), slugs[t])} =
                {i \in 1..n : slugs[t] \in SlugsOf(Named(rugs[i]), rows)}
    BY <1>2, <1>21
  <1>23. DOMAIN tabs = DOMAIN slugs
    BY <1>20
  <1>24. ASSUME NEW t \in DOMAIN slugs
         PROVE  /\ tabs[t].slug = slugs[t]
                /\ tabs[t].count = Cardinality({i \in 1..n : slugs[t] \in SlugsOf(Named(rugs[i]), rows)})
    BY <1>20, <1>22, SMTT(30)
  <1> QED BY <1>9, <1>10, <1>14, <1>19, <1>23, <1>24 DEF TabsFor

-----------------------------------------------------------------------------
Slugs == Handles \cup {Append(base, k) : base \in Handles, k \in Nat}
Counts == UNION {[S -> Nat] : S \in SUBSET Handles}
ARug == [id : STRING, slug : Slugs, names : Seq(CollectionNames), featured : BOOLEAN, landscape : BOOLEAN]
Parsed == [items : Seq(ARug), dropped : Seq(ProductRow), slugs : Counts]

LEMMA NoneIsParsed == NoneParsed \in Parsed
  <1>1. [s \in {} |-> 0] \in [{} -> Nat] /\ {} \in SUBSET Handles
    OBVIOUS
  <1>2. PICK c : c = [s \in {} |-> 0]
    OBVIOUS
  <1>3. c \in Counts
    BY <1>1, <1>2 DEF Counts
  <1> QED BY <1>2, <1>3, EmptySeq DEF NoneParsed, Parsed

\* A row makes a rug of the form of rugs, or none.
LEMMA ParseKeepsForm ==
    ASSUME NEW sofar \in Parsed, NEW typed \in ProductRow
    PROVE  parseProduct(sofar, typed) \in Parsed
  <1>1. PICK base : base = IF typed.handle # NoHandle THEN typed.handle ELSE <<typed.word>>
    OBVIOUS
  <1>2. PICK before : before = IF base \in DOMAIN sofar.slugs THEN sofar.slugs[base] ELSE 0
    OBVIOUS
  <1>3. PICK slug : slug = IF before > 0 THEN Append(base, before + 1) ELSE base
    OBVIOUS
  <1>4. PICK rug : rug = [id |-> typed.id, slug |-> slug, names |-> typed.names, featured |-> typed.featured, landscape |-> typed.landscape]
    OBVIOUS
  <1>5. PICK counts : counts = [s \in DOMAIN sofar.slugs \cup {base} |-> IF s = base THEN before + 1 ELSE sofar.slugs[s]]
    OBVIOUS
  <1>6. base \in Handles
    <2>1. PICK s : s = <<typed.word>>
      OBVIOUS
    <2>2. s = [i \in 1..1 |-> s[i]] /\ DOMAIN s = 1..1 /\ s[1] = typed.word /\ typed.word \in STRING
      BY <2>1 DEF ProductRow
    <2>3. s \in Seq(STRING)
      BY <2>2, ListOf
    <2> QED BY <1>1, <2>1, <2>3 DEF ProductRow, Handles
  <1>7. PICK D \in SUBSET Handles : sofar.slugs \in [D -> Nat]
    BY DEF Parsed, Counts
  <1>8. before \in Nat
    BY <1>2, <1>7
  <1>9. slug \in Slugs
    BY <1>3, <1>6, <1>8 DEF Slugs
  <1>10. rug \in ARug
    BY <1>4, <1>9 DEF ARug, ProductRow
  <1>11. counts \in Counts
    <2>1. counts \in [D \cup {base} -> Nat] /\ D \cup {base} \in SUBSET Handles
      BY <1>5, <1>6, <1>7, <1>8
    <2> QED BY <2>1 DEF Counts
  <1>12. PICK more : more = Append(sofar.items, rug)
    OBVIOUS
  <1>13. PICK out : out = Append(sofar.dropped, typed)
    OBVIOUS
  <1>14. more \in Seq(ARug) /\ out \in Seq(ProductRow)
    BY <1>10, <1>12, <1>13, AppendProperties DEF Parsed
  <1>15. \/ parseProduct(sofar, typed) = sofar
         \/ parseProduct(sofar, typed) = [sofar EXCEPT !.dropped = out]
         \/ parseProduct(sofar, typed) = [items |-> more, dropped |-> sofar.dropped, slugs |-> counts]
    BY <1>1, <1>2, <1>3, <1>4, <1>5, <1>12, <1>13 DEF parseProduct
  <1> QED BY <1>11, <1>14, <1>15 DEF Parsed

ParseRun(g, n) ==
    g \in [0..n -> Parsed] /\ g[0] = NoneParsed /\ \A k \in 1..n : g[k] = parseProduct(g[k - 1], products[k])

\* The rows are parsed one by one.
LEMMA ParseRuns ==
    ASSUME products \in Seq(ProductRows)
    PROVE  \E g : ParseRun(g, Len(products)) /\ parseProducts = g[Len(products)]
  <1>1. PICK n : n = Len(products)
    OBVIOUS
  <1>2. n \in Nat /\ DOMAIN products = 1..n /\ \A k \in 1..n : products[k] \in ProductRow
    BY <1>1, LenProperties, ElementOfSeq, ViewConstants
  <1>none. PICK list : list = NoneParsed
    OBVIOUS
  <1>parsed. list \in Parsed
    BY <1>none, NoneIsParsed
  <1> DEFINE step == [z \in Parsed \X (1..n) |-> parseProduct(z[1], products[z[2]])]
             Is(iter) == iter = [t \in SUBSET (1..n) |-> IF t = {} THEN list ELSE parseProduct(iter[t \ {Max(t)}], products[Max(t)])]
             h == CHOOSE iter : Is(iter)
  <1>3. \A s \in Parsed, k \in 1..n : parseProduct(s, products[k]) \in Parsed
    BY <1>2, ParseKeepsForm
  <1>4. step \in [Parsed \X (1..n) -> Parsed] /\ \A s \in Parsed, k \in 1..n : step[<<s, k>>] = parseProduct(s, products[k])
    BY <1>3
  <1>5. parseProducts = h[1..n]
    BY <1>none, <1>1, <1>2 DEF parseProducts, FoldLeft, MapThenFoldSet
  <1>6. PICK z : z = step
    OBVIOUS
  <1> HIDE DEF step
  <1>7. PICK f : Folder(f, n, Parsed, list, z)
    BY <1>2, <1>4, <1>6, <1>parsed, FolderExists
  <1>8. ASSUME NEW t \in SUBSET (1..n), t # {} PROVE Max(t) \in 1..n /\ t \ {Max(t)} \in SUBSET (1..n)
    BY <1>2, <1>8, MaxIs
  <1>9. Is(f)
    <2>1. DOMAIN f = SUBSET (1..n) /\ f = [t \in SUBSET (1..n) |-> f[t]]
      BY <1>7 DEF Folder
    <2>2. ASSUME NEW t \in SUBSET (1..n) PROVE f[t] = IF t = {} THEN list ELSE parseProduct(f[t \ {Max(t)}], products[Max(t)])
      <3>1. CASE t = {}
        BY <1>7, <3>1 DEF Folder
      <3>2. CASE t # {}
        <4>1. f[t \ {Max(t)}] \in Parsed /\ Max(t) \in 1..n
          BY <1>7, <1>8, <3>2 DEF Folder
        <4>2. f[t] = z[<<f[t \ {Max(t)}], Max(t)>>]
          BY <1>7, <3>2 DEF Folder
        <4> QED BY <1>4, <1>6, <3>2, <4>1, <4>2
      <3> QED BY <3>1, <3>2
    <2> QED BY <2>1, <2>2
  <1>10. Is(h)
    <2> HIDE DEF Is
    <2> QED BY <1>9
  <1>11. PICK e : e = h
    OBVIOUS
  <1>12. PICK g : Loop(g, n, Parsed, list, z) /\ g[n] = e[1..n]
    <2>1. e = [t \in SUBSET (1..n) |-> IF t = {} THEN list ELSE parseProduct(e[t \ {Max(t)}], products[Max(t)])]
      BY <1>10, <1>11
    <2>2. e[{}] = list
      BY <2>1
    <2>3. ASSUME NEW t \in SUBSET (1..n), t # {}, e[t \ {Max(t)}] \in Parsed PROVE e[t] = z[<<e[t \ {Max(t)}], Max(t)>>]
      <3>1. e[t] = parseProduct(e[t \ {Max(t)}], products[Max(t)])
        BY <2>1, <2>3
      <3> QED BY <1>4, <1>6, <1>8, <2>3, <3>1
    <2>4. Folds(e, n, Parsed, list, z)
      BY <2>2, <2>3 DEF Folds
    <2>5. z \in [Parsed \X (1..n) -> Parsed]
      BY <1>4, <1>6
    <2>6. PICK v : v = e[1..n]
      OBVIOUS
    <2> HIDE DEF h, Is
    <2>7. Looped(v, n, Parsed, list, z)
      BY <1>2, <1>parsed, <2>4, <2>5, <2>6, FoldRuns
    <2> QED BY <2>6, <2>7 DEF Looped
  <1>13. ParseRun(g, n)
    <2>1. g \in [0..n -> Parsed] /\ g[0] = NoneParsed /\ \A k \in 1..n : g[k] = z[<<g[k - 1], k>>]
      BY <1>none, <1>12 DEF Loop
    <2>2. ASSUME NEW k \in 1..n PROVE g[k] = parseProduct(g[k - 1], products[k])
      <3>1. g[k - 1] \in Parsed
        BY <1>2, <2>1
      <3> QED BY <1>4, <1>6, <2>1, <3>1
    <2> QED BY <2>1, <2>2 DEF ParseRun
  <1> HIDE DEF h, Is
  <1> QED BY <1>1, <1>5, <1>11, <1>12, <1>13


\* The rugs of the sheet are a list, each with its list of names.
LEMMA RugsAreFiled ==
    ASSUME products \in Seq(ProductRows)
    PROVE  \E n : Filed(Rugs, n)
  <1>1. PICK m : m = Len(products)
    OBVIOUS
  <1>2. m \in Nat
    BY <1>1, LenProperties
  <1>3. PICK g : ParseRun(g, m) /\ parseProducts = g[m]
    BY <1>1, ParseRuns
  <1>4. parseProducts \in Parsed
    BY <1>2, <1>3 DEF ParseRun
  <1>5. PICK rugs : rugs = Rugs
    OBVIOUS
  <1>6. rugs \in Seq(ARug)
    BY <1>4, <1>5 DEF Rugs, Parsed
  <1>7. Len(rugs) \in Nat /\ DOMAIN rugs = 1..Len(rugs) /\ \A i \in 1..Len(rugs) : rugs[i] \in ARug
    BY <1>6, LenProperties, ElementOfSeq
  <1>8. Filed(rugs, Len(rugs))
    BY <1>7 DEF Filed, ARug
  <1> QED BY <1>5, <1>8

SheetInv == products \in Seq(ProductRows) /\ collections \in Seq(CollectionRows)

LEMMA SheetStep == SheetInv /\ [SheetNext]_sheetVars => SheetInv'
  <1> SUFFICES ASSUME SheetInv, [SheetNext]_sheetVars PROVE SheetInv'
    OBVIOUS
  <1>1. ASSUME NEW typed \in ProductRows, TypeProduct(typed) PROVE SheetInv'
    BY <1>1, AppendProperties DEF SheetInv, TypeProduct
  <1>2. ASSUME NEW typed \in CollectionRows, TypeCollection(typed) PROVE SheetInv'
    BY <1>2, AppendProperties DEF SheetInv, TypeCollection
  <1>3. CASE UNCHANGED sheetVars
    BY <1>3 DEF SheetInv, sheetVars
  <1> QED BY <1>1, <1>2, <1>3 DEF SheetNext

WallMatches(rugs, carries, tabs) ==
    /\ \A i \in DOMAIN rugs : carries[i] # {}
    /\ \A t \in DOMAIN tabs :
          /\ tabs[t].count > 0
          /\ tabs[t].count = Cardinality({i \in DOMAIN rugs : tabs[t].slug \in carries[i]})
    /\ \A t, u \in DOMAIN tabs : t # u => tabs[t].slug # tabs[u].slug
    /\ \A i \in DOMAIN rugs : carries[i] \subseteq {tabs[t].slug : t \in DOMAIN tabs}

\* Every rug is under a tab, a tab counts the cards that carry its slug, and none is empty or there
\* twice (view.ts:277-303): however the sheet is filled in.
LEMMA TabsMatch == SheetInv => TabsMatchTheWall
  <1> SUFFICES ASSUME SheetInv PROVE TabsMatchTheWall
    OBVIOUS
  <1>1. PICK rugs : rugs = Rugs
    OBVIOUS
  <1>2. PICK rows : rows = Collections
    OBVIOUS
  <1>3. PICK n : Filed(rugs, n)
    BY <1>1, RugsAreFiled DEF SheetInv
  <1>4. n \in Nat /\ DOMAIN rugs = 1..n /\ \A i \in 1..n : rugs[i].names \in Seq(CollectionNames)
    BY <1>3 DEF Filed
  <1>5. \E k \in Nat : DOMAIN rows = 1..k
    BY <1>2, LenProperties DEF Collections, SheetInv
  <1>6. PICK carries : carries = [i \in DOMAIN Rugs |-> ToSet(collectionSlugs(Rugs[i], Collections))]
    OBVIOUS
  <1>7. PICK tabs : tabs = navTabs(rugs, rows)
    OBVIOUS
  <1>8. ASSUME NEW i \in 1..n PROVE carries[i] = SlugsOf(Named(rugs[i]), rows) /\ carries[i] # {}
    <2>1. carries[i] = SlugsOf(Named(rugs[i]), rows)
      BY <1>1, <1>2, <1>4, <1>6, CarriesItsSlugs
    <2>2. ToSet(Named(rugs[i])) # {}
      BY <1>4, NamedIsAList
    <2> QED BY <2>1, <2>2 DEF SlugsOf
  <1>9. PICK slugs : TabsFor(tabs, slugs, rugs, n, rows)
    BY <1>3, <1>5, <1>7, TabsAre
  <1>10. AllSlugs(rugs, n, rows) = UNION {carries[i] : i \in 1..n}
    BY <1>8 DEF AllSlugs
  <1>11. ASSUME NEW t \in DOMAIN tabs
         PROVE  tabs[t].count = Cardinality({i \in DOMAIN rugs : tabs[t].slug \in carries[i]}) /\ tabs[t].count > 0
    <2>1. PICK C : C = {i \in DOMAIN rugs : tabs[t].slug \in carries[i]}
      OBVIOUS
    <2>2. C = {i \in 1..n : slugs[t] \in SlugsOf(Named(rugs[i]), rows)}
      BY <1>4, <1>8, <1>9, <2>1 DEF TabsFor
    <2>3. tabs[t].count = Cardinality(C)
      BY <1>9, <2>2 DEF TabsFor
    <2>4. slugs[t] \in AllSlugs(rugs, n, rows) /\ tabs[t].slug = slugs[t]
      BY <1>9 DEF TabsFor, ToSet
    <2>5. C # {}
      BY <1>4, <1>10, <2>1, <2>4
    <2>6. IsFiniteSet(C)
      BY <1>4, <2>1, FS_Interval, FS_Subset
    <2>7. Cardinality(C) \in Nat /\ Cardinality(C) # 0
      BY <2>5, <2>6, FS_CardinalityType, FS_EmptySet
    <2> QED BY <2>1, <2>3, <2>7
  <1>12. \A t, u \in DOMAIN tabs : t # u => tabs[t].slug # tabs[u].slug
    BY <1>9, ZenonT(40) DEF TabsFor, Unrepeated
  <1>13. ASSUME NEW i \in DOMAIN rugs PROVE carries[i] \subseteq {tabs[t].slug : t \in DOMAIN tabs}
    <2>1. carries[i] \subseteq ToSet(slugs)
      BY <1>4, <1>9, <1>10 DEF TabsFor
    <2>2. {tabs[t].slug : t \in DOMAIN tabs} = ToSet(slugs)
      BY <1>9 DEF TabsFor, ToSet
    <2> QED BY <2>1, <2>2
  <1>14. WallMatches(rugs, carries, tabs)
    BY <1>4, <1>8, <1>11, <1>12, <1>13 DEF WallMatches
  <1>15. WallMatches(Rugs, [i \in DOMAIN Rugs |-> ToSet(collectionSlugs(Rugs[i], Collections))], navTabs(Rugs, Collections))
    BY <1>1, <1>2, <1>6, <1>7, <1>14
  <1> QED BY <1>15 DEF WallMatches, TabsMatchTheWall

\* Whatever the owner types into the two tabs, the tabs of the catalogue are those of its cards.
THEOREM TabsMatchTheWallHolds == SheetSpec => []TabsMatchTheWall
<1>1. SheetInit => SheetInv
  BY EmptySeq DEF SheetInit, SheetInv
<1> QED BY <1>1, SheetStep, TabsMatch, PTL DEF SheetSpec

-----------------------------------------------------------------------------
(* The sheet's notifier                                                    *)

NotifierTypeOK ==
    /\ edits \in 0..MaxEdits
    /\ DOMAIN script = Scripts /\ script = [s \in Scripts |-> script[s]]
    /\ due \in [Triggers -> Int] /\ pending \in Int /\ sinceLast \in Int

\* A trigger is armed, or what it fired is on its way.
WillTell(t) == due[t] # None \/ script[t] \in {"fired", "posting", "waiting"}

\* No edit is forgotten: what the site has not read is an edit whose handler has still to decide, or
\* one for which a trailing notification is armed or on its way, or one that was given up, the lock
\* taken or the trailing post not taken (onEdit.gs:39-97).
NothingForgotten ==
    \A e \in Unread \ lapsed :
        script[e] \in {"locking", "deciding"} \/ \E t \in Triggers : WillTell(t)

\* TRAILING_PENDING stands for a trigger that is really armed.
FlagIsTrue == pending # None => \E t \in Triggers : due[t] # None

NotifierInv == NotifierTypeOK /\ FlagIsTrue /\ NothingForgotten

\* The executions for edits and those of triggers are different ones.
LEMMA ScriptsApart ==
    /\ \A e \in Edits : e \in Scripts /\ e \notin Triggers
    /\ \A t \in Triggers : t \in Scripts /\ t \notin Edits
  BY RevalidationConstants DEF Edits, Triggers, Scripts

\* A trigger that is armed leaves the flag true, and what is unread on its way.
LEMMA ArmTells ==
    ASSUME NotifierTypeOK, NEW after \in Nat, Arm(after), edits' = edits, DOMAIN script' = Scripts,
           script' = [s \in Scripts |-> script'[s]], sinceLast' \in Int
    PROVE  NotifierInv'
  <1>1. PICK t \in Triggers : due' = [due EXCEPT ![t] = after] /\ pending' = 0
    BY DEF Arm
  <1>2. due' \in [Triggers -> Int] /\ due'[t] = after /\ after # None
    BY <1>1 DEF NotifierTypeOK, None
  <1>3. NotifierTypeOK'
    BY <1>1, <1>2 DEF NotifierTypeOK
  <1>4. \E u \in Triggers : due'[u] # None
    BY <1>2
  <1> QED
    BY <1>3, <1>4 DEF NotifierInv, FlagIsTrue, NothingForgotten, WillTell

\* A step that leaves the triggers, the edits and what is read alone, and takes no execution out of
\* those that will tell the site, forgets nothing.
LEMMA NothingForgottenKept ==
    ASSUME NotifierInv, UNCHANGED <<edits, snapshot, pending, due>>,
           DOMAIN script' = Scripts, script' = [s \in Scripts |-> script'[s]], sinceLast' \in Int,
           lapsed \subseteq lapsed',
           \A e \in Edits : script[e] \in {"locking", "deciding"} =>
                               script'[e] \in {"locking", "deciding"} \/ e \in lapsed',
           \A t \in Triggers : script[t] \in {"fired", "posting", "waiting"} =>
                               script'[t] \in {"fired", "posting", "waiting"} \/ Unread \subseteq lapsed'
    PROVE  NotifierInv'
  <1>1. NotifierTypeOK' /\ FlagIsTrue'
    BY DEF NotifierInv, NotifierTypeOK, FlagIsTrue
  <1>2. Unread' = Unread
    BY DEF Unread
  <1>3. NothingForgotten'
    <2> SUFFICES ASSUME NEW e \in Unread, e \notin lapsed',
                        \A t \in Triggers : ~WillTell(t)'
                 PROVE  script'[e] \in {"locking", "deciding"}
      BY <1>2 DEF NothingForgotten
    <2>1. \A t \in Triggers : ~WillTell(t)
      BY DEF WillTell
    <2>2. script[e] \in {"locking", "deciding"} /\ e \in Edits
      BY <2>1 DEF NotifierInv, NothingForgotten, Unread
    <2> QED
      BY <2>2
  <1> QED
    BY <1>1, <1>3 DEF NotifierInv

\* Before the first edit there is nothing to tell.
LEMMA NotifierInitInv == RevalidationInit => NotifierInv
  <1> SUFFICES ASSUME RevalidationInit PROVE NotifierInv
    OBVIOUS
  <1>1. NotifierTypeOK
    BY RevalidationConstants DEF RevalidationInit, NotifierTypeOK, None
  <1>2. Unread = {}
    BY RevalidationConstants DEF RevalidationInit, Unread, Edits
  <1> QED
    BY <1>1, <1>2 DEF RevalidationInit, NotifierInv, FlagIsTrue, NothingForgotten

\* An edit starts its handler.
LEMMA EditSheetInv == NotifierInv /\ EditSheet => NotifierInv'
  <1> SUFFICES ASSUME NotifierInv, EditSheet PROVE NotifierInv'
    OBVIOUS
  <1>1. edits + 1 \in Edits /\ edits' = edits + 1 /\ edits' \in 0..MaxEdits /\ edits \in Nat
    BY RevalidationConstants DEF NotifierInv, NotifierTypeOK, EditSheet, Edits
  <1>2. script' = [script EXCEPT ![edits + 1] = "locking"] /\ UNCHANGED <<sinceLast, pending, due, snapshot, lapsed>>
    BY DEF EditSheet, Goto, siteVars
  <1>3. NotifierTypeOK' /\ FlagIsTrue'
    BY <1>1, <1>2 DEF NotifierInv, NotifierTypeOK, FlagIsTrue
  <1>4. \A e \in Unread' : e \in Unread \/ e = edits + 1
    BY <1>1, <1>2 DEF Unread, Edits
  <1>5. script'[edits + 1] = "locking"
    BY <1>1, <1>2 DEF NotifierInv, NotifierTypeOK, Scripts
  <1>6. \A s \in Scripts : s # edits + 1 => script'[s] = script[s]
    BY <1>2 DEF NotifierInv, NotifierTypeOK
  <1>7. \A t \in Triggers : WillTell(t) => WillTell(t)'
    BY <1>1, <1>2, <1>6, ScriptsApart DEF WillTell
  <1>8. NothingForgotten'
    BY <1>2, <1>4, <1>5, <1>6, <1>7, ScriptsApart DEF NotifierInv, NothingForgotten, Unread
  <1> QED
    BY <1>3, <1>8 DEF NotifierInv

\* The handler of an edit: the lock, the decision under it, the post to come.
LEMMA HandlerInv ==
    ASSUME NotifierInv, NEW e \in Edits, TryLock(e) \/ Decide(e) \/ ReleaseLock(e)
    PROVE  NotifierInv'
  <1>0. e \in Scripts /\ \A t \in Triggers : t # e
    BY ScriptsApart
  <1>1. CASE TryLock(e)
    <2>1. UNCHANGED <<edits, snapshot, pending, due, sinceLast>> /\ lapsed \subseteq lapsed'
      BY <1>1 DEF TryLock, siteVars
    <2>2. \/ script' = [script EXCEPT ![e] = "deciding"]
          \/ script' = [script EXCEPT ![e] = "done"] /\ e \in lapsed'
      BY <1>1 DEF TryLock, Goto
    <2>3. DOMAIN script' = Scripts /\ script' = [s \in Scripts |-> script'[s]] /\ sinceLast' \in Int
      BY <2>1, <2>2 DEF NotifierInv, NotifierTypeOK
    <2>4. \A s \in Scripts : s # e => script'[s] = script[s]
      BY <2>2 DEF NotifierInv, NotifierTypeOK
    <2>5. script'[e] = "deciding" \/ e \in lapsed'
      BY <1>0, <2>2 DEF NotifierInv, NotifierTypeOK
    <2> QED
      BY <1>0, <2>1, <2>3, <2>4, <2>5, NothingForgottenKept, ScriptsApart
  <1>2. CASE Decide(e)
    <2>1. /\ UNCHANGED <<edits, snapshot, lapsed>> /\ sinceLast' \in Int
          /\ \/ script' = [script EXCEPT ![e] = "unlock"]
             \/ script' = [script EXCEPT ![e] = "unlock and post"]
      <3>1. CASE sinceLast >= Throttle
        <4>1. sinceLast' = 0 /\ Goto(e, "unlock and post") /\ UNCHANGED <<edits, siteVars, lapsed>>
          BY <1>2, <3>1 DEF Decide
        <4>2. sinceLast' = 0
          BY <4>1, Zenon
        <4>3. sinceLast' \in Int
          BY <4>2
        <4> QED
          BY <4>1, <4>3, Zenon DEF siteVars, Goto
      <3>2. CASE ~(sinceLast >= Throttle)
        BY <1>2, <3>2 DEF Decide, siteVars, Goto, NotifierInv, NotifierTypeOK
      <3> QED
        BY <3>1, <3>2
    <2>2. DOMAIN script' = Scripts /\ script' = [s \in Scripts |-> script'[s]]
      BY <2>1 DEF NotifierInv, NotifierTypeOK
    <2>3. CASE LiveTrigger
      <3>1. UNCHANGED <<pending, due>> /\ pending # None
        BY <1>2, <2>3 DEF Decide, LiveTrigger
      <3>2. FlagIsTrue' /\ \E t \in Triggers : due'[t] # None
        BY <3>1 DEF NotifierInv, FlagIsTrue
      <3>3. NotifierTypeOK'
        BY <2>1, <2>2, <3>1 DEF NotifierInv, NotifierTypeOK
      <3> QED
        BY <3>2, <3>3 DEF NotifierInv, NothingForgotten, WillTell
    <2>4. CASE ~LiveTrigger
      <3>1. Arm(Trailing) /\ Trailing \in Nat
        BY <1>2, <2>4, RevalidationConstants DEF Decide
      <3> QED
        BY <2>1, <2>2, <3>1, ArmTells DEF NotifierInv
    <2> QED
      BY <2>3, <2>4
  <1>3. CASE ReleaseLock(e)
    <2>1. UNCHANGED <<edits, snapshot, pending, due, sinceLast, lapsed>> /\ script[e] \in {"unlock", "unlock and post"}
      BY <1>3 DEF ReleaseLock, siteVars
    <2>2. PICK pc : script' = [script EXCEPT ![e] = pc]
      BY <1>3 DEF ReleaseLock, Goto
    <2>3. DOMAIN script' = Scripts /\ script' = [s \in Scripts |-> script'[s]] /\ sinceLast' \in Int
      BY <2>1, <2>2 DEF NotifierInv, NotifierTypeOK
    <2>4. \A s \in Scripts : s # e => script'[s] = script[s]
      BY <2>2 DEF NotifierInv, NotifierTypeOK
    <2> QED
      BY <1>0, <2>1, <2>3, <2>4, NothingForgottenKept, ScriptsApart
  <1> QED
    BY <1>1, <1>2, <1>3

\* A trigger: it fires, is armed anew or posts.
LEMMA TriggerInv ==
    ASSUME NotifierInv, NEW t \in Triggers, Fire(t) \/ Rearm(t) \/ TrailingPost(t)
    PROVE  NotifierInv'
  <1>0. t \in Scripts /\ \A e \in Edits : t # e
    BY ScriptsApart
  <1>1. CASE Fire(t)
    <2>1. /\ UNCHANGED <<edits, snapshot, sinceLast, lapsed>> /\ pending' = None
          /\ due' = [due EXCEPT ![t] = None] /\ script' = [script EXCEPT ![t] = "fired"]
      BY <1>1 DEF Fire, siteVars, Goto
    <2>2. NotifierTypeOK' /\ FlagIsTrue'
      BY <2>1 DEF NotifierInv, NotifierTypeOK, FlagIsTrue, None
    <2>3. WillTell(t)'
      BY <1>0, <2>1 DEF NotifierInv, NotifierTypeOK, WillTell
    <2> QED
      BY <2>2, <2>3 DEF NotifierInv, NothingForgotten
  <1>2. CASE Rearm(t)
    <2>1. Coalesce + Margin - sinceLast \in Nat /\ Arm(Coalesce + Margin - sinceLast)
      BY <1>2, RevalidationConstants DEF Rearm, NotifierInv, NotifierTypeOK
    <2>2. UNCHANGED <<edits, sinceLast>> /\ script' = [script EXCEPT ![t] = "idle"]
      BY <1>2 DEF Rearm, Goto
    <2>3. DOMAIN script' = Scripts /\ script' = [s \in Scripts |-> script'[s]] /\ sinceLast' \in Int
      BY <2>2 DEF NotifierInv, NotifierTypeOK
    <2> QED
      BY <2>1, <2>2, <2>3, ArmTells DEF NotifierInv
  <1>3. CASE TrailingPost(t)
    <2>1. UNCHANGED <<edits, snapshot, pending, due, lapsed>> /\ sinceLast' = 0
          /\ script' = [script EXCEPT ![t] = "posting"]
      BY <1>3 DEF TrailingPost, siteVars, Goto
    <2>2. DOMAIN script' = Scripts /\ script' = [s \in Scripts |-> script'[s]]
          /\ \A s \in Scripts : s # t => script'[s] = script[s]
      BY <2>1 DEF NotifierInv, NotifierTypeOK
    <2>3. script'[t] = "posting"
      BY <1>0, <2>1 DEF NotifierInv, NotifierTypeOK
    <2> QED
      BY <1>0, <2>1, <2>2, <2>3, NothingForgottenKept, ScriptsApart
  <1> QED
    BY <1>1, <1>2, <1>3

\* A post: it is lost, coalesced, or taken.
LEMMA PostInv ==
    ASSUME NotifierInv, NEW s \in Scripts, PostFails(s) \/ Coalesced(s) \/ handleRevalidate(s)
    PROVE  NotifierInv'
  <1>1. /\ UNCHANGED <<edits, snapshot, pending, due>> /\ sinceLast' \in Int /\ script[s] = "posting"
    BY RevalidationConstants DEF PostFails, Coalesced, handleRevalidate, siteVars, NotifierInv, NotifierTypeOK
  <1>2. PICK pc : script' = [script EXCEPT ![s] = pc]
    BY DEF PostFails, Coalesced, handleRevalidate, Goto, Sent
  <1>3. DOMAIN script' = Scripts /\ script' = [q \in Scripts |-> script'[q]]
        /\ \A q \in Scripts : q # s => script'[q] = script[q]
    BY <1>2 DEF NotifierInv, NotifierTypeOK
  <1>4. lapsed \subseteq lapsed' /\ (s \in Triggers => script'[s] = "waiting" \/ Unread \subseteq lapsed')
    <2>1. CASE PostFails(s) \/ Coalesced(s)
      BY <2>1 DEF PostFails, Coalesced, Abandoned
    <2>2. CASE handleRevalidate(s)
      BY <2>2 DEF handleRevalidate, Goto, NotifierInv, NotifierTypeOK
    <2> QED
      BY <2>1, <2>2
  <1> QED
    BY <1>1, <1>3, <1>4, NothingForgottenKept, ScriptsApart

\* A read ends: everything is read, or what triggers waited for is given up.
LEMMA ReadEndsInv ==
    ASSUME NotifierInv, NEW ok \in BOOLEAN, ReadEnds(ok)
    PROVE  NotifierInv'
  <1>1. /\ UNCHANGED <<edits, pending, due>> /\ snapshot' = (IF ok THEN edits ELSE snapshot)
        /\ sinceLast' \in {sinceLast, Throttle}
    BY DEF ReadEnds
  <1> DEFINE W == {s \in Scripts : script[s] = "waiting"}
  <1>2. /\ script' = [s \in Scripts |-> IF s \in W THEN Sent(s)[s] ELSE script[s]]
        /\ lapsed' = IF ~ok /\ W \cap Triggers # {} THEN lapsed \cup Unread ELSE lapsed
    BY DEF ReadEnds
  <1>3. DOMAIN script' = Scripts /\ script' = [s \in Scripts |-> script'[s]] /\ sinceLast' \in Int
    BY <1>1, <1>2, RevalidationConstants DEF NotifierInv, NotifierTypeOK
  <1>4. CASE ok
    <2>1. NotifierTypeOK' /\ FlagIsTrue'
      BY <1>1, <1>3 DEF NotifierInv, NotifierTypeOK, FlagIsTrue
    <2>2. Unread' = {}
      BY <1>1, <1>4, RevalidationConstants DEF Unread, Edits, NotifierInv, NotifierTypeOK
    <2> QED
      BY <2>1, <2>2 DEF NotifierInv, NothingForgotten
  <1>5. CASE ~ok
    <2>1. \A s \in Scripts : script[s] # "waiting" => script'[s] = script[s]
      BY <1>2
    <2>2. \A t \in Triggers : script[t] = "waiting" => Unread \subseteq lapsed'
      BY <1>2, <1>5, ScriptsApart
    <2> QED
      BY <1>1, <1>2, <1>3, <1>5, <2>1, <2>2, NothingForgottenKept, ScriptsApart
  <1> QED
    BY <1>4, <1>5

\* Time goes by: nothing that is armed is disarmed.
LEMMA TickInv == NotifierInv /\ Tick => NotifierInv'
  <1> SUFFICES ASSUME NotifierInv, Tick PROVE NotifierInv'
    OBVIOUS
  <1>1. /\ UNCHANGED <<edits, script, snapshot, lapsed>>
        /\ sinceLast' = Older(sinceLast, Throttle)
        /\ pending' = (IF pending = None THEN None ELSE Older(pending, PendingStale))
        /\ due' = [t \in Triggers |-> IF due[t] > 0 THEN due[t] - 1 ELSE due[t]]
    BY DEF Tick
  <1>2. \A t \in Triggers : due'[t] \in Int /\ (due[t] # None => due'[t] # None)
    BY <1>1 DEF NotifierInv, NotifierTypeOK, None
  <1>3. NotifierTypeOK'
    BY <1>1, <1>2 DEF NotifierInv, NotifierTypeOK, Older, None
  <1>4. FlagIsTrue'
    BY <1>1, <1>2 DEF NotifierInv, FlagIsTrue
  <1>5. Unread' = Unread /\ \A t \in Triggers : WillTell(t) => WillTell(t)'
    BY <1>1, <1>2 DEF Unread, WillTell
  <1>6. NothingForgotten'
    BY <1>1, <1>5 DEF NotifierInv, NothingForgotten
  <1> QED
    BY <1>3, <1>4, <1>6 DEF NotifierInv

\* No step forgets an edit.
LEMMA NotifierInvNext == NotifierInv /\ [RevalidationNext]_revalidationVars => NotifierInv'
  <1> SUFFICES ASSUME NotifierInv, [RevalidationNext]_revalidationVars PROVE NotifierInv'
    OBVIOUS
  <1>1. CASE AdminWrite
    <2>1. UNCHANGED <<edits, snapshot, pending, due, script, sinceLast, lapsed>>
      BY <1>1 DEF AdminWrite, notifierVars
    <2> QED
      BY <2>1, NothingForgottenKept DEF NotifierInv, NotifierTypeOK
  <1>2. CASE UNCHANGED revalidationVars
    <2>1. UNCHANGED <<edits, snapshot, pending, due, script, sinceLast, lapsed>>
      BY <1>2 DEF revalidationVars, notifierVars, siteVars
    <2> QED
      BY <2>1, NothingForgottenKept DEF NotifierInv, NotifierTypeOK
  <1> QED
    BY <1>1, <1>2, EditSheetInv, HandlerInv, TriggerInv, PostInv, ReadEndsInv, TickInv DEF RevalidationNext

\* No edit is forgotten, whatever the throttle and the coalescing swallow: for any intervals, and any
\* number of edits, triggers, failures and writes of the admin.
THEOREM NothingForgottenHolds == RevalidationSpec => []NothingForgotten
  <1>1. NotifierInv => NothingForgotten
    BY DEF NotifierInv
  <1> QED
    BY <1>1, NotifierInitInv, NotifierInvNext, PTL DEF RevalidationSpec
=============================================================================
