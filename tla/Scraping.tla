------------------------------ MODULE Scraping ------------------------------
(***************************************************************************)
(* Reading a product off a supplier's site (lib/scrape/index.ts, robots.ts,*)
(* store-password.ts): one page of ecarpetgallery, or the payloads and the *)
(* page of a Shopify store, of which the studio's own may be locked behind *)
(* a password.  Scrapes share the robots rules, the sign-in and the answers*)
(* already read, all kept per host, so a behaviour is about one supplier.  *)
(* A step is what an awaited request answers.                              *)
(***************************************************************************)
EXTENDS Naturals, FiniteSets

CONSTANTS
    Scrapes,        \* calls of scrapeRug
    Suppliers,      \* a subset of {"ecg", "shop", "own"}
    MaxRelocks, MaxUpsets     \* bounds

ASSUME ScrapingConstants ==
    Suppliers \subseteq {"ecg", "shop", "own"} /\ MaxRelocks \in Nat /\ MaxUpsets \in Nat

VARIABLES
    world,      \* the site: whose, what its robots.txt refuses, its lock, the password we have
    robots,     \* the robots cache: the refused pages, or Unknown
    session,    \* the sign-in kept for the own store, 0 for none
    read,       \* whether the product is in the scrape cache
    scrape,     \* the calls
    upsets      \* bound

scrapingVars == <<world, robots, session, read, scrape, upsets>>

Unknown == {"unknown"}
Refusals == {{}, {"html"}, {"json"}, {"pasted"}}
Failures == {"blocked", "not_found", "fetch_failed", "parse_failed", "timeout"}

Unasked == [at |-> "unasked", elsewhere |-> FALSE, rules |-> {}, late |-> FALSE, error |-> "none",
            password |-> FALSE, cookie |-> 0, product |-> FALSE,
            trouble |-> FALSE, strayed |-> FALSE]     \* history: it met a fault; it asked for a refused page

ScrapingInit ==
    /\ \E of \in Suppliers, refused \in Refusals, locked \in BOOLEAN, known \in {"none", "wrong", "right"} :
           /\ refused = {"pasted"} => of = "ecg"
           /\ refused = {"json"} => of # "ecg"
           /\ (locked \/ known # "none") => of = "own"
           /\ world = [of |-> of, refused |-> refused, locked |-> locked, known |-> known, sign |-> 1]
    /\ robots = Unknown
    /\ session = 0 /\ read = FALSE /\ upsets = 0
    /\ scrape = [j \in Scrapes |-> Unasked]

Running(s) == s.at \notin {"unasked", "ok"} \cup Failures

-----------------------------------------------------------------------------
\* What a scrape does next: each is the record of the scrape after it.

\* The result; past the deadline every failure is a timeout.
Finish(s, outcome) ==
    [Unasked EXCEPT !.at = IF outcome # "ok" /\ s.late THEN "timeout" ELSE outcome,
                    !.late = s.late, !.trouble = s.trouble, !.strayed = s.strayed]

Request(s, page) == [s EXCEPT !.at = page, !.strayed = @ \/ page \in s.rules]

robotsRefusal(s, page) == page \in s.rules
Vetted(s, page) == IF robotsRefusal(s, page) THEN Finish([s EXCEPT !.trouble = TRUE], "blocked") ELSE Request(s, page)

\* The own rules of the page the link names, then the supplier's first request.
afterRobots(s, rules) ==
    LET vetting == [s EXCEPT !.rules = rules]
    IN  IF robotsRefusal(vetting, "html") THEN Vetted(vetting, "html")
        ELSE IF world.of = "ecg" THEN Request(vetting, "html")
        ELSE Vetted(vetting, "js")

\* The last resort of ecarpetgallery: the same page through somebody else's server.
JinaUnless(s, over) == IF over \/ s.late THEN Finish(s, s.error) ELSE Request(s, "jina")

\* A payload or a page gives a product; only the own store's may lack a price.
conclude(s, priced) ==
    IF ~s.product THEN Finish(s, IF s.error = "none" THEN "parse_failed" ELSE s.error)
    ELSE IF priced \/ world.of = "own" THEN Finish(s, "ok")
    ELSE Finish(s, "parse_failed")

readPage(s, priced) == IF s.late \/ robotsRefusal(s, "html") THEN conclude(s, priced) ELSE Request(s, "page")

\* Without a product in the .js endpoint, the .json one.
afterJs(s, answer, priced) ==
    LET known == [s EXCEPT !.error = CASE answer = "403" -> "blocked"
                                       [] answer \in {"401", "500"} -> "fetch_failed"
                                       [] OTHER -> @]
    IN  CASE answer = "404" -> Finish(s, "not_found")
          [] answer = "good" -> readPage([s EXCEPT !.product = TRUE], priced)
          [] OTHER -> IF known.late /\ known.error # "none" THEN Finish(known, known.error)
                      ELSE Vetted(known, "json")

-----------------------------------------------------------------------------
\* What a request may be answered with, and whether the answer is the site's fault or the network's.
\* A store's lock comes before anything else it would say; past the deadline every request throws.
Locked(s) == world.locked /\ s.cookie # world.sign
Answers(s) ==
    IF s.late THEN {"throws"}
    ELSE IF s.at \in {"js", "json", "page"} /\ Locked(s) THEN {"401", "throws"}
    ELSE {"good", "junk", "403", "404", "500", "throws"}

Upset(s, answer) ==
    IF s.late \/ answer \in {"good", "401"} THEN UNCHANGED upsets
    ELSE upsets < MaxUpsets /\ upsets' = upsets + 1

Thrown(s) == IF s.late THEN "timeout" ELSE "fetch_failed"

\* attemptEcg (and fromError): a page that could not be read keeps what was read of it.
attemptEcg(s, answer) ==
    CASE answer = "good" -> "ok"
      [] answer = "junk" -> "parse_failed"
      [] answer = "403" -> "blocked"
      [] answer = "404" -> "not_found"
      [] answer = "500" -> "fetch_failed"
      [] OTHER -> Thrown(s)

\* scrapeEcg: the canonical store, then the store of the link for a 404, then another browser for a
\* challenge, then the reader.
scrapeEcg(s, answer) ==
    LET got == attemptEcg(s, answer)
        asFirst == [s EXCEPT !.error = got]
    IN  IF got = "ok" THEN Finish(s, "ok")
        ELSE CASE s.at = "html" ->
                    IF got = "not_found" /\ s.elsewhere THEN Request(asFirst, "pasted")
                    ELSE IF got = "blocked" /\ ~s.late THEN Request(asFirst, "firefox")
                    ELSE JinaUnless(asFirst, got = "not_found")
               [] s.at = "pasted" -> Finish(s, "not_found")
               [] s.at = "firefox" -> JinaUnless(IF got = "parse_failed" THEN asFirst ELSE s, FALSE)
               [] OTHER -> Finish(s, IF got = "parse_failed" THEN got ELSE s.error)

\* scrapeShopifyFirst, from the request in flight.
scrapeShopify(s, answer, priced) ==
    LET thrown == [s EXCEPT !.error = Thrown(s)]
    IN  CASE s.at = "js" ->
               IF answer = "throws" THEN afterJs(thrown, "none", priced)
               ELSE IF answer = "401" /\ s.password THEN Request([s EXCEPT !.password = FALSE], "password")
               ELSE afterJs(s, answer, priced)
          [] s.at = "json" ->
              (CASE answer = "throws" -> readPage(thrown, priced)
                 [] answer = "404" -> Finish(s, "not_found")
                 [] answer = "403" -> Finish(s, "blocked")
                 [] answer \in {"401", "500"} -> Finish(s, "fetch_failed")
                 [] OTHER -> readPage([s EXCEPT !.product = answer = "good"], priced))
          [] OTHER -> IF s.late /\ answer = "throws" THEN Finish(s, "timeout")
                      ELSE conclude([s EXCEPT !.product = @ \/ answer \in {"good", "junk"}], priced)

-----------------------------------------------------------------------------
\* An answer read within the hour is given again unless the studio asked to read it afresh.
scrapeRug(j, elsewhere, force) ==
    LET s == [Unasked EXCEPT !.elsewhere = elsewhere, !.password = world.known # "none", !.cookie = session]
    IN  /\ scrape[j].at = "unasked" /\ (elsewhere => world.of = "ecg")
        /\ scrape' = [scrape EXCEPT ![j] =
               IF read /\ ~force THEN Finish(s, "ok")
               ELSE IF robots = Unknown THEN Request(s, "robots")
               ELSE afterRobots(s, robots)]
        /\ UNCHANGED <<world, robots, session, read, upsets>>

\* Rules that cannot be read refuse nothing, and are kept as if they had been read.
robotsAllows(j, answer) ==
    LET s == scrape[j]
        rules == IF answer = "good" THEN world.refused ELSE {}
    IN  /\ s.at = "robots" /\ answer \in IF s.late THEN {"throws"} ELSE {"good", "throws"}
        /\ Upset(s, answer)
        /\ robots' = rules
        /\ scrape' = [scrape EXCEPT ![j] = afterRobots(s, rules)]
        /\ UNCHANGED <<world, session, read>>

\* A page or a payload is answered.  The 401 that starts a sign-in forgets the sign-in kept so far;
\* a product read is cached.
Answer(j, answer, priced) ==
    LET s == scrape[j]
        marked == [s EXCEPT !.trouble = @ \/ answer \notin {"good", "401"}]
        after == IF world.of = "ecg" THEN scrapeEcg(marked, answer) ELSE scrapeShopify(marked, answer, priced)
    IN  /\ s.at \in {"html", "pasted", "firefox", "jina", "js", "json", "page"} /\ answer \in Answers(s)
        /\ Upset(s, answer)
        /\ scrape' = [scrape EXCEPT ![j] = after]
        /\ session' = IF after.at = "password" THEN 0 ELSE session
        /\ read' = (read \/ after.at = "ok")
        /\ UNCHANGED <<world, robots>>

\* Mutant of unlockStorefront: the cookie is kept for the next scrapes and not carried by this one.
unlockForTheOthers(j, answer, priced) ==
    LET s == scrape[j]
        opened == answer = "good" /\ world.known = "right"
        marked == IF answer = "throws" THEN [s EXCEPT !.trouble = TRUE, !.error = Thrown(s)] ELSE s
    IN  /\ s.at = "password" /\ answer \in IF s.late THEN {"throws"} ELSE {"good", "throws"}
        /\ Upset(s, answer)
        /\ session' = IF opened THEN world.sign ELSE session
        /\ scrape' = [scrape EXCEPT ![j] = IF opened THEN Request(s, "js") ELSE afterJs(marked, "401", priced)]
        /\ UNCHANGED <<world, robots, read>>

\* The sign-in: a right password is answered with a cookie that is kept for the next scrapes and
\* carried by the rest of this one.
unlockStorefront(j, answer, priced) ==
    LET s == scrape[j]
        opened == answer = "good" /\ world.known = "right"
        marked == IF answer = "throws" THEN [s EXCEPT !.trouble = TRUE, !.error = Thrown(s)] ELSE s
    IN  /\ s.at = "password" /\ answer \in IF s.late THEN {"throws"} ELSE {"good", "throws"}
        /\ Upset(s, answer)
        /\ session' = IF opened THEN world.sign ELSE session
        /\ scrape' = [scrape EXCEPT ![j] =
               IF opened THEN Request([s EXCEPT !.cookie = world.sign], "js")
               ELSE afterJs(marked, "401", priced)]
        /\ UNCHANGED <<world, robots, read>>

\* Twenty seconds after the call.
Deadline(j) ==
    /\ Running(scrape[j]) /\ ~scrape[j].late
    /\ scrape' = [scrape EXCEPT ![j].late = TRUE]
    /\ UNCHANGED <<world, robots, session, read, upsets>>

\* The shop stops honouring the sign-ins it gave; whoever is being served meets the lock.
Relock ==
    /\ world.locked /\ world.sign <= MaxRelocks
    /\ world' = [world EXCEPT !.sign = @ + 1]
    /\ scrape' = [j \in Scrapes |-> [scrape[j] EXCEPT !.trouble = @ \/ Running(scrape[j])]]
    /\ UNCHANGED <<robots, session, read, upsets>>

\* An hour passes for what is kept.
Expire ==
    /\ \/ robots # Unknown /\ robots' = Unknown /\ UNCHANGED <<session, read>>
       \/ read /\ read' = FALSE /\ UNCHANGED <<robots, session>>
       \/ session # 0 /\ session' = 0 /\ UNCHANGED <<robots, read>>
    /\ UNCHANGED <<world, scrape, upsets>>

AllAnswers == {"good", "junk", "401", "403", "404", "500", "throws"}
Reply(j) ==
    \E answer \in AllAnswers :
        \/ robotsAllows(j, answer)
        \/ \E priced \in BOOLEAN : Answer(j, answer, priced) \/ unlockStorefront(j, answer, priced)

ScrapingNext ==
    \/ Relock \/ Expire
    \/ \E j \in Scrapes :
           \/ Reply(j) \/ Deadline(j)
           \/ \E elsewhere, force \in BOOLEAN : scrapeRug(j, elsewhere, force)

ScrapingSpec == ScrapingInit /\ [][ScrapingNext]_scrapingVars

-----------------------------------------------------------------------------
\* The studio's own store opens for whoever has its password: a scrape that met no trouble on its way
\* ends with the product, whether the shop is locked, the sign-in kept is one it no longer honours or
\* another scrape signed in, or forgot the sign-in, meanwhile (store-password.ts:15-16, index.ts:370-395).
OwnStoreOpens ==
    \A j \in Scrapes : LET s == scrape[j] IN
        world.of = "own" /\ (world.locked => world.known = "right") /\ ~s.late /\ ~s.trouble => s.at \notin Failures

\* "robots.txt for the target host was read once; every other outbound URL is vetted against it"
\* (index.ts:198).
OnlyAllowedPaths == \A j \in Scrapes : ~scrape[j].strayed
=============================================================================
