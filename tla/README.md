# Verification of the Serio Ludere catalogue

The catalogue is one long-lived Node process (Astro) in front of one Google
Sheet. The sheet is the database: products, collections, customers, settings and
an append-only log of likes and dislikes. The process keeps a snapshot of it in
memory, writes reactions and the owner's edits back through the Sheets API,
reads new products off suppliers' sites, puts their photos into Google Drive, and
learns of edits made in the sheet itself from a notifier. Three pages run real
programs of their own in the browser: the buyer's catalogue, the studio's product
form and table, and the studio's lists of customers and collections. There is no
transaction, no row identity except a row number, and every call may fail, time
out or land after its caller gave up. This directory models these parts in TLA+,
checks them with TLC on small instances and proves the central invariants with
TLAPS for instances of any size.

Paths below are relative to the repository; `lib/` is `src/lib/`, `api/` is
`src/pages/api/`, `scripts/` is `src/scripts/`.

## 1. Inventory

| Part | State | Operations | What is hard | What makes it correct |
|---|---|---|---|---|
| Catalogue cache, `lib/sheets/cache.ts` | snapshot, promise in flight, last failure, file on disk | `get`, `bust`, `refresh`, `restore`, `persist` | callers joining a load, a bust during a load, failures, cooldown, restart | one load at a time; a bust yields a later read; content never goes back; staleness is bounded |
| Reactions endpoint, `lib/votes/handler.ts` | guard set, limiter windows; in the cache: tally and vote deltas | `handleReactions` with `applyVote`, `discardVote`, `insertReactionRows` | memory is changed before the sheet; a refresh, a failure or a late landing in between; parallel duplicates | memory agrees with the log once nothing races; the log follows the answers |
| Rate limiter, `lib/votes/ratelimit.ts` | windows by key | `allow`, `wouldAllow`, `refund`, `prune` | refund into a later window, eviction, check and charge on both sides of an await | a failure burns no budget |
| Compactor, `lib/sheets/compact.ts` | none of its own; tab and archive | read, archive, rewrite, blank | no lock; crash between writes; two runs at once; late landing | no reaction is lost; no vote changes |
| Admin lock, `lib/admin/lock.ts` | promise tail | `run` | release on every path | mutual exclusion, order of arrival, progress |
| Studio edits, `lib/admin/write.ts`, `api/admin/**` | the tabs; what each browser shows | create, update, delete of products, collections, customers; the cascade | row numbers shift; snapshot outside the lock; stale pages; two-step deletes | what was compared is what is written; no edit is silently replaced; codes are unique |
| Page of collections, `scripts/admin/collections.ts`, `api/admin/collections/**`, `lib/admin/audit.ts` | rows on the page, text typed, requests, the AuditLog | list, save, create, delete | late and crossing answers, a conflict in the middle of typing | nothing is replaced unseen; the audit log tells the tab |
| Customers in the studio, `scripts/admin/clients.ts`, `api/admin/clients/**` | rows and switches on the page, requests | list, create, rename, pause, delete | the row read back by its number after the lock is gone | the page shows what the tab says |
| Product form, `scripts/admin/rug-form.ts`, `fetch-modal.ts` | link, fields, photos on screen, the fetch dialog, a request in flight | paste, fetch, cancel, retry, type, tick, clear, save | what was typed while an answer is awaited | the saved row is what was on screen; own stock keeps its own number |
| A product's row, `rug-form.ts`, `inline-row.ts`, `shopify.ts` | the row, and what each of four editors has of it | save, delete, rename, dropdown, retry of photos | four writers, whole-row writes under a version, lost answers | nobody tramples what they have not seen |
| Revalidation, `lib/votes/revalidate.ts`, `lib/admin/invalidate.ts`, `google-apps-script/onEdit.gs` | `lastBustAt`, throttle properties and trailing trigger | edit, trigger, notify, bust | debounce on both sides; a bust that failed or read too early | an edit is notified and read eventually |
| Health and monitor, `api/health.ts`, `lib/photos-health.ts`, `google-apps-script/monitor.gs` | the cache as health reports it, the last sweep, the script's saved state | request, sweep, check, second attempt, mail | restarts forget counts; runs cut short | trouble that lasts reaches the owner, recovery is noticed |
| Like buttons, `scripts/votes.ts` | pending taps, saved state, retry timer | tap, flush, answer, retry, beacon | a tap during a flush, a retry of what landed | what the screen ends on is the visitor's last intent |
| Catalogue page, `scripts/filters.ts`, `customer/product-dialog.ts`, `customer/search.ts`, `ui/paginate.ts` | tab, search, page, popup, history entries | tabs, menu, search, pager, popup, Back | going back happens later and is not awaited | screen, address and field never part |
| Catalogue view, `lib/sheets/parse.ts`, `lib/view.ts`, `lib/text.ts` | the rows as typed | parse, tabs, cards, slugs, order | spellings that share a slug, duplicates | a tab's count is what its filter shows; every rug is somewhere |
| Google connection, `lib/google/*`, `lib/admin/provision-sheet.ts` | stored grant, access token, refresh in flight, handshakes, the built sheet | start, callback, disconnect, refresh, provision | a refresh in flight over a new connection | what is stored is what was last chosen, but for a refresh that was under way |
| Spreadsheet set-up, `lib/sheets/provision.ts`, `upgrade.ts` | the tabs and their headers | the phases of a run | a run stops between calls | running it again repairs |
| Requests to Sheets and Drive, `lib/sheets/client.ts`, `lib/drive/client.ts` | ids of the tabs, width seen | request with retries, insert, product write | what was refused, what may have landed; a tab made anew | a write lands at most once |
| Scraping, `lib/scrape/*` | next slot per host, robots rules, sign-in, results | throttle, robots, password, fetch, ladder of readings | capped waits, aborts, deadlines, stale sign-ins | requests stay apart; the own store opens; robots.txt is obeyed; a form is one reading |
| Drive photos, `lib/drive/*` | files and folders, the product's row | upload, commit, retry, rename, delete | two systems, no transaction; a file is a photo by its name | a complete row has its photos; no photo twice; what stopped is finished |
| Cover photo, `lib/drive/transform.ts` | the photo's pixels | turn, clear the backdrop, frame | flood fill, rounding, corners | only backdrop goes; the rug is inside the frame |
| Studio session, `lib/admin/auth.ts`, `gate.ts` | the cookie, the revocation list | login, request, reissue, logout | answers that race for one cookie | who works stays signed in |
| Visit log, `lib/customer/visits.ts` | last seen, bounded | `recordVisit` | stamped before written, eviction, restart | one row per window, unless the buyer was forgotten |
| Buyers' gate, settings, exports, reports, exchange rates, prices and texts, markup, command-line scripts | | | see "Not modelled" | |

How they interact: pages and endpoints call `get()`; after an admin write or a
notification `bust()` is called; the reactions endpoint reads the cache, changes
its tally, inserts rows into the `Reactions` tab and undoes the change if that
fails; the cache's refresh reads that tab and replays deltas; the compactor
rewrites it. The admin endpoints share the sheet and the lock with nothing else.
A scrape fills the form, the form posts the row, the row's endpoint imports the
photos. The health endpoint reports the cache and the photo sweep to the monitor.

`PROJECT.json` lists every component with its status, every hazard with its line
and the properties that watch it, and for each definition the lines it models.

## 2. Modules

An action is one run of JavaScript between two awaits, one execution step of an
Apps Script, one thing a person does, or one effect on a service. A call is split
where it can be observed: sent, served or landed, answered. A clock reading is an
age that saturates above every threshold it is compared with. Variables marked
`history` are read by properties and by no guard.

| Module | Models | State in the code |
|---|---|---|
| `CatalogueCache` | `cache.ts` | `snap` = `this.snapshot`, `inflight`, `failAge` = now − `lastFailureAt`, `lastOk`, `disk` = `catalogue.json`, `reads` = loads sent, served, ended; `callers` = the awaits of `get`/`bust` |
| `RateLimiter` | `ratelimit.ts` | the `windows` map as a sequence in insertion order; operators only |
| `ReactionLog` | `parseReactions`, the read window, `insertReactionRows` | the tab as a sequence, newest row first; operators only |
| `Reactions` | `handler.ts` composed with the three above | `tally` and `deltas` = the cache's votes, `guards` = `pending`, `windows`, `log` = the tab, `orphans` = the deltas of inserts given up on |
| `VoteRegister` | abstract specification: one register per visitor and product | |
| `Compaction` | `compact.ts`, refines `VoteRegister` | `tab`, `archive`, `run` = the locals of each run, `late` = writes given up on |
| `AsyncMutex` | `lock.ts` | `tail`, and for each caller the promise it replaced, its own, and which are `settled` |
| `AdminSheet` | `write.ts` and the endpoints, on top of `AsyncMutex` | `sheet` = the tabs, `form` = what a browser shows, `pc`, `job` = what a handler is to write |
| `CollectionsDesk` | `collections.ts`, the collection endpoints, the audit rows | `page`, `typed`, `call`, `collections`, `audit` |
| `CustomersDesk` | `clients.ts`, the client endpoints | `desk`, `lines` = table rows, `ask`, `customers` |
| `AddForm` | the add form and its fetch dialog | `url`, `fields`, `strip` = photos on screen, `flight` = the request awaited, `dialog`, `manualFrom` |
| `ProductRow` | edit form, rename, dropdown and retry of one row | `row`, `form`, `title`, `menu` |
| `ReactionBuffer` | `votes.ts` in the browser | `buffer`, `saved`, `timer`, `posts` under way |
| `CataloguePage` | the buyer's page | `active`, `query`, `typed`, `page`, `rug`, `entries` and `at` = the history |
| `CatalogueView` | `parse.ts`, `view.ts`, `text.ts` | the two tabs; everything else is computed from them |
| `Revalidation` | `onEdit.gs`, `revalidate.ts`, `invalidate.ts` | `script` = executions, script `lock`, `sinceLast`, `pending`, `due` triggers, `sinceBust` |
| `HealthWatch` | `health.ts`, `photos-health.ts`, `monitor.gs` | what the cache and the sweep know, the script's run and its saved `state` |
| `GoogleConnection` | `connection.ts`, `handshake.ts`, `store.ts`, the three endpoints, `provision-sheet.ts` | `stored`, `access`, `inflight`, the handshakes, the sheets |
| `Provisioning` | `provision.ts`, `upgrade.ts` | the sheet's tabs and headers, `phase` of the run |
| `SheetsRequest` | both clients | the tab's id and width, what the client remembers, each call's attempts |
| `HostThrottle` | `throttle.ts` | the next free slot, the waits |
| `RobotsRules` | `robots.ts` | the lines read, the groups built from them |
| `Scraping` | `scrape/index.ts`, `store-password.ts` | robots, sign-in and result caches, where each scrape is |
| `Ladder` | `ladder.ts`, the adapters, `index.ts` | the values found so far, with their source and status |
| `Photos` | `drive/commit.ts`, `folder.ts`, `upload.ts`, `retry.ts`, the row's endpoints | folders and the files under each name, the row with its slug, what each request is doing |
| `CoverFrame`, `CoverPhoto` | `transform.ts` | the pixels, their transparency, the flood fill, the frame |
| `AdminSession` | `auth.ts`, `gate.ts`, login and logout | the cookie, the revocation list, requests under way |
| `VisitLog` | `visits.ts` and the buyers' sign-in | `seen` map, rows of the tab |
| `CatalogueCacheProofs`, `AsyncMutexProofs`, `ReactionsProofs` | proofs about the module they are named for | |
| `AdminSheetProofs`, `BrowserProofs`, `ServicesProofs`, `DriveProofs`, `StudioProofs` | proofs about the machines that `MCAdmin`, `MCBrowser`, `MCServices`, `MCDrive` and `MCStudio` run; the cover photo's and the tabs' are in `ServicesProofs`, the set-up's in `BrowserProofs`, the monitor's in `CatalogueCacheProofs` | |
| `MCCache`, `MCReactions`, `MCAdmin`, `MCAdminSheet`, `MCBrowser`, `MCServices`, `MCDrive`, `MCStudio` | values for TLC, and which machines share a run | |

`Reactions` extends `CatalogueCache` and its actions are cache actions with the
votes added, so `ReactionsImplementCache` (proved) carries every safety property
of the cache over. `AdminSheet` extends `AsyncMutex` in the same way
(`AdminImplementsLock`). `CoverPhoto` works with the frame that `CoverFrame`
computes; `ServicesProofs` proves about both.

Machines that share no state share a run: `MCBrowser` for example chooses one of
its four machines in the initial state and leaves the others where they start.
The states of such a run are the sum of those of its machines, not the product,
and a property of one machine is checked exactly as in a run of its own. Where a
parked machine has several initial states one is fixed; where a machine has
fairness, nothing that is fair is enabled where it is parked (`MCCache` and
`MCAdmin` say in their specification which fairness belongs to which machine).

Abstractions that matter:

- *Reactions*: the visitor's cookie, the like threshold and the wording of the
  response are left out. `Drained` makes continuations of a settled promise run
  before the next timer or network event, which is what the microtask queue does.
- *Compaction*: reactions wait until no compactor runs and no late write is left,
  because the module comment says "never while a buyer is active". A dry run
  writes nothing and the header of a new archive tab is left out.
- *AdminSheet*, *CollectionsDesk*: a version token stands for the row it hashes (no
  collisions); ids are compared exactly, the code ignores case; nobody types into
  these tabs meanwhile; a batch given up on has landed or never will. A row that
  changes and changes back while a save is under way is left out of `CollectionsDesk`.
- *ProductRow*: four cells stand for the columns: one that two editors have in
  common, one of the dropdown, one of the form, one of the photo import.
- *AddForm*: a field is whose it is (the page's, the studio's own text, none);
  photos are names. The photo picker by hand is left out.
- *Scraping*: what is read out of a page is a choice; *Ladder* is about that
  choice, and says where a value stands in the page, not how it is spelled.
- *RobotsRules*: a path is a sequence of characters, a pattern may have a star and
  an end; percent-encoding is left out.
- *Photos*: a photo is its place on the supplier's page, a file a photo under a name:
  `01-primary`, or a slug and a number (commit.ts:67-71). The add form numbers the
  photos ticked, under the slug of the name; a retry those of the page, under the
  row's slug (rug-form.ts:467-470, 935-937, retry.ts:91-101). Drive lists what it holds,
  folders are found by the name of the product. Left out: sizes, thumbnails, the copy
  of the first photo (nothing reads it), a product saved without photos or without an
  id, a page whose photos change, and a retry that ends before it writes: no row,
  no Drive, no source, a page that cannot be read or has no photos (404, 409, 422
  and 502, retry.ts:37-94). A row that always ends so stays pending.
- *CoverPhoto*: three kinds of pixel (backdrop, soft edge, rug); resampling
  belongs to a library and is external.
- *GoogleConnection*: a request to Google is one call that may fail.
- *CatalogueView*: a slug is a word and the number that made it unique.
- *HealthWatch*: one run of the script at a time; minutes pass between runs.
- *AdminSession*: hours; signatures and the password are left out.

## 3. Runs

| Run | Question | Bounds |
|---|---|---|
| `cache` | safety and liveness of `get`/`bust`/`refresh`; does lasting trouble reach the owner? | 2 callers, 2 load names, 1 edit, 1 restart, times of 1 tick; one fault at a time of five, any number of restarts of the watched site, 1 script run cut short |
| `reactions` | memory against log, log against answers | 2 requests, 2 visitors, 1 product, a page that gets and busts, 1 restart |
| `reaction_limits` | budgets and eviction | 3 submissions, 2 products, a map of 1 key that overflows |
| `reactions_live` | memory reconciles | 1 request slot used twice, a page |
| `admin` | unique codes, no lost update, everybody answered; nothing replaced unseen, the log tells the tab | 2 editors, 3 commits besides cascades; 3 requests of the page of collections, 2 texts, 1 change from elsewhere, 1 failure |
| `browser` | screen, storage and sheet settle; the buyer's page in step; own stock keeps its number; nobody tramples a row | 2 products, 2 posts, 2 taps, 2 faults; 4 cards, 2 collections, pages of 2, 3 history entries; 2 pasted links, 1 saved row, 2 photos; 3 requests about one row, 1 unheard |
| `services` | spacing of requests, robots, own store, one reading, edit read, connection as last chosen, repair by rerun | 4 callers on one host; robots files of 4 lines; 2 scrapes of a supplier of each kind and 1 fault; pages with every place of size, number or price; 2 edits, 1 admin write, 1 failure; 2 tabs, 2 consents, 1 restart; 1 stop of the set-up, from every header |
| `drive` | rows and files agree, no photo twice, imports finish; writes land once | 2 requests, 2 photos, 2 slugs, 2 imports and then retries one at a time, 1 fault, 1 edit of name or slug; 2 calls of 2 attempts, 1 change of the tab |
| `studio` | conserved history and refinement, sessions, visits, covers, tabs, customers | 2 compactors, 4 reactions, window of 2 rows; 2 requests in 8 hours, 2 logins, 1 restart; 2 buyers and room for 1; photos of 12 pixels; 4 products, 2 collections; 3 requests about 3 codes |
| `lost_delta` | is a 200 that writes nothing true? | expected violation |
| `admin_cascade` | does the cascade touch one name only? | expected violation |
| `customers` | is an answer about the customer asked about? | expected violation |

Why these bounds are enough to meet the interesting cases: two callers suffice
for join and for bust-during-load; with two load names a second load can start
while the first is still named by a waiter. Two visitors tell a count from a vote;
two requests are a race and a third submission reuses a window that a refund may
hit late. Four reactions of two visitors give two superseded rows below two
survivors, in a window of two. Three commits allow a deletion above, a stale
page and a third request that queues behind both. Two tapped products make a
mixed batch; a third history entry is one to go back from and one to land on.
Four callers fill the longest wait of the throttle, so that one is capped and one
behind it aborts. Four lines hold two groups of one rule each, in either order,
and one group of two agents. Eight hours pass two idle windows and one absolute
limit. Two buyers and room for one push each other out. Two photos and two slugs are enough for
a file to be taken for another photo (the second ticked alone is stored as `01-primary`) and
for one photo to be stored under two names. Twelve pixels have a border
and an inside. Every property has a mutant of the code (a missing `finally`, a
dropped version check, a tail blanked one row early, and so on) that TLC finds
under the same configuration.

`CHECK_DEADLOCK FALSE` is given where a bound (on submissions, reactions,
commits, requests) really ends the behaviour, or where a machine comes to rest:
a scrape that has ended, a set-up that is done.

### Fairness

- *Cache*: the clock and continuations run (weak); pages keep being requested,
  by `get()` alone (weak); a sheet asked again and again answers some day
  (strong). Loads end because `client.ts` aborts a request after its timeout.
- *Health*: minutes pass and a check under way goes on (weak); Apps Script starts
  the scheduled check again and again (strong, since runs may be cut short).
- *Reactions*: as the cache, and a handler whose insert has been answered or has
  timed out goes on. Guards such as `Drained` switch these actions off and on, so
  they are strong where the code's event loop only delays them.
- *Admin*: each request's next step under the lock happens (weak), by the same
  timeout. No fairness is given to editors: nobody has to press a button.
- *Like buttons*: an armed timer fires, a post that was sent is handled and
  answered, or gives up by its own timeout (weak). Nobody has to tap.
- *Notifier*: time passes, a load ends, an execution goes on, an armed trigger
  fires (weak). Nobody has to edit.
- *Set-up*: the operator runs it again as long as it is not done, and a run goes
  on (weak): the property is about rerunning.
- *Photos*: while calls are under way some call ends, and somebody presses Retry on a
  row that is pending (weak). The faults are bounded, so in the end one finishes.
- The other machines promise safety only and are given no fairness.

### What the violations show

1. `lost_delta`: a load started after a vote and served before its insert landed
   does not replay it, because `d.at >= startedAt` (cache.ts:144) compares with the
   start of the load; memory forgets the vote, and a later clear is answered 200
   with nothing written while the sheet says "like" (handler.ts:191).
2. `admin_cascade`: the other collections are said to survive untouched
   (collections/[id]/delete.ts:12); one saved between snapshot and cascade is
   overwritten.
3. `customers`: an answer reads its customer back by row number once the lock has
   been let go (clients/index.ts:74); a row inserted or removed meanwhile makes it
   somebody else's, with their private link.

### Seen while modelling, without a run

Each of these was met with a definition of its own, kept in the module where it
is named, or follows from the model by hand.

*Reactions and admin.* A refresh that already read a vote replays its delta, so one
visitor counts twice until the next refresh (cache.ts:143). Limits are called exact
on one instance (docs/ADR.md:423), but two requests waiting for one refresh both
write on one remaining unit. Ids are called unique (admin/write.ts:758), but two
creates decided on snapshots older than either insert write one id. A body that
names one product twice is decided by the order of its rows, where sheets/write.ts:63
says that order does not matter. The compactor compares trimmed cells, the parser
also drops a row whose reaction is no known word: a mistyped newest row would be
kept and the valid one below it archived.

*Like buttons.* `BufferHoldsNewestTap` fails: votes.ts:190-191 says a newer tap wins, but
of two posts that both fail the one that fails first is put back and stays, though it
is the older. The success of an older post repaints over
a newer tap (:319-325); a refused mixed batch leaves a lie on screen (:306-312);
two tabs share `localStorage` (:73-83).

*Revalidation.* `TrailingGoesThrough` fails: the trailing notification "always goes
through" (revalidate.ts:4), except where the site coalesces it with another bust.

*Google.* `OneSheet` fails: provision-sheet.ts:8-9 promises one spreadsheet, but two tabs that
ask while none is recorded both build one, and the later replaces the earlier. A refresh in flight undoes a
disconnect, and replaces a new connection by the old one (connection.ts:113-120):
`OnlyALateRefreshUndoes` says that nothing else does; the "very next request" after a connect may still use
the old token (connection.ts:99); a disconnect that awaits the revocation wipes a
connection made meanwhile. `RunTwiceIsRepair` fails for a stop inside the upgrade or the badge
repair (provision.ts:11-12). catalogue.json does not name its sheet, so after a change
of spreadsheet a copy of the old one may be served if the first load fails.

*Photos.* `NameIsItsPhoto` fails (retry.ts:15-16): of a product whose first photo was not
ticked, `01-primary` is the second one, and a retry takes it for the first, so the row
is marked complete without a photo of the page, and has another under two
numbers. Where the row's slug is not the one the form makes of the name (`uniqueSlug`,
rugs/index.ts:87, or typed since), a retry uploads the photos again beside the old ones.
`NoOrphanedFiles` fails (rug-form.ts:931-932). Overlapping retries are no
no-op as retry.ts:13-16 has it, nor is one after a rename (folder.ts:146-148); a delete
refused with 409 leaves a complete row without photos (delete.ts:55). `removeBackground`
drops the EXIF orientation.

*Scraping.* `HostGap` fails when a wait is capped (throttle.ts:1). `OnlyAllowedPaths` fails:
the store an ecarpetgallery link was copied from is asked without being vetted, where
index.ts:198 says every URL is. A
robots.txt cut off by the deadline is cached for an hour as one that allows all; a
slow read overwrites the result of a forced, newer one; a network error while
signing in is reported as "refused". `FoundWasStated` fails: `fillBlanks` drops the mark of
a value that was inferred (ladder.ts:127-137, against types.ts:33-36).

*The product form.* `FetchedHasTexture` fails (rug-form.ts:904). Buttons are said to be
disabled meanwhile (:5-6); Clear and Delete are not. A cancelled fetch still fills the
form, and reopens the dialog if it fails; Retry fetches whatever link stands in the
field by then. After an answer without a body manual entry has no supplier, and it
keeps the previous product's fields. Ctrl-S saves behind an open dialog.

*The row.* `PendingStaysVisible` fails (rug-form.ts:1022 against dto.ts:111), as does
`UnsavedWorkGuarded` (rug-form.ts:242-243) for a swap of photos; after a lost answer
inline-row.ts:243-244 is not so.

*Session, visits, lists.* A late answer of an old session overwrites the cookie of a
new login. `OldestDropped` fails: visits.ts:41-42 drops in order of first insertion. An
append that fails loses the window. `SlugsUnique` fails for three rows
(docs/ADMIN_SPEC.md:435, docs/ADR.md:107). `SwitchFollowsServer` fails (clients.ts:449-450) when
a rename crosses a toggle. The confirmation of collections.ts:264-267 says products
keep the name, which delete.ts detaches, and the page reads `products` of an answer
that has `detached`; Enter bypasses disabled buttons; redrawing the rows loses what is
typed in another panel. filters.ts:9-11 fails when Back races a press.

*Health.* A run that ends between its mail and its record swallows the next change of
state. health.ts:30-31 expects the monitor to speak of the rates' source, which
monitor.gs does not check.

## 4. Proofs

| Theorem | Says |
|---|---|
| `CacheTypeCorrect`, `CacheInvHolds` | types and the inductive invariant of the cache |
| `BustYieldsLaterReadHolds`, `StalenessBoundHolds`, `ContentNeverGoesBackHolds`, `NeverBlankAgainHolds` | the cache's promises |
| `ReactionsImplementCache` | every step of the reactions endpoint is a step of the cache or leaves it alone; with it `ReactionsBustYieldsLaterRead` and `ReactionsContentNeverGoesBack` |
| `ReactionsTypeHolds`, `GuardExclusiveHolds` | types of the reactions endpoint; the guard set is exact |
| `MemoryMatchesLogHolds` | wherever nothing raced, memory holds the votes and the counts of the log |
| `LogFollowsAnswersHolds` | the log says what the visitor was last told |
| `FailuresBurnNoBudgetHolds`, `ProtectedSurvivesHolds` | a live window counts at most the writes that took a unit of it and did not fail; a full map never forgets the live window of a protected key |
| `CompactionInvHolds`, `HistoryConservedHolds`, `CompactionImplementsRegister` | compactors that overlap, stop or land late lose no reaction and change no vote: they implement `VoteRegister` |
| `LockInvHolds`, `LockExclusiveHolds`, `LockInOrderHolds` | the promise chain is a fair mutex |
| `AdminTypeCorrect`, `CodesUniqueHolds`, `NoLostUpdateHolds` | the tabs keep their form, no two customers share a code, and a row goes away only by a request from a page that showed it, or by a cascade |
| `AdminImplementsLock`, `AdminInvHolds`, `CheckedStillThereHolds`, `AdminLockExclusive` | the endpoints use the lock rightly, and what was compared is still so when it is written |
| `NothingReplacedUnseenHolds` | what the page of collections replaces is what its author had on screen |
| `AuditTellsTheTabHolds` | the AuditLog, read from its start, is the tab of collections |
| `DeskInStepHolds`, `CustomersInvHolds` | a customer nothing went wrong about is shown as the tab has them |
| `NothingTrampledHolds` | nobody who writes the row of a product takes away what they had not on screen |
| `OwnStoreNeverNumberedHolds` | a product of the own store never gets the next free number |
| `ScreenSettlesHolds`, `BufferInvHolds` | what the like buttons end on is the visitor's last intent, on screen and in the sheet |
| `PageInStepHolds` | screen, address, search field and popup of the buyer's page say the same |
| `WritesLandOnceHolds`, `RepairsItselfHolds`, `RequestInvHolds` | a request to Google lands once at most, and mends what the client remembered wrongly of the tab |
| `RowIsTrueHolds`, `NoPhotoTwiceHolds`, `PhotosInvHolds` | a complete row has the photos its import was asked for, and an import that saw what was there sends none twice, but for numbers and slugs that differ |
| `SlotsApartHolds` | requests to one host that waited as long as they had to are a gap apart |
| `FormIsOneReadingHolds` | a form is filled from one reading of a page, with all that is there |
| `VerdictIsTheStandardsHolds` | what the parser and the choice of a rule say of a path is what the lines of robots.txt say |
| `TabsMatchTheWallHolds` | whatever the owner types, every rug is under a tab, and a tab counts the cards that carry its slug |
| `OwnStoreOpensHolds` | a scrape of the own store that met no trouble does not fail |
| `OnlyALateRefreshUndoesHolds` | what is stored is the grant last connected, or nothing after a disconnect, or what a refresh under way then wrote back |
| `WorkStaysSignedInHolds`, `LoggedOutStaysOutHolds`, `SessionInvHolds` | who works stays signed in; a session logged out of is refused |
| `OneRowPerWindowHolds`, `VisitInvHolds` | a second row in a window means that the process forgot the buyer between the two |
| `FrameEnclosesTheRug`, `PlainCropIsInside` | the 2:3 frame holds the rug's box in every photo of every size, and is inside the photo where no rug is told |
| `RugInFrameHolds` | the frame of every cover holds what was left of the rug |
| `ClearsTheBackdropOnlyHolds` | a cover lost the backdrop that is joined to the photo's border, all of it, or nothing |
| `LockNeverIdleHolds`, `NeverStuckHolds` | nobody waits for a lock that nobody has; while a request of the admin is open, one can go on |
| `BufferHasATimerHolds` | a tap in the buffer has a timer that will send it |
| `NothingForgottenHolds` | an edit the site has not read has a handler or a trigger that will tell of it, unless it was given up |
| `EndsRepairedHolds` | a set-up that says it is done has left the sheet complete |
| `LookupUnderWayHolds` | who waits for the photos folder waits for a lookup that is under way |
| `MailKeepsRecordHolds` | what the owner was last told is the state the monitor goes by |

They hold for any number of callers, visitors, products, requests, editors and rows,
and assume only the named ASSUMEs of the modules: the constants of the code are
numbers of the right kind (`CacheConstants`, `LimiterConstants`, `LogConstants`,
`SessionConstants` and so on), the sets that are counted are finite, and the admin's
tabs start with rows of the right form and distinct customer codes
(`AdminConstants`). Invariants marked with a name ending in `Inv` below are
inductive; none of the properties the runs check is by itself. The larger
ones were model-checked as invariants of their machines before they were proved.

*Cache.* "A bust yields a later read" needs that
the load a bust waits on was sent after the call, which needs that there is one
load (`SingleFlight`), that whoever waits waits on it (`WaitersOnInflight`) and
that nothing holds an edit before it was made (`OnlyRealEdits`). Content cannot
go back because a served load is at least as new as the snapshot it will replace
(`ServedReadsAreNewer`). Staleness follows from the age of what a load lacks
(`MissingEditsAreYoung`).

*Reactions.* The proof has layers, each using the ones before. The cache's own invariant
carries over. `ControlInv` adds to exclusiveness that an insert in flight belongs to a
request that is writing; a decision takes only free pairs, an answer gives back
its own and, by exclusiveness, nobody else's. `Shape` says what the deltas of a write
are: those of its batch, in memory and in the replay log, one per product. That needs
bodies that name no product twice, which is what the browser's buffer sends (one
intent per product, `votes.ts`); the endpoint's schema would accept more.
`AnswersInv` says that an insert that landed is on top of the log unless an insert
given up on came after it, and that what was answered stands until another insert of
the pair lands. Trying to prove it without the exception showed that it fails: an
insert given up on may land over a later write that is still in flight, and the
answer of that write is then not what the log says. No run of two requests meets
this; the model now marks such a pair "overtaken". `MemoryInv` says of the pairs
that are at rest that a load in flight will not replay a delta of theirs
(`YoungFlies`, `QuietNotReplayed`) and was given what the log still says
(`QuietRowsCurrent`); of a write that nothing overlapped, that it found what the log
said and left what it wrote (`CalmVotes`); and that the likes counted are the votes
held (`LikesCount`).

*Budgets.* `LimitInv` says that the map has one window per key (`MapOK`), that no live
window counts more than the ledger has entries of its key (`Within`), and that the entries
of a write in flight are of its own keys (`Numbered`). A charge raises every key of the
request by one and a refund lowers it by one, which holds key by key only because a request
names no key twice (`KeysFacts`, from the deduplicated products of handler.ts:114). A
window that is over drops out of the claim and so do its entries, and a refund that comes
late finds a younger window, an absent one or a count of zero: in each case no more is
counted than before. Pruning returns a part of the map that has all live windows of
protected keys (`PruneFacts`), so `ProtectedSurvives` needs no more than `MapOK`.

*Compactor.* A plan stays a plan for the tab as it is (`OnPlan`), because what a
concurrent run or a late write does to the tab leaves its survivors alone, and the
survivors decide every vote. A late call is then `Harmless`: it writes the same
survivors once more, or blanks what lies under them.

*Lock.* `LockInv` says that promises are numbered without gaps, that each caller
waits for the promise just before its own (`Chained`) and that a promise settles
only through its owner (`OwnPromise`). Then the holder is the oldest caller.

*Admin.* `AdminInv` adds that a request that has compared its row holds the lock.
Only such a request writes the sheet, so nothing moves between comparison and
write for anybody but the writer, who leaves. `EditsInv` says what every job in
the queue carries: a replacement or deletion has the version its editor has on
screen, a creation a row of its tab, and a changed row keeps its id. With `AdminInv`
every write is then a `GoodWrite`: what it takes away is what its editor saw, and a
customer is added only where its code was looked up again under the lock.

*Collections and customers.* On the page of collections what is typed lies over the row
as the page has it, whatever lists and answers arrive meanwhile, and a request carries
the version of what its author had on screen (`DeskInv`). On the page of customers there is,
about a customer nothing went wrong about, one edit under way at most and one birth at most; an
answer is a row of the tab; and the line of the table that a request will repaint is
still theirs (`Kempt`, `NamesRight`).

*Audit of the collections.* A change is decided before the lock, from a snapshot, and what it
says was there is what goes into the AuditLog (`LogInv`). It is right because the version a
save was sent with is either the row of the tab, and then the snapshot's, or gone, and then
the write is refused (`ChangeOK`). The second half needs that a row which is gone never comes
back, though saves of it may still be on their way: no two texts are one, unless typed over
the same row, and whatever would make a row again is made out of it or of rows that are
gone too (`Sane`; `Past` is the set of them). So the set closes over every chain of
edits under way, and the row that was left behind is reached by none. The log is read by
taking the newest entry about a field; one more entry moves only its own (`Entered`).

*Row and add form.* The form's version is always that of the row it shows (`FormShowsItsVersion`), and the
server writes only over the version it is sent (`SavedOverItsVersion`): then what is replaced
is what its author saw (`NoWriteTramples`). In the add form the number is in the field
only as one the form allocated, and never beside the own store (`FieldsInv`).

*Like buttons.* For a product that is listed and whose taps never travelled side by side,
one post at most carries it, and the last word is in the buffer, in that post, or known
to everybody (`InStep`).

*Buyer's page.* As long as nothing was pressed in a hurry there is one popup at most, one way
back at most is still to go, and both lead to the catalogue with the collection that is
chosen (`NothingAstray`); for every way back there is an entry to go to (`HistoryHolds`).

*Requests.* Nothing has landed of a call before its batch is answered, nor when the
answer is a refusal (`LandedSoFar`). While the owner leaves the tab alone, what a call
read of it is true of it, so its second batch goes to the right id and into a grid
that is wide (`TrueUnlessTampered`).

*Photos.* What an import knows is so: its folders lie in one another, the photos it reused
or sent are there (`Sound`), and nothing is deleted before a delete reaches Drive. A file has its
photo's number and the slug of the form, and so has what is being sent, but for what
`skipped` and `renumbered` remember (`Named`). While
every import saw what was there, only one sends at a time, and no file has a name
it has yet to send (`Once`).

*Throttle, scrape, Google.* Reserved slots are all at least a gap before `next` (`HeldBeforeNext`), so a new
one is a gap behind each of them (`HeldApart`); waking, giving up and time move none.
A scrape of the own store can still sign in or carries the sign-in that the shop
honours, and has read the product before it asks for the page (`OnItsWay`). What
is stored, and what is being refreshed and would be written back over it, is the
last choice or the grant whose refresh it met (`GoogleInv`).

*Reading of a page.* The rungs read a side of a rug from a text with both or with neither
(`SidesTogether`, from the assumption that no rung has a side by itself), and every parser
gives both or none. So both are blank together, and filled together (`LadderInv`).

*Robots file.* After every line the groups name whom the lines asked for, the last group
whom a rule on the next line would be addressed to, and the rules kept for a name are those
addressed to it (`Agrees`); a run of names is one behind which no rule has come (`RunIs`).
The folds are unfolded to functions of the sets of places folded, shown to exist and to go
place by place (`FoldRuns`): the group names heard so far leave the rules of all that name us
best (`BestOf`), and the rules weighed so far the longest that matches (`VerdictOf`).

*Tabs.* Names and slugs go into every list by the same loop, which adds what is not there
yet; such a list holds what was added, once (`AddAllAdds`, `AddEachAdds`). The tabs and
the cards compute slugs from different names, as shown and as typed, which makes no
difference (`ShownUnderItsSlug`), and the studio's order, matched exactly or loosely, loses
no slug of those present and invents none (`OrderedSlugs`).

*Session and visits.* Every token of a session has one absolute limit (`OneLimit`), and the
cookie is not older than `REISSUE_AFTER` before anything that was answered or
will be answered without a new one (`CookieIsRecent`); a session is on the revocation
list until its limit if it was logged out of. What the process remembers of a buyer
is no older than the rows since it last forgot them (`RowsAreRemembered`).

*Frame.* The frame's sides are roundings of each other. `StretchGrows` says a side made
longer to reach 2:3 is not made shorter by its rounding, `MarginNatural` that the margin
is not negative, and `PlaceCovers` that a stretch placed around the middle of a
shorter one, then pushed back into the photo, still covers it. `FrameInv` adds what the steps before the
crop guarantee it: the crop comes last in every plan, the photo has a size, and the box of
the rug is inside the photo.

*Flood fill.* `FillInv` says that whatever was cleared is joined to the border, and that a
cleared pixel which is no longer in the queue has no plain neighbour that was not cleared:
with an empty queue what is cleared is closed. `EdgeFacts` says the reference the run
compares it with is the least closed set: it grows turn by turn, and a turn in which it
grows adds a pixel, so it has stopped after as many turns as there are pixels.

*What progress rests on.* That something happens in the end needs fairness, which is out of
the prover's reach; that nothing is left which no step would ever move is safety, and is
proved for every instance where the runs check the progress itself on a small one. A
promise of the lock that is not settled is a caller's, and the settled ones are the first
(`FirstSettled`, `EveryPromiseOwned`), so the first one that is not settled is its
holder's: `NeverStuck`, under `AdminRequestsAnswered`, adds that a request is in the queue
from its call to its answer (`InQueue`). `BufferHasATimer` is under `TapsSettle`.
`NothingForgotten` is under `EditIsRead`: `TRAILING_PENDING` stands for a trigger that is
armed (`FlagIsTrue`), so a handler that leaves the telling to it leaves it to somebody.
`EndsRepaired`, under `RerunRepairs`, follows the steps of a run: which headers and rows
are right when it has got so far (`HeadersOK`, `RowsOK`). `MailKeepsRecord`, under
`OwnerIsTold`, must allow for a run that ended between its mail and its record, which
swallows the next change (section 3). `LookupUnderWay` is under `ImportFinishes`. Of the
cache, `WaitersOnInflight` in `CacheInv` says as much for `CallsSettle`.

Induction over data is not available as a rule, since the library's induction theorems
take an operator. Where a recursive function had to be reasoned about (the newest row
of a pair, the deltas replayed over a tally, the survivors of a plan) it is written over
`0..n`, its existence is proved once from partial iterations, and a property of it is
proved by taking a least counterexample (`WFMin` with `NatLessThanWellFounded`).

Only model-checked:

- everything of liveness, which is out of the prover's reach (what it rests on is proved);
- which paths a pattern matches: `VerdictIsTheStandards` is proved for any set of matching
  pairs, and the run computes them with the translation of `patternMatch`.

`GuardExclusive`, `LockExclusive`, `CheckedStillThere`, `LoggedOutStaysOut`,
`ProtectedSurvives`, the seven invariants progress rests on and the type invariants of the proved modules are proved and have no run.

## 5. Not modelled

| Part | Why |
|---|---|
| Buyers' gate, `lib/customer/auth.ts`, `gate.ts` | a pure check of a signed cookie against the customer's row; when a buyer is signed in is in `VisitLog` |
| Settings, exports, reports | reads that build a report, and writes of one key under the admin lock, without a version; nothing they promise takes two steps |
| Prices, currency and text helpers | pure functions covered by unit tests; what slugs do to each other is in `CatalogueView` |
| Pages and components | markup around the endpoints |
| Exchange rates, `lib/rates.ts` | a single-flight cache simpler than the catalogue's; during an outage it asks at every request, where rates.ts:3-4 says once per window |
| Command-line scripts | one-off operator tools over modules that are modelled |
| `backupSheet`, age of the rates, two runs of the monitor at once | the script's weekly copy has no reader |
| Bearer check of `/api/revalidate` | a comparison with a secret |

Left for whoever goes on, in this order: an abstract specification of the product's row that `ProductRow` and
`AdminSheet` both implement; the composition of `Photos` with `ProductRow`, which meet
only in the retry today; two runs of the monitor at once.

## 6. How to run

    tlc -workers 2 -config MCCache.cfg MCCache.tla
    tlc -workers 2 -config MCReactions.cfg MCReactions.tla          # also MCReactionLimits, MCReactionsLive, MCLostDelta
    tlc -workers 2 -config MCAdmin.cfg MCAdmin.tla
    tlc -workers 2 -config MCAdminCascade.cfg MCAdminSheet.tla
    tlc -workers 2 -config MCBrowser.cfg MCBrowser.tla
    tlc -workers 2 -config MCServices.cfg MCServices.tla
    tlc -workers 2 -config MCDrive.cfg MCDrive.tla
    tlc -workers 2 -config MCStudio.cfg MCStudio.tla
    tlc -workers 2 -config MCCustomers.cfg CustomersDesk.tla
    tlapm CatalogueCacheProofs.tla                                   # and the other *Proofs modules
