# DNSARC in TLA+

DNSARC is an authoritative DNS service: users manage zones and records in a web
panel, an API server writes them to PostgreSQL and announces each change on a
Redis channel, and DNS servers answer queries from a record cache and a Bloom
filter of active zones that those announcements keep up to date. API and DNS
server are one Go binary with two commands, each deployed with two replicas.

This directory holds TLA+ modules of the parts that are hard to test, the TLC
configurations that check them on small instances, and TLAPS proofs of their
safety properties for every value of the constants. `PROJECT.json` lists the
runs, the mutants that show each property can fail, the source lines behind
each definition, the findings, the hazards and the theorems.

    tlc -workers 2 -config MCRecordCache.cfg MCRecordCache     # a run
    tlapm RecordCacheProofs.tla                                # the proofs

## 1. Inventory

| Component | Source (under `backend/internal/` unless noted) | State | Operations | Modelled by |
|---|---|---|---|---|
| Record cache | `dns/cache.go` | LRU of record sets by zone name (30 min), singleflight calls | `GetRecords`, `InvalidateCache` | `RecordCache`, `ZoneReads` |
| Zone filter and subscriber | `dns/server.go` 60-128, 401-441 | Bloom filter pointer, `pendingRebuilds`, `rebuildTimer` | boot fill, `zone_create`, `zone_delete`, rebuild | `ZoneFilter` |
| Zone and record handlers | `handlers/zone.go`, `handlers/dns_record.go`, `models/` | tables `zones`, `dns_records` | create, delete, update, list, get | `ControlPlane`, `ZoneTables` |
| Zone checker | `api/server.go` 263-316 | a goroutine per inactive zone | `check`, `checkAndUpdateZone` | `ControlPlane` |
| Event channel | `event/event.go`, Redis | none: at most once, nothing kept | `PublishEvent`, subscribe | part of `RecordCache`, `ZoneFilter`, `ControlPlane` |
| DNS query handler | `dns/server.go` 134-262, 306-399 | none of its own | answer a query, also by OpenAI for TXT prompts | `QueryHandler` |
| TXT splitting | `dns/server.go` 443-471 | none | `splitTXTRecord` | `TxtSplit` |
| Authentication | `interceptors/auth.go`, `services/jwt.go`, `handlers/auth.go`, `api/server.go` 166-254 | table `users`, tokens of 24 h | interceptor, OAuth callback, `WhoAmI` | `Session` |
| Frontend session | `frontend/app/connect.ts`, `stores/auth.ts`, loaders of the routes | token in local storage and in each tab | `signIn`, `signOut`, redirects | `Session`, `AuthMessages` |
| Frontend pages | `frontend/app/routes/dash`, `components/dialogs` | React Query's cache, forms, dialogs | lists, create, edit, delete | `Panel`, `ZonesPage`, `ZonePage`, `PanelPage`, `ReactQuery` |
| Connections, command line, images, manifests | `database/`, `cmd/`, `k8s/` | none | start | not modelled: I/O at start |
| Generated code | `frontend/gen`, `backend/gen` | none | messages, service tables | `ApiMessages`, `AuthMessages`; the Go side not |
| Unrouted pages | `frontend/app/routes/dash.tsx`, `routes/zone.tsx` | | | not modelled: in no route |

### How the components interact

    browser --RPC--> API handlers --statements--> PostgreSQL <--read-- zone checker (5 min)
                        |  goroutine after the commit                     |
                        +------------> Redis channel "event" <------------+
                                             |
                                        subscriber of each DNS server
                                  record events |        | zone_create, zone_delete
                                     InvalidateCache    AddString, rebuild (timer, counter)
                                             v              v
    resolver --query--> query handler --> record cache   Bloom filter
                                             |              |
                                             +-> PostgreSQL <-+

### What is hard here

- **Order and loss.** Each change is published by a goroutine of its own, after
  the commit and outside of it. Announcements overtake one another and the
  reads they are meant to invalidate; they are lost when the API process dies,
  when `Publish` fails (it is only logged), or when nobody is subscribed.
- **State used after it was read.** `GetRecords` stores rows read before an
  invalidation. A rebuild swaps in a filter made from an earlier read. The
  checker writes a row it read a DNS lookup ago. `CreateDNSRecord` inserts for
  a zone that may be gone.
- **Data races.** `pendingRebuilds` is written by the subscriber and by timer
  callbacks; the Bloom filter's bits are written without a lock by the boot
  goroutine and the subscriber. The mutex covers only the pointer assignment.
- **Partial failure.** Every statement may fail, the two deletes of a zone are
  one transaction, and the process may die between any two steps.
- **Retries.** The checker repeats its checks, in each of two replicas, with
  no mark on the rows that a check is under way.
- **Late answers in the browser.** A fetch may have read before the change that
  invalidates it; an answer may come when another dialog is open, another page
  is shown, another token is in the store, or another tab has signed out.

What makes each component correct:

- record cache: a query is always answered, with one record set of the zone,
  never from the future and never older than an answer sent before it came;
  staleness has a known cause and ends within 30 minutes;
- zone filter: an active zone is found, or there is a known reason why it is
  not; every deletion is followed by a rebuild, which may fail to read the zones;
- control plane: deleting a zone deletes its records, all or nothing; what is
  announced is what was committed; deleted rows stay deleted; delegated zones
  become active; one active zone per name;
- query handler: every query is answered, once if its name has a zone; what
  exists is not denied, and what is answered exists;
- session: a tab acts for the user it shows, an email has one row however
  callbacks race, a valid token is not lost to a failure, and redirects end;
- pages: the list shows what the page was told has succeeded and never goes
  back, and an edit goes to the row it was typed for.

## 2. Modules

### `RecordCache` — `dns/cache.go`

The state is that of one DNS server process and its surroundings. `rows[z]` is
the version of zone z's record set in the database (each commit makes a new
one), `vacant[z]` the versions at which the zone has no record, because
`GetRecords` caches no empty set (cache.go:51). `cache[z]` is the LRU entry.
The singleflight call of a zone is `stage[z]`, `held[z]`; goroutines that
answer queries are `pc`, `asked`, `answer`.

| Action | Code |
|---|---|
| `Commit`, `Lose` | a change made by the handlers of the API; an announcement nobody hears |
| `InvalidateCache` | the subscriber at server.go:419 and :424, `cache.Remove` |
| `Expire` | the entry's 30 minutes, or eviction at 1,000,000 entries |
| `Arrive`, `Lookup`, `Join` | cache.go:31-38: first look, then `group.Do` |
| `Recheck`, `Read`, `Add`, `Return` | the call's function, cache.go:40-54, and its end, at which singleflight releases every waiter in one critical section |
| `Reply` | the handler writes the response |

Commits, announcements and all steps of all goroutines interleave. The query
handler passes a context that is never cancelled, so no query leaves a call.

`ZoneReads` is the abstract specification: what `GetRecords` promises its
callers, without cache, calls or announcements. `RecordCache!ImplementsZoneReads`
is the refinement; the mapping only forgets where a goroutine is between
arriving and being answered.

### `ZoneFilter` — `dns/server.go`

A Bloom filter is the set of names put into it. False positives are left out:
a name found by mistake costs one database read that finds nothing, so missing
names are what matters. `AddString` has two steps, because it reads and writes
back words of the bit set without a lock: names that another adder added in
between may be undone (`EndAdd` chooses which). The pointer that an adder uses
may be to a filter that a rebuild has replaced (`detached`). `pendingRebuilds++`
is a read and a write, with resets by callbacks in between; what the subscriber
then decides on is what it wrote or what it reads back. Data races are thus
choices over what the build can do.

| Action | Code |
|---|---|
| `BootLoad`, `BootBeginAdd`, `BootEndAdd` | the goroutine of `NewServer`, server.go:86-97 |
| `ReceiveCreate`, `SubEndAdd` | server.go:420-422 |
| `ReceiveDelete`, `StoreCount`, `Decide`, `Arm` | server.go:423-437 |
| `Fire` | the timer's callback starts |
| `Load`, `Swap`, `Reset` | `rebuildBloomFilter` and the reset after it, in the subscriber or a callback |
| `Activate`, `Announce`, `Delete`, `Lose` | the API and the channel, as this process sees them |
| `Restart` | the process dies and starts again |

`reasons[z]`, `recent[r]`, `owed` and `missed` are history variables: they guard
nothing. `owed` is a deletion handled since the zones were last read with success;
`missed` that a rebuild for it could not read them, which ends that rebuild
(server.go:114-117) and is repeated by nobody until the next deletion.

### `ControlPlane` — `handlers/`, `api/server.go`

A handler is a sequence of statements (`pc[h]`), with other handlers, other
replicas and crashes in between. `DeleteZone`'s transaction locks the zone row
after the first delete and the records after the second (`LockedZone`,
`LockedRecord`): writers wait, readers see what is committed, and both deletes
take effect in `CommitDelete`. `Fail` is a statement that fails, with the
rollback. A statement or COMMIT that takes effect although its answer is lost has
no action of its own: the tables are changed, the request is over and nothing is
announced, which is where the statement and then `Crash` lead. A request bears a number, `no[h]`, with which the announcement can be
matched to the change; the number is not in the code and guards nothing.

| Action | Code |
|---|---|
| `CreateZone`, `Refuse` | zone.go:28-54 |
| `FindZoneToDelete`, `DeleteZoneRow`, `DeleteZoneRecords`, `CommitDelete` | zone.go:97-116 |
| `FindZone`, `InsertRecord` | dns_record.go:42-67 |
| `FindRecord`, `UpdateRecord`, `DeleteRecord` | dns_record.go:122-145, 159-167 |
| `StartPublish`, `PublishEvent` | the goroutine a handler starts last, and event.go:27-38 |
| `Check`, `LookupNS`, `Activate`, `AnnounceZone` | `startZoneChecker`, `checkAndUpdateZone` |
| `Delegate` | the owner of a name at the registrar |
| `Crash`, `CrashChecker` | a process dies |

`CreateZone` can only refuse: `First` returns `ErrRecordNotFound` when no active
zone has the name, and that error is returned (see the findings). Zone rows are
therefore those the database holds at the start, from earlier versions of the
program; `Init` allows every such table. A record belongs to the zone row whose
id it bears; `DeleteZone` removes records by user and zone name (`SameKey`), so
rows of one user and name share their fate, and the run has two such rows.
The death of a process is modelled goroutine by goroutine, which allows more
than the code does: one handler of a process may die and another live on.

`ZoneTables` is the abstract specification: what the API promises of its tables
and announcements, without requests, statements and goroutines. A deletion is
one step that takes the zone and all records of its name and owner; only records
that came after its transaction had deleted the others may stay (`late`). Each
change leaves one announcement of its kind and name, under a number of its own,
that is published or dropped once; nothing else is announced as a change.
`ControlPlane!ImplementsZoneTables` is the refinement. The mapping has two parts:
a zone is being deleted while a handler is at `"commit"` (`Deleting`), and
announcements are owed by handlers that have changed the database and by the
goroutines they have started (`Owed`), so that starting one is a stutter, and so
is every statement before the one that takes effect.

### `QueryHandler` — `dns/server.go` 134-262, 306-399

A goroutine per query goes through the handler (`pc[q]`); records and filter
change between its looks at them. Records are kept under the zone they were created
in, `db[<<z, n>>]`: `UpdateDNSRecord` can rename a record and leaves its zone as it
is, so that `Files` may have a name under a zone that is not its `ZoneOf`, where no
query for it looks (`Has`). `GetRecords` is what `RecordCache` shows it
to be: it returns the zone's records of some moment (`past`), or an error. The
filter is any set of zone names, so that it includes what a Bloom filter finds
by mistake, also the empty name, which the handler asks for when a name has no
registrable domain. Names, types and addresses are members of small sets, and
`ZoneOf` stands for `publicsuffix.Domain`. Names are ASCII: of others the handler
looks up the zone in another form than the record, which is left out. What the
model answers is one of `Replies`, kept in `responseText`, and `WriteText` sends it
as `splitTXTRecord` of `TxtSplit` cuts it. A message has one question, as the
DNS library refuses others.

| Action | Code |
|---|---|
| `Arrive`, `RefuseBlacklisted` | server.go:134-165 |
| `DenyNoZone` | server.go:212-217: a response, and no return |
| `TakeAsPrompt`, `Ask` | server.go:166-210, the language model and the split of its text |
| `SendBroken`, `Panic` | server.go:193 after a failed request: a second response, or the nil response that ends the process |
| `DenyUnknown`, `PassFilter` | server.go:219-227; only type A needs records |
| `Read` | server.go:232-238: an error is logged and the query goes on |
| `Reply` | server.go:245-261 with the `handle` functions |
| `Finish` | the goroutine ends |
| `Change`, `Refilter` | the records in the database, the filter |

`past`, `steady` and `failed` are history variables. Two oddities of the code
show in the properties' statements and not as findings, as no document promises
otherwise: names without a zone may get two responses (`OnceForZones`), and a
failed read is answered with an authoritative NXDOMAIN (`SteadyNamesResolve`).

### `TxtSplit` — `dns/server.go` 443-471

`splitTXTRecord` cuts a prompt's answer, or a TXT record, into strings of at
most 255 bytes. A text is a sequence of bytes, each told by the width of the
character it begins, 0 for a continuation; `ValidPrefix` and `Width` are what
`utf8.ValidString` and `utf8.DecodeRuneInString` say of such bytes. The loop is
a recursive function, `CutPoint` its search for the boundary. The module has no
state: `SplitKeepsTexts` says what is right for every text (`Kept`), and
`PromptsAnsweredWhole` of `QueryHandler` says it of each response to a prompt and
the text that the model answered.

### `Panel`, `ZonesPage`, `ZonePage`, `PanelPage` — `frontend/app/routes/dash`

One browser tab. `ApiMessages` has the messages and service tables of
`frontend/gen`; a row is its id and its zone's name. `ReactQuery` is the library
as the pages rely on it: one query with its data, the moment the data are of,
and the fetches in flight. `PanelPage` holds the state and what the pages share,
`ZonesPage` and `ZonePage` one action for each handler of their page, `Panel` the
composition. The API carries out a request whole (`Grant`), refuses it or its
answer is lost (`Fail`); other tabs change the tables too (`Elsewhere`).

| Action | Code |
|---|---|
| `Mount`, `Navigate`, `FollowZone` | a page is shown: `App` renders with a new `QueryClient` (root.tsx:40), the forms are blank |
| `ClickZonesAgain` | a link to the page that is shown: the page stays, its client is replaced |
| `Read`, `Settle`, `GiveUp`, `Focus` | the list query (zone.tsx:165-177, zones.tsx:31-42) and the library's refetches |
| `OpenCreate`, `CloseCreate`, `TypeRecord`, `SubmitRecord`, `CreateSucceeded` | zone.tsx:202-312, 112-141 |
| `OpenEdit`, `CloseEdit`, `TypeContent`, `SubmitEdit`, `EditSucceeded` | zone.tsx:359-464, 143-163 |
| `OpenDelete`, `CancelDelete`, `ConfirmDelete`, `DeleteSucceeded` | zone.tsx:465-493, 179-190 |
| `OpenCreateZone`, `CloseCreateZone`, `TypeZone`, `SubmitZone`, `CreateZoneSucceeded` | create-zone-dialog.tsx |
| `OpenDeleteZone`, `CancelDeleteZone`, `ConfirmDeleteZone`, `DeleteZoneSucceeded` | zones.tsx:110-139, 44-55 |

Forms are told by whether their schema admits them; of an update the content
matters too, and is the id of the row in whose dialog it was typed, so that a
mix-up shows. `confirmed` and `excuses` are history variables: the latest change
the page was told of, and why its list may be behind: `joined` (invalidated
during the first load, which the invalidation joins), `detached` (its client was
replaced), `created` (a new zone invalidates nothing), `failed`.

### `Session` — `connect.ts`, `stores/auth.ts`, `routes/auth.tsx`, `dash/layout.tsx`, `api/server.go` 175-253

Tabs share `stored`, the token in localStorage; each reads it into `memory[t]`
when a document loads and never again. `page[t]` is what the tab shows,
`going[t]` the navigation its router has under way, `address[t]` the token that
the Back button brings back into the address. `callback[t]` is the API's OAuth
callback, whose look-up, insert and token are steps of their own, so that two
callbacks race for the row of a new user. A callback does not use the context of its
request: one whose tab goes elsewhere goes on, and as its answer reaches nobody all
that is kept of it is its email, in `left`, until it makes the row or fails unseen.
`redirects[t]` is a history variable, the number of redirects in the navigation
under way. `AuthMessages` has the messages.

| Action | Code |
|---|---|
| `Load`, `Back`, `BackToDocument`, `Follow`, `Switch` | documents, links and the Back button; `Document` reads the store, `Show` replaces the query client |
| `Arrive`, `Redirect`, `StayMounted`, `LoaderFails` | the loaders: layout.tsx:6-12, auth.tsx:19-28; a page that is shown already stays as it is, or another page under the layout is shown |
| `SignIn`, `Logout` | the effect of `AuthPage`, auth.tsx:34-40; account.tsx:33-36 |
| `Login`, `Lookup`, `Create`, `CreateLate`, `Issue`, `CallbackFails` | the link to Google, and api/server.go:175-253 |
| `Send`, `Unauthenticated`, `Fails`, `Receive` | the interceptor, connect.ts:13-26, and account.tsx:20-30 |
| `Handle` | interceptors/auth.go:27-60, services/jwt.go:27-57 |
| `Expire` | the 24 hours of a token |

A document load of `/auth` does not run its `clientLoader` (React Router runs it
on hydration only when asked to), so that the callback's redirect is taken even
while an old token is stored; a navigation back to that address is not. The
Google side is one step that succeeds or fails, and only tokens that the API
issued are presented.

## 3. Runs

Times are for two workers. Each property of a passing run has a mutant, a
plausible bug in one action, that the run catches.

| Run | Instance | Properties | States |
|---|---|---|---|
| `record_cache` | 1 zone, 2 queries, 2 commits, fairness | `TypeOK`, `Inv`, `NoSilentStaleness`, `MonotonicReads`, `WaitersHaveACall`, `ImplementsZoneReads`, `EveryQueryIsAnswered`, `EventuallyCurrent` | 0.3 M, 65 s |
| `record_cache_realtime` | 1 zone, 1 query, 2 commits | `RealTimeUpdates`, violated | |
| `zone_filter` | 2 zones, 3 changes, 2 callbacks, threshold 2, fairness | `TypeOK`, `AbsenceIsExplained`, `RebuildIsScheduled`, `Inv`, `RebuildFollows` | 0.9 M, 150 s |
| `zone_filter_heard` | 2 zones, 2 changes, 1 callback | `HeardZonesAreFound`, violated | |
| `query_handler` | a name of a zone, a blacklisted one, a prompt with records filed under the zone; types A, NS, TXT; 4 replies; 2 queries, 2 changes, fairness; texts of up to 7 bytes | `TypeOK`, `SteadyNamesResolve`, `AnswersBelong`, `OnceForZones`, `PromptsAnsweredWhole`, `Inv`, `EveryQueryIsAnswered` | 0.3 M, 130 s |
| `control_plane` | 2 rows of one user and name, 2 records, 2 handlers, 1 checker, 2 requests | `OrphansAreLate`, `EventsMatchChanges`, `Inv` (with `TypeOK`), `DeletedStaysDeleted`, `ImplementsZoneTables` | 1.3 M, 150 s |
| `control_plane_live` | 1 row, 1 handler, 2 checkers, fairness | `ActivationIsRetried` | 3 s |
| `control_plane_refused` | 1 row, 1 handler | `RefusedOnlyIfTaken`, violated | |
| `control_plane_names` | 2 rows of one name, two users | `OneActivePerName`, violated | |
| `control_plane_announced` | 1 row, 1 handler | `AnnouncedWhenActive`, violated | |
| `panel` | 2 ids, 1 zone name, 2 requests in flight, 2 changes, fairness | `TypeOK`, `ListIsCurrent`, `EditsStayTheirs`, `Inv`, `ListNeverGoesBack`, `AnswersKeepOtherInput`, `OwnChangesAreShown` | 0.4 M, 90 s |
| `session` | 2 tabs, 2 users, one of them new, 2 tokens, the first of which expires, 1 request in flight | `TypeOK`, `ActsAsShown`, `LoginsBelong`, `RedirectsEnd`, `Inv`, `ValidTokensSurvive` | 1.1 M, 100 s |

### Bounds

- `MaxVersion` bounds the commits per zone. Two make three versions: one cached,
  one read by an open call and one committed since, which is what an
  announcement that overtakes a call needs. Zones share nothing but the
  queries: each has its own key, entry and call. The proofs of `Inv` and of the
  refinement are for any set of zones.
- `Queries` in `RecordCache`: a caller of a call, and one that joins it, finds
  the cache or opens the next call. The proofs cover any number.
- `QueryHandler`: records of two names filed under one zone, as an answer may be of
  the wrong one; a name each on the paths that leave early, one of them with records
  that were renamed out of their zone; NS stands for the types with fixed
  answers and TXT for the prompt and for the types that are not implemented.
  `MaxChanges` = 2: the records and the filter both change during one query. Two queries, as one
  may end the process of the other.
- `MaxChanges` = 3 in `ZoneFilter`: a zone activated during the rebuild for an
  earlier deletion, and one more deletion. `Threshold` is 2 in place of 10, so
  that the counter forces rebuilds within that bound. `Callbacks` bounds the
  callbacks that run at once; two, and the subscriber's own rebuild, overlap in
  all ways. If all callbacks are busy a timer waits, where the code would start
  a third.
- `TxtSplit`: strings of at most 3 bytes and characters of up to 3, in place of
  255 and 4, and texts of up to 7 bytes: three strings, and every place of a
  boundary, a character that does not fit and an invalid byte.
- `Panel`: two ids are two rows of one list, or a zone and a record of it. Two
  changes are one of the page's and one more, also from elsewhere, which is what
  an answer that is overtaken needs. `Calls` bounds the mutations in flight; the
  page disables the button of a kind that is pending, so more would be of
  other kinds. The proofs cover any number of each.
- `Session`: one user has a row and the other has none, so that tabs may be of two
  users and two callbacks may race for the new row; a third id is there for a second
  row, which the index refuses. Two tokens are those of two
  users or an old session and a new one; `Expiring` has the first that is issued,
  which by its 24 hours expires first, so that an old token is refused while a new
  one is valid. One request is in flight at a time, of
  either tab; it may outlive its page and the session it was sent in. The proofs
  cover any number of users, tabs, tokens and requests. Which fresh id or token is
  taken does not matter, and a fixed one is.
- `MaxRequests` bounds the requests that change something. Two handlers are
  enough for each pair of handlers to interleave; the proofs cover any number.
- Records, handlers and replicas of `control_plane` and the tabs of `session` are
  symmetric; runs that check liveness use no symmetry.

The bounds are guards of single actions and the systems may stop there, but
none deadlocks: expiry, restart or a change of delegation is always possible, so
deadlock is checked in every run.

### Fairness

- `RecordCache`: weak fairness of each handler and each open call, as the Go
  scheduler runs them and every database read ends, with rows or with an error;
  and of `Expire`, as the LRU gives every entry 30 minutes. None for arrivals,
  commits or announcements: `EventuallyCurrent` holds with every one lost.
- `ZoneFilter`: weak fairness of the boot goroutine, the subscriber in the middle of an
  event, the rebuilds, and the timer. The timer is untimed: one that deletions
  re-arm again and again need not fire, but the number of changes is bounded, so
  it is left alone in the end. In the code the counter bounds the wait: a
  rebuild is forced after ten deletions, or a few more when callbacks reset
  the counter in between.
- `QueryHandler`: weak fairness of each handler: goroutines run, and a read or a
  request to the model ends, with a result or with an error. A query whose
  process dies of another one is not answered, and `EveryQueryIsAnswered` says so.
- `ControlPlane`: weak fairness of handlers, of each check under way, and of `Check`,
  which a ticker repeats every five minutes. Delegation, arrivals, crashes and
  successes are not fair: `ActivationIsRetried` has as its premise that the
  zone stays delegated and that checks do not fail forever.
- `Panel`: weak fairness of the list's fetch and of each request's answer: requests
  end, with an answer or without. Nothing is asked of the user, who may leave a
  dialog open forever.
- `Session`: none. That a tab is not sent back and forth is stated as a bound on
  redirects, `RedirectsEnd`, which needs no fairness and can be proved.

## 4. Findings

1. **`CreateZone` refuses every name** (`control_plane_refused`). `First`
   returns `ErrRecordNotFound` when no active zone has the name; zone.go:36
   returns it as `InvalidArgument`. A row that is found is refused at line 39.
2. **Rebuilds drop zones** (`zone_filter_heard`). A zone activated between the
   read and the swap of a rebuild is added to the filter that is thrown away,
   and its queries get NXDOMAIN until the next deletion or restart.
3. **Zones are announced that are not active** (`control_plane_announced`).
   A failed update is logged and the event published all the same; so it is for
   a row deleted meanwhile. The comment at api/server.go:307 says otherwise.
4. **Two active zones of one name** (`control_plane_names`). The checker
   activates every inactive row of a delegated name.
5. **Old records for 30 minutes** (`record_cache_realtime`). An announcement
   that arrives while a call holds older rows drops nothing, and the call then
   caches them. The README promises that changes are seen instantly.

## 5. Proofs

All theorems are for any sets of names, zones, queries, callbacks, records, handlers
and replicas, of ids, tabs, tokens and requests, finite or not, and any bounds. They rest on the modules' assumptions only:
`None`, `Failed`, `Boot`, `Sub` and `NoZone` are different from what they stand
beside, addresses are not question types, `ZoneOf` is a function,
the bounds are naturals, `Threshold` is positive, a character fits in a string
(`MaxWidth` is at most `MaxLength`), no zone has the name of a page, and the users
that have a row at the start have one each.

| Module | Theorem | What is proved |
|---|---|---|
| `RecordCacheProofs` | `Invariance`, `TypeCorrectness` | `Spec => []Inv`, `[]TypeOK` |
| | `StalenessIsExplained` | `[]NoSilentStaleness` |
| | `ReadsAreMonotonic` | `[]MonotonicReads` |
| | `NoLostWakeup` | `[]WaitersHaveACall` |
| | `Refinement` | `Spec => ImplementsZoneReads` |
| `ZoneFilterProofs` | `Invariance`, `TypeCorrectness` | `Spec => []Inv`, `[]TypeOK` |
| | `ForgottenForAReason` | `[]AbsenceIsExplained` |
| | `DeletionIsScheduled` | `[]RebuildIsScheduled` |
| `QueryHandlerProofs` | `Invariance`, `TypeCorrectness` | `Spec => []Inv`, `[]TypeOK` |
| | `SteadyNamesAreNotDenied` | `[]SteadyNamesResolve` |
| | `AnswersBelongToNames` | `[]AnswersBelong` |
| | `OneResponseForZones` | `[]OnceForZones` |
| | `PromptsAreAnsweredWhole` | `[]PromptsAnsweredWhole` |
| `TxtSplitProofs` | `SplittingKeepsTexts` | `SplitKeepsTexts`: nothing of a text is lost, whatever its length |
| `ControlPlaneProofs` | `Invariance`, `TypeCorrectness` | `Spec => []Inv`, `[]TypeOK` |
| | `OrphansWereLate` | `[]OrphansAreLate` |
| | `AnnouncementsMatch` | `[]EventsMatchChanges` |
| | `DeletionIsFinal` | `Spec => DeletedStaysDeleted` |
| | `Refinement` | `Spec => ImplementsZoneTables` |
| `PanelProofs` | `InvHolds`, `TypesHold` | `Spec => []Inv`, `[]TypeOK` |
| | `ListIsCurrentHolds` | `[]ListIsCurrent` |
| | `EditsStayTheirsHold` | `[]EditsStayTheirs` |
| | `ListNeverGoesBackHolds` | `Spec => ListNeverGoesBack` |
| | `AnswersKeepOtherInputHolds` | `Spec => AnswersKeepOtherInput` |
| `SessionProofs` | `InvHolds`, `TypesHold` | `Spec => []Inv`, `[]TypeOK` |
| | `ActsAsShownHolds` | `[]ActsAsShown` |
| | `LoginsBelongHolds` | `[]LoginsBelong` |
| | `RedirectsEndHolds` | `[]RedirectsEnd` |
| | `ValidTokensSurviveHolds` | `Spec => ValidTokensSurvive` |

The arguments:

- **`RecordCache`**. `NoSilentStaleness` says nothing of the rows an open call
  holds, yet `Add` makes them the entry; `StalenessOK` demands an explanation
  for these too, and `overtaken` is it. `MonotonicReads` needs `Settled(z, v)`:
  neither cache nor call can hand out rows older than v. It holds for each
  waiting query's floor because `CallOK` says that while a call may store rows
  nothing else is cached, which is what the double check ensures. The
  refinement maps `Return` to an answer for all waiters of the zone and the
  inner steps of a call to stutters, under `Inv`.
- **`ZoneFilter`**. `Swap` puts a filter in use that was read earlier, so the
  invariant must bound what a rebuild lacks: `RebuildOK(r)` says that an active
  zone is in what r read or in `recent[r]`, activated since, and that the
  latter are in the filter, announced or have a reason. `SubscriberOK` ties
  the subscriber's place to its rebuild and its `AddString`.
- **`QueryHandler`**. The properties speak of responses, which are written from
  what was read before. `RecordsOK` says what the records in hand are worth at
  the reply: addresses of one moment, and not empty for a steady name unless
  the read failed. `WritesOK` counts the responses at each place and says which
  places only a name without a zone reaches. `PromptsAnsweredWhole` is part of the
  invariant: that a response has the model's text whole is `SplittingKeepsTexts` at
  the step that writes it. `SteadyOK` ties the steady names
  to every moment since the start, so that any moment will do for a read.
- **`ControlPlane`**. `OrphansAreLate` follows at `CommitDelete` from
  `DeletesAll(h)`: what a transaction about to commit leaves behind was
  inserted after its second delete. `EventsMatchChanges` follows a request's
  number from the handler to the event to what was published or dropped;
  `HandlerOK` says that the number is there. `DeletedStaysDeleted` is an action
  property from the same invariant. The refinement needs two more parts of it:
  `NumbersOK`, a request is told from all others by its number for as long as a
  handler, an event or the history has it, so that a new announcement is new and
  one that is published is owed by nobody else; and `FoundOK`, what a handler has
  found is gone or still where it was, so that a commit takes no record of another
  name or owner. `CommitDelete` then is `DeleteZone`, leaving the late records
  that the transaction has not got; `OweStep` is the announcement of every change.
- **`TxtSplit`**. `splitTXTRecord` and the test of validity are recursive functions,
  defined by `CHOOSE`, so the first thing to show is that they satisfy their
  equations. `RecursionTheorem` does, for any recursion on a set whose members get
  smaller by a measure: at most one function satisfies the equations below a bound
  (`SolutionIsUnique`), one exists for each bound (`SolutionExists`), and they
  agree. Each of these is an induction, and each rests on `LeastElement`: a set of
  naturals that is not empty has a least element, an instance of the library's
  `WFMin`. Then: a valid text begins with one character (`FirstChar`), cutting at a valid
  prefix leaves a valid rest (`RestIsValid`) because no character straddles the
  cut (`CharsDoNotStraddle`), and `CutPoint` is at least 1 and at most `MaxLength`
  and, in a valid text, such a prefix (`CutPointFits`). `SplitKeeps` is one
  more induction, over the length of the text; `FlattenEquation` is the recursion
  of `FlattenSeq`.
- **`Panel`**. `ListIsCurrent` is about a list at rest, so the invariant says
  what a fetch in flight will bring: `FetchesOK` has one fetch at a time, which
  has read no less than the list shows and, without an excuse, all the page
  was told of, because telling cancels the fetch and starts another. The same
  gives `ListNeverGoesBack`. `EditsStayTheirs` is inductive once `DialogOK` says
  that an open edit dialog is of a row shown; `ListIsOfItsPage` types the data.
  `AnswersKeepOtherInput` goes by the steps that end a call: one that fails
  touches no dialog, and one that succeeds only the dialog and form of its kind.
- **`Session`**. `ActsAsShown` is inductive with `AnswersOK`, an answer names
  the owner of the token that was sent: whatever changes `memory` leaves the page or
  makes its requests orphans, except for signing out, after which the property says
  nothing until the tab has a token again. `PagesOK` says that only pages under the
  layout have requests, so that `SignIn` finds none. `LoginsBelong` keeps the row a
  callback found until its token is issued. `RedirectsEnd` follows from `RedirectsOK`:
  while a tab is on its way it may lose its token, to a refused request, and cannot
  get one, so that /auth sends it to /dash once at most, and /dash back for good. It
  rests on both loaders asking the one store. `ValidTokensSurvive` is an action
  property from the same invariant.

Only model-checked: the liveness properties, as fairness and `ENABLED` are
beyond the prover. In particular `RebuildIsScheduled` is proved and
`RebuildFollows` checked, `ListIsCurrent` proved and `OwnChangesAreShown` checked.
Every invariant and every safety or refinement property of a passing run is a
theorem. The library's induction theorems take an operator, which no installed
prover can instantiate, so the inductions of `TxtSplitProofs` are stated of sets
and functions. The properties of the violation runs are, of course, not theorems.

## 6. Not modelled, and plan

- The pages `frontend/app/routes/dash.tsx` and `routes/zone.tsx` are in no route.
- Layout, wording, the home page and the dash index page, whose only operation
  copies a nameserver's name to the clipboard.
- History jumps from one zone page to another, which keep the component mounted
  with new parameters, and documents that a browser restores from its back/forward
  cache with their old store.
- Opening and pooling of connections, configuration, images, manifests.
- The contents of records other than A, TTLs, and the columns of a record that
  only pass through.

What would add most next:

1. `Dnsarc`: `ControlPlane`'s tables and events with two DNS servers, each with
   a filter and a cache, on one channel; an abstract specification of
   the service (a name resolves to what its zone's records were at some moment
   since its last announced change), with its runs on one zone.
2. The refinement of that specification proved, from what `ZoneTables` and
   `ZoneReads` promise.
