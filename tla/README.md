# NewsBrief backend: TLA+ models and proofs

This directory models the NewsBrief backend (`src/app`): a FastAPI service that
serves summarised news stories, and Celery workers that fetch articles,
summarise them with an LLM and retire them. PostgreSQL holds the articles,
Redis the response cache, the summary cache, the budget counter and the flags.

## Inventory

| Component | State it keeps | Operations | What makes it correct |
|---|---|---|---|
| Summarisation task (`workers/tasks.py` `_summarize_pending`) | rows of `articles`, Redis `summary:<hash>`, `daily_summaries:<day>` | one run per 15 minutes, per fetch, per admin call, per retry | each article is published once with a text that belongs to it, the daily budget holds, nobody pays twice, failures stay with their article, the story lists are refreshed |
| Providers (`groq_summarizer.py`, `bedrock_summarizer.py`) | threads of requests | `summarize` | what is published is what was answered; threads that outlive their timeout stay few |
| Fetch task and ingestion (`ingestion.py`, `_fetch_and_process`) | rows of `articles`, `fetch_logs` | fetch, deduplicate, insert, chain the summarise task | no URL twice, one story once, nothing lost when two fetches overlap or one is retried |
| Story endpoints and response cache (`routes.py`, `cache.py`) | Redis `stories:*`, `story:*`, `search:*` | read-through fill, `delete_pattern` | a reader gets what was asked for, and not for long what is out of date |
| Feature flags (`endpoints/flags.py`, `core/flags.py`) | Redis `feature_flags` | read, merge-update, reset; safe read by the worker | no update lost; a worker that cannot read them does nothing |
| Translation (`translator.py`, `POST /translate`) | rows of `article_translations` | translate on demand and store | one translation per language, of the text that is published |
| Subscribers (`endpoints/subscribers.py`) | rows of `subscribers` | subscribe, unsubscribe | one row per address, answers that tell the truth |
| Celery delivery (`celery_app.conf`, task decorators, `run_async`) | broker queue, retry counts, connections of the process | beat, triggers, acks late, retry, chain, redelivery | a message that was accepted is carried out or given up; a process heals of connections from closed event loops |
| Cleanup (`_cleanup`) | `articles.is_active` | daily deactivation | summarised work is not spent on retired articles |
| Start-up (`main.py`) | the attempt of `_wait_for_db` | connect, give up, restart | the service comes back when the database does |
| Admin endpoints | none of their own | three triggers, a status report | a trigger sets the whole pipeline going |
| Schemas and time helpers, configuration, logging | none | | |

The components meet in four places. The fetch task inserts rows that the
summarise task later reads, and enqueues it. The summarise task commits rows
and then deletes `stories:*`, which the endpoints fill from the same rows. The
flags are written by an endpoint and read once at the start of each run. All
tasks of a worker process share its Redis client and its database pool. No
lock spans two of these stores, so what is hard here is the *order* of steps on
PostgreSQL and Redis, overlapping runs of one task, and failure between two
steps. `PROJECT.json` lists the hazards line by line.

## Modules

| Module | Models |
|---|---|
| `SummaryLedger` | what summarisation promises: a summary is published once, from the article itself or from one already published, and charges stay within a limit |
| `Summarize` | the summarisation task, run by a set `Workers` of Celery processes |
| `MCSummarize` | the instances TLC checks |
| `SummarizeProofs` | types and charges: theorems about `Summarize` for all constants |
| `SummarizeContentProofs` | what is published, and when readers may miss it |
| `SummarizeRefinement` | one worker implements `SummaryLedger`; how far any number of them overshoots the budget |
| `Ingest` | the fetch task, run by a set `Workers` of Celery processes against one table |
| `Fetchers` | what the RSS and NewsAPI fetchers make of the sources' answers: functions |
| `FetchRounds` | `Ingest` over the batches `Fetchers` brings |
| `MCIngest` | its instance for TLC |
| `IngestProofs` | theorems about `Ingest` and `Fetchers` for all constants |
| `Stories` | the story endpoints over the table and the response cache, with the worker's sweep, translations, the cleanup task and expiry |
| `MCStories`, `StoriesProofs` | its instances, its theorems |
| `Worker` | Celery processes: messages with their retries, event loops, and the connections that outlive them |
| `MCWorker`, `WorkerProofs` | its instance, its theorems |
| `Provider` | the two LLM clients: threads and retries under the article timeout, and the parsers |
| `MCProvider`, `ProviderProofs` | its instance, its theorems |
| `FeatureFlags` | the flag endpoints over one Redis key |
| `Subscribers` | the subscription endpoints over the row of one address |
| `Api` | the API process: `FeatureFlags` and `Subscribers` served by one process that dies, waits for the database and restarts |
| `MCApi`, `ApiProofs` | its instance, its theorems and those of the two modules it composes |

### How `Summarize` corresponds to the code

A worker's `pc` is its place in `_summarize_pending`; a step is the code between
two awaits whose effect or whose reads another worker can observe.

| Action | `tasks.py` |
|---|---|
| `ReadFlags`, `ReadBudget`, `SelectBatch`, `LoadRecent` | 309-361: flags with `SAFE_DEFAULTS`, the counter read once, the oldest 100, the slice `ranked[:min(TOP_N, remaining)]`, the recent titles and their embeddings |
| `TakeNext` | 363-365: the next coroutine passes the semaphore |
| `LoadArticle`, `Jaccard`, `Semantic`, `CheckCache` | 369-438: re-check, stub, the two dedup stages, the summary cache |
| `WriteAndCommit` | `update_summary` with the commit that directly follows it (stub, dedup, cache) |
| `AnswerOK`, `FallbackAnswer`, `Timeout` | 441-444 with the two providers |
| `Flush`, `SetCache`, `Charge`, `Commit` | 451-466: UPDATE under row lock, `setex`, `incr` with `expire` and `recent_titles.append`, commit |
| `Committed` | what both commits do: the row is published, and counted as such, or, when the answer to the commit is lost, as failed (475-478) |
| `FailArticle` | 475-480: any exception inside the `try` |
| `Finish` | 482-493: the raise when all failed, else `delete_pattern` |
| `EscapedError`, `Crash` | an exception no handler of the run catches; the process dies |
| `OrphanEnds`, `AgeOut`, `ExpireSummary`, `NewDay` | a provider thread that `wait_for` abandoned ends; the six-hour window, the seven-day TTL and the calendar move on |

`Written` is the unit of work's UPDATE: SQLAlchemy sends only columns whose value
differs from what the session loaded, so a worker that loaded an unsummarised
row can set `is_breaking` but never clear it, and `CopyOf` accounts for the
identity map. `paid` and `excused` are ghosts: charges per worker and key while
the cached summary lives, and whether a run that had published ended without its
invalidation. `unheard` in a run's tally is a ghost too: a commit of the run was
carried out and raised.

Abstractions: the ranking is any choice of a slice of the right length;
similarity is a relation on titles (`Alike`, `SemAlike`); a text is its kind and
origin; whether an article counts as breaking does not change with time; the
titles matched in one Jaccard pass are looked up in one step; a commit that is
carried out is so before its worker goes on, even if nobody hears of it; the counter's
24-hour expiry is left out because a day's key is only read on that day.

### How `Ingest` corresponds to the code

| Action | Code |
|---|---|
| `ReadFlags` | `tasks.py` 270-273: a run with `fetch_enabled` off, or without Redis, fetches nothing and still enqueues the summarise task |
| `FetchAndReadUrls`, `ReadHashes` | 275-284: the feeds, then two SELECTs, each with a snapshot of its own (READ COMMITTED) |
| `Drop`, `Insert`, `InsertFails` | `Deduplicator.filter` and `bulk_create_raw`: a savepoint per article; a URL another transaction has inserted makes the insert wait, and skips the article if that one commits |
| `DeadlockVictim` | PostgreSQL fails one statement of a ring of waiting transactions; `bulk_create_raw` logs it and goes on |
| `CommitRows`, `LogFetch` | the commit inside `bulk_create_raw`, the second one for `FetchLog` |
| `Chain` | `summarize_pending.delay()` |
| `Abort` | an exception followed by `self.retry`, or the death of the process |

A feed round is one of a set `Feeds` of sequences of entries; an entry is its URL
and its title hash. In `FetchRounds` these sequences are what `Fetchers` makes of
rounds in which sources refuse and entries are unusable, come from a publisher
NewsAPI is not trusted with, or raise: `ReadFeed` is `_fetch_feed` (the first
`FeedLimit` entries, one that raises is passed over), `ReadCategory` is a turn of
the loop of `fetch_top_headlines` (an entry that raises ends its category, and
what was taken before it stays), `Collected` the concatenation of all of them.
`Kept` is the loop over the entries of a source, which appends one after the
other; `Offered` says without a loop what should come of a round. HTML, dates, images and the
country hint of an entry are data. The filter looks at nothing but its own two
sets, so it is run entry by entry, each just before its insert, which no one can
tell from running it first. `by`, `fetched`, `lost`, `unannounced` and `excused`
are ghosts.

### How `Stories` corresponds to the code

| Action | Code |
|---|---|
| `Hit`, `Miss` | `get_json` at the start of `get_stories`, `search_stories`, `get_story` |
| `Count`, `Read` | the two statements of `get_top_stories`; `search`; `get_by_id`; with `localize` |
| `Store` | `set_json` and the answer |
| `Ask`, `Lookup`, `Provider`, `Upsert`, `Write` | `translate_story`: `get_by_id`, `get_translation`, `translate_pair`, the second look of `upsert_translation`, its INSERT or UPDATE with the commit |
| `Fail` | any exception, or a client that goes away |
| `StartRun`, `Publish`, `AskKeys`, `Delete`, `CutOff` | what `Summarize` does to the readers: commits, then `delete_pattern("stories:*")` as KEYS and DELETE, or a run that ends without them |
| `Retire`, `Expire` | `_cleanup`; the time to live of a Redis key |

A story is its place in the order of `published_at`; a page is the set of stories
whose rank lies in it; a text is a kind: `raw` (what the feed said), `summary`,
`foreign`, or `english` for a translation no provider made. Readers can only ask
for ids they have been given, since ids are random UUIDs and no endpoint lists
others. Left out: the filters on category and country, which are part of the key
as well as of the query; the 720-hour limit, which the cleanup anticipates; the
loading of translations as a statement of its own right after the rows;
`languages:all`, which is constant. Details and searches carry `total` 0. `upto`,
`late`, `upon`, `listed` and `swept` are ghosts.

### How `Worker` corresponds to the code

| Action | Code |
|---|---|
| `Beat`, `Trigger` | `beat_schedule`; the three `POST /v1/admin` triggers |
| `Take`, `Ack`, `Due` | `--pool=solo` with `task_acks_late`; the countdown of `self.retry` |
| `SwitchedOff` | `get_flags`, which opens a client of its own |
| `ReadBudget`, `Select`, `Article`, `Finish` | `_summarize_pending`: the budget on the shared Redis client, the session of the run, the session of each article, the error when all failed |
| `Store`, `Log`, `Chain` | `_fetch_and_process`: two transactions on whichever connections come next, then `summarize_pending.delay()` |
| `Cleanup` | `cleanup_old_articles`, which is not bound and never retries |
| `Succeed`, `Raise` | the attempt returns, or `self.retry` sends it again below `max_retries` |
| `CloseLoop` | `run_async` closes the loop; connections opened on it stay in the client and the pool, dead |
| `Outage`, `Die` | a server refuses or restarts, the broker refuses the retry; the process dies and is started again, and the message is delivered again |

The pool is SQLAlchemy's queue: its head is checked out, a connection that fails
is invalidated and returns to the tail, where it reconnects when it is used.
What a task does to its tables is `Ingest`, `Summarize` and `Stories`; here an
article is served, or it fails. `streak`, `stale` and `blamed` are ghosts. Left
out: prefork processes, which inherit connections at the fork; a death between
the sending of a retry and the acknowledgement, which would leave two copies of
a message; the visibility timeout (no task runs an hour) and the time limits,
which a solo pool does not apply.

### How `Provider` corresponds to the code

`Call` is `process_one` under `wait_for` (`GiveUp`); a thread makes `Requests`
requests of at most `RequestTime` ticks with pauses between (`Retry`); `Answer`
and `Fail` end a call in time, `LateEnd` one that nobody waits for. An answer is
a sequence of parts, a reasoning block and a body, cut anywhere by `max_tokens`.
`ReadGroq` and `ReadBedrock` are the two parsers with `_strip_think`, the empty
completion and Bedrock's extract of the article; Bedrock's takes every field for
itself, so an answer with some of the sentences is published in part, and `null`
as "None" (`update_summary` formats it).

That `RequestTime` is finite is an assumption about the servers: both libraries
limit each connect, write and read, and an answer that trickles in can prolong a
request at will. Groq's library makes four requests, each operation of 30 seconds,
with pauses of up to a minute when the server asks for them; botocore three, with
60 seconds for an operation and 10 to connect, and pauses of up to 20. With one
connect, one write and one read to a request, and 45 seconds for an article, that
makes at most thirteen threads with Groq and ten with Bedrock. The instance has
shorter times; `FewThreads` is for all of them.

### How `FeatureFlags`, `Subscribers` and `Api` correspond to the code

`Load`, `Save`, `Refuse` and `Fail` are `update_flags`, `Reset` is `reset_flags`,
`Effective` what `_load_flags` and the worker's `get_flags` make of the key. The
record may be one an older version has written, with fewer flags. A save whose
answer is lost is a `Save`; the read-only `get_flags` endpoint changes nothing.

`Subscribe` and `Unsubscribe` are the look-up by address, `Add`, `Revive` and
`Remove` the statement with its commit that follows it in a later step, `Reply`
the answer, `Lose` a client that went away or an error. `Stale` is the UPDATE of
a row that is gone, which SQLAlchemy answers with StaleDataError. One address is
modelled, since no statement names two. Nothing in the code deactivates a row:
an inactive one is there from the start or not at all. A commit that the server
carries out after its client has died is a step before the death.

`Connect`, `Refused` and `Restart` are `_wait_for_db`, its last failure and
compose's `restart: unless-stopped`; `Die` takes the requests in flight along
(`Fail`, `Lose`), each at whatever place it is. Flags are in Redis, so they are
served while the database is away.

## Runs

| Run | Shows | Bounds and why they suffice |
|---|---|---|
| `summarize_solo` | one worker (the compose file's `--pool=solo`) implements `SummaryLedger`, pays once, publishes only grounded texts, explains every stale list | three articles, two of them one story stored twice; two flag settings (budget 1 or 2, slice 1 or 3, stub threshold on or off); two days; a window of two articles, so that one waits; one abandoned thread |
| `summarize_prefork` | two overlapping runs (Celery's default pool): the overshoot is bounded, rows written by both lose nothing | two articles with different keys, one of them breaking, budget 1, Bedrock with its fallback; symmetry of the workers. The timeout's abandoned thread is left to `summarize_solo`; the failure it causes is covered by errors elsewhere in the `try` |
| `summarize_live` | under fairness every article the provider can answer for is published | one article that always fails until its twin is there to copy from; then two rows share a title, and a third article, which resembles them, fails on both until they are old; a window of two articles |
| `ingest` | two fetches at once: a worker stores a headline once, nothing fetched is missing from the table when a run has committed, the logs never claim more than there is, rows nobody was told of are due to a run that was cut off, every run ends although inserts wait for one another, and trouble with one source costs nothing of another (`TroubleStaysLocal`) | two workers; four entries: one headline under two URLs, one URL under two headlines, and another story; all rounds, with everything that can be refused, unusable or broken in a feed and two categories, that should bring one of two batches, which list the same URLs in opposite orders: the shortest ring; two entries per feed; no bound on the number of runs (a full table ends the growth) |
| `stories` | once every publication is swept, a reader who walks through pages of one limit misses a story, meets one twice or is told too early that there is no more only by a page that was filled late | two readers, two stories, two pages, and a second limit that shares the key of the first; one worker whose sweeps may be cut off; symmetry of the readers. Longer walks, and more stories than the pages hold, are the theorem's |
| `stories_settle` | under fairness every cached answer comes to be what the tables say; what readers get, and what is translated, is a summary | two readers, one story; a list, a search, a detail and a translation |
| `worker` | a process is past its dead connections after at most five attempts, they cost a batch at most one article, and every message leaves the broker | one process as deployed; two messages under way, so that fetch can chain; batches of up to two articles; one death. The connections of a process number three at most, and all their states are reached |
| `provider` | how many request threads are alive at once, and what is published for every answer, whole or cut | an article takes two ticks, a call up to ten; both providers; all answers of at most four parts |
| `api` | one row per address, answers that stay true until somebody asks for the contrary, reactivations that only a deletion spoils, updates of flags that revert nothing unless overtaken, and a service that comes back | two requests in flight of two administrators and two clients; two flags, all records of older versions; one death, outages without bound, two attempts to connect |
| `translation_lost` | violated: a stored translation is overwritten with English | one story |
| `breaking_flag` | violated: a breaking article published without its mark | one article |
| `given_up` | violated: a summarisation enqueued by a fetch is given up though no server failed | one process, two messages, no death |

`StaleListsExplained` allows three excuses for lists that stay old when all runs are
over: a run that had published was cut off, Redis refused the delete, or all
articles of a run failed and the answer to the commit of one was lost. The last is the code's own
gap: such a run raises and does not invalidate, although it has published. What a
run knows to be published the raise never hides. `BudgetOvershootBounded` is the strongest bound the code gives
to overlapping runs; with one worker the ledger's `Charge` gives the plain limit.

Fairness (`summarize_live`): beat starts runs for ever and Celery runs them, so the
normal steps are weakly fair as a group; `wait_for` fires; a thread of the
client library ends by its own timeout; time passes. The code retries every
failed article in the next run, without a limit of attempts, so nothing can be
promised against an outage that lasts for ever: `Fairness` says that outages end,
not that they are rare. An article that fails because `find_similar_summarized` finds
several rows is not an outage, and `Outage` leaves these steps out: that they end follows
from the six-hour window, since articles age and no new ones are fetched within the horizon. `EventuallyPublished` also names the limit of the
isolation: articles that fail in every run keep their place in the window of
the 100 oldest, in the slice of `top_n` and in what is left of the budget, and
what is behind them starves when they fill one of these (`Room`).

`OncePerWorker` is as much as the code promises: only `original_url` is unique in
the table, so two *overlapping* runs that read the hashes before either commits
store a headline under two URLs twice; with one worker they cannot
(`SoloStoresOnce`). `NothingSkipped` excuses entries whose insert failed: a
deadlock's victim is such an entry, and it waits for the next round.

Fairness (`ingest`): what a run can do next it does (weak), and an insert that
is free again and again is carried out (strong). A waiting insert is woken by
PostgreSQL when the other transaction ends, while the other worker has a whole
round of feeds to fetch before it can take the same URL again, so the strong
part asks for less than the database gives. Failing inserts and deaths are never
fair. Without `DeadlockVictim` the property is violated: two runs in a ring wait
for ever.

`OnlyLateFillsMiss` is exact about the race between a fill and a sweep: a fill is
late when some sweep has asked for its keys after a publication the handler did
not see. The pages of a walk are cached at different moments, with publications,
retirements and sweeps between them; without late fills they fit together all the
same. The limit of the walk is part of the property: no key has it, so one page of
another limit in between is enough to skip stories. The count of a page is read before its rows, so a publication between
the two makes the fill late as well, although the rows have the story.

Fairness (`worker`): what an attempt can do next it does, countdowns end, and the
broker's queue is first come, first served, so a message that can be taken again
and again is taken (strong). Servers may fail for ever; a message that meets
them is then given up. `Settles` needs the retry limits: with `MayRetry` always
true it fails. `HealsWithin` is tight, and the attempts of one message number at
most four, which is how `given_up` comes about. After that the process has
healed, with one exception: a batch of one article, with a pool whose next two
connections are `void` and `dead`, fails its article, and leaves the pool as it
was for the next such batch; any other task changes it.

Fairness (`api`): the process takes its next attempt to connect, is restarted, and
drops its requests when it dies. Nothing else is fair, and the database may come
and go; `ComesBack` has its staying as a premise.

Fairness (`stories_settle`): handlers run to their end, and Redis removes what has
expired. Publishing, retiring and translating need no fairness: each can happen
a bounded number of times to a story, or overwrites a row only while an older
request is under way. The property holds for what no sweep reaches: details and
searches, and lists after a translation or the cleanup.

## Proofs

The proofs hold for every set of articles, entries, messages, requests and workers
and every bound, from the named assumptions of the modules alone;
`SoloImplementsLedger` has two hypotheses more, and `OvershootIsBounded` the second
of them. Every invariant that a passing run checks is a theorem here.

| Theorem | Statement | Argument |
|---|---|---|
| `Typing` | `Spec => []TypeOK` | `TypeOK` is inductive; it is split into the workers' runs, the stores and the ghosts, with one lemma per way a run moves on (`EndRunType`, `SettleType`, `ProposeType`, `GotoType`, `ReuseType`) |
| `PaidOnceHolds` | `Spec => []PaidOnce` | `ChargeInv`: a key that was charged is cached, and a worker between its cache miss and its charge has not paid for the key it holds. `PaidOnce` alone is not inductive: without the second part nothing forbids a charge by a worker that already paid |
| `NothingIsWithdrawn` | `Spec => NothingWithdrawn` | `RowStep`: the table changes only where some worker commits; what `Written` leaves of the row keeps the mark |
| `GroundedHolds` | `Spec => []Grounded` | `GroundInv` follows a text from its origin: a cached text was generated for its key (`CacheInv`), a draft is the article's own or grounded in a published row (`DraftInv`, by `DraftStep`), a pending row is as it was fetched (`PendingInv`), and so is what a commit writes (`TableInv`). `GroundedStays`: no row becomes pending again, so what was grounded under overlapping runs still is |
| `StaleListsAreExplained` | `Spec => []StaleListsExplained` | `CountInv`: failed, published and remaining articles of a run never exceed its batch, so a run that raises "all failed" knows of no publication. `StaleInv`: while the lists are stale there is an excuse, or a run that has published, heard or unheard (`HasPublished`), and is still going |
| `SoloImplementsLedger` | one worker, `top_n >= 0`: `Spec => LedgerSpec` | `RoomInv`: what the run may still charge fits in what the day's counter leaves of the limit it read. `FirstInv`: past the re-check the article in hand stays pending, and its draft is its own text or stands in a published row. Each commit is then a `Publish`, each charge a `Charge`, all else stutters |
| `OvershootIsBounded` | `top_n >= 0`: `Spec => []BudgetOvershootBounded`, any number of workers | a run holds one voucher for every charge it may still make (`Vouchers`), and `OvershootOf`: what a day was charged and the vouchers for it together stay within one limit per worker. A charge hands in a voucher (`Pays`). A run that opens gets vouchers for what is left of its own limit, and everybody else has at most a limit's worth of them (`Bounded`), so no sum over the workers is needed: the vouchers are a set of pairs in `Workers \X 1..m`. Counter and limit alone are not inductive, since nothing says that the runs under way have no more to come |
| `IngestTyping` | `Spec => []TypeOK` | inductive with the finiteness of what a run has inserted, which `Cardinality` needs |
| `OncePerWorkerHolds` | `Spec => []OncePerWorker` | `SeesOwn`: from the read of the hashes to the commit, the titles of all rows of a worker, committed or not, are in its set of seen titles, so what passes the filter is new to it |
| `SoloStoresOnce` | one worker: titles are unique | from the theorem before |
| `NothingSkippedHolds` | `Spec => []NothingSkipped` | `SkipOf`: whatever the filter has seen is in the table or is an entry of the batch that was dealt with (stored, inserted or lost), and what it has passed over is one story with such an entry. The property speaks of the end of a run only; the invariant carries it from the read of the URLs to the commit, and rows are never withdrawn (`TableGrows`) |
| `AnnouncedOrExcusedHolds` | `Spec => []AnnouncedOrExcused` | `ToldInv`: rows nobody was told of are excused, or a run that has committed rows is on its way to the enqueueing |
| `LogsNeverOverstateHolds` | `Spec => []LogsNeverOverstate` | `LogInv`: some set of rows accounts for all that is logged, and a worker between its two commits has as many rows of its own outside that set as it will log. Rows of different workers differ in `by`, so no two claim the same |
| `TroubleStaysLocalHolds` | `Spec => []TroubleStaysLocal`, any feeds, categories and answers of any length | `CollectedIsOffered`: what the loops collect is what a round offers. The loops are recursive functions, and each is shown to be what its equations say and to keep the items it should (`KeptAre`, `FlattenAre`) by induction; `MinIsLeast` finds the entry that ends a category |
| `OnlySummariesLeave` | `Spec => []SummariesOnly` | `Handler`: an id in a request was given to a reader, and what a handler holds is a summary; `AnswersAreSound`: a query returns only published stories, by its filter or by the id. Neither holds alone |
| `StoriesTyping` | `Spec => []TypeOK` | inductive with the translations under way, whose text is never the feed's |
| `OnlyLateFillsMissHolds` | `Spec => []OnlyLateFillsMiss`, pages and limits of any size | the property speaks of the moment when all is swept; `Whole` carries it there: a page that was not filled late goes back to the publications its handler counted and to those it read, and both have all that a sweep which spares the page was for. `Fits` says, story by story and by rank, what is on a page; it survives a retirement, because the cleanup takes the oldest and leaves the ranks of the others (`FitsNewest`). When all is swept, the sets behind all pages are one, so ranks divide it among the pages (`PageOfRank`, `PagesApart`), and a page that leaves older stories out is full (`PageIsFull`) |
| `WorkerTyping` | `Spec => []TypeOK` | `Works`, one worker's share, is inductive; the pool has room because only a run with articles in hand has a second connection out |
| `Healing` | `Spec => []HealsWithin` | `Credit`: attempts lost in a row, plus twice the checkouts it takes to drop every dead connection of the pool (`Depth`), plus one when that of Redis is dead, never exceed five; each attempt that fails on one lowers the rest |
| `OneArticle` | `Spec => []OneArticleStale` | once an article has met a dead connection, the head of the pool is usable for the next |
| `ProviderTyping` | `Spec => []TypeOK` | `Booked`: a thread's age is bounded by the requests and pauses it has used up |
| `FewThreads` | `Spec => []ThreadsBounded` | the ages of abandoned threads lie `ArticleTime` apart, since only one is waited for at a time, and below `Life`; their quotients by `ArticleTime` are distinct (`DivApart`) |
| `FaithfulToAnswerHolds` | `Spec => []FaithfulToAnswer` | `Shapes`: what a whole or cut answer can look like, from `CutOff`; on each shape the parser of the provider is evaluated (`GroqFits`, `BedrockFits`). `FaithInv`: what is published fits what was said, and while a call is waited for nothing has been said |
| `FlagsTyping`, `OnlyOverlapRevertsHolds` | `Spec => []TypeOK`, `Spec => OnlyOverlapReverts` | `Current`: who was not overtaken holds the record in effect; a full record hides the defaults (`RecordIsChange`) |
| `OneRow`, `AnswersHoldAlways`, `RevivalsSucceed` | `SubscribersSpec => []...` | `SubInv`: as long as nobody asks for the contrary, what a handler found or made is there, and who meets the contrary is marked as crossed |
| `ProcessImplementsEndpoints` | `ApiSpec => Spec /\ SubscribersSpec` | every step of the process, its deaths included, is a step of one of the two endpoints or none of theirs |

The two hypotheses of `SoloImplementsLedger` are needed: `summarize_prefork` allows
two workers to overshoot, and with `top_n = -1`, which `POST /v1/admin/flags`
accepts, the slice of a run is not limited by the budget.

Induction over numbers is had without the library's induction theorems: `NatFill`
says that a set with 0 and every successor of its numbers has all of `Nat`. If it
missed one, adding one would map the numbers up to it, a finite set, one to one
into the same set without 0. The inductive hypothesis is then the membership of a
number in a set, which the provers can do.

Left to TLC: liveness under fairness (`EventuallyPublished`, `RunsEnd`,
`CachesSettle`, `Settles`, `ComesBack`).

## Findings

* The summary cache does not keep `is_breaking`, so the retry after a failed commit
  publishes a breaking article without its mark (`breaking_flag`).
* Of two concurrent requests for one translation, the later one overwrites the row
  of the other, with the English text if its providers failed, for good
  (`translation_lost`).
* Connections of closed event loops can use up all attempts of a summarisation, so
  "the full pipeline in one call" (`admin.py:86`) is not had (`given_up`).

Visible in the models, without a run of their own:

* `max_daily_summaries` is documented as a hard cap on provider calls per day; it
  caps charged answers. Calls that time out, fail or whose run dies are free
  (`Charge` comes after the answer in `Summarize`).
* With a negative `top_n` the slice of a run is not limited by the budget.
* A list can stay without a published story for its whole time to live after the
  invalidation: the `late` fills of `OnlyLateFillsMiss`.
* When the answer to a commit is lost and all other articles of the run fail, the
  run raises without invalidating the lists, and the next one returns early when
  nothing is pending (`Unheard`, an excuse of `StaleListsExplained`).
* An answer of Bedrock's model that is cut inside its reasoning is published with
  it (`"reasoning"` in `FaithfulToAnswer`), and Bedrock publishes an empty summary
  for an answer without sentences, and part of one, or "None", for one with gaps.
* No cache key has `limit`, so a reader can get more results than asked for
  (`Key`); of two overlapping updates of different flags one is undone (the
  premise of `OnlyOverlapReverts`).

## Not modelled

* `models/schemas.py`: `_compute_time_ago` and `_compute_read_minutes` are formatting
  and keep no state.
* `GET /v1/admin/status` counts rows; the key check of the admin endpoints, CORS,
  the health check and the rate limits guard the door and keep no state of the
  program's.
* Settings and logging: settings are constants of the modules.
* Embeddings are reduced to a similarity relation or their absence, prompts and the
  text of feeds, articles and summaries to the kinds the properties tell apart.
* Filters on category and country in the story endpoints, and migrations.

## Plan

Done: the summarisation task with its refinement, ingestion with its fetchers,
stories with their cache, flags, subscribers, the API process, delivery, providers,
and their theorems.

Left: a module of functions for slices and the two time helpers of
`models/schemas.py` against reference definitions; prefork delivery in `Worker`, with
connections inherited at the fork; a theorem that joins `Summarize` and `Stories`:
what the summarisation task does to the readers is what `Stories` assumes of its
workers.
