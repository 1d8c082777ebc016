--------------------------------- MODULE Ingest ---------------------------------
(***************************************************************************)
(* The fetch task, app/workers/tasks.py:_fetch_and_process, run by any     *)
(* number of Celery workers against one database.                          *)
(*                                                                         *)
(* A run reads the feeds, then the known URLs and the known title hashes   *)
(* in two statements, drops what it knows or has seen already, inserts the *)
(* rest in one transaction with a savepoint per article, commits, logs the *)
(* fetch in a second transaction and enqueues the summarisation task.      *)
(***************************************************************************)
EXTENDS Integers, Sequences, FiniteSets

CONSTANTS
    Workers,     \* Celery worker processes able to run the task
    Items,       \* entries the feeds can carry
    Urls,        \* values of original_url
    Hashes,      \* values of content_hash, the normalised title
    UrlOf,       \* UrlOf[i]: the link of entry i
    HashOf,      \* HashOf[i]: the title hash of entry i
    Feeds        \* what one round over all feeds can return: sequences of entries

ASSUME ItemsAssumption ==
    /\ UrlOf \in [Items -> Urls]
    /\ HashOf \in [Items -> Hashes]
    /\ Feeds \subseteq Seq(Items)
    /\ IsFiniteSet(Workers)

VARIABLES
    stored,       \* committed rows of table articles; `by` is a ghost
    logged,       \* sum of articles_new over the committed fetch_logs
    unannounced,  \* rows were committed since summarize_pending was enqueued
    pc,           \* pc[w]: place of w in the run
    left,         \* left[w]: entries w has still to look at
    urls, hashes, \* the Deduplicator's seen_urls and seen_hashes
    mine,         \* mine[w]: rows w has inserted and not yet committed
    saved,        \* saved[w]: len(saved) of the run
    fetched,      \* ghost: the entries of the run
    lost,         \* ghost: entries of the run whose insert failed
    excused       \* ghost: a run that had committed rows ended before it enqueued

vars == <<stored, logged, unannounced, pc, left, urls, hashes, mine, saved, fetched,
          lost, excused>>

Row(i, w) == [url |-> UrlOf[i], hash |-> HashOf[i], by |-> w]
UrlsOf(rows)   == {r.url : r \in rows}
HashesOf(rows) == {r.hash : r \in rows}
Entries(s)     == {s[n] : n \in DOMAIN s}

(* Two entries the Deduplicator takes for one story. *)
SameStory(i, j) == UrlOf[i] = UrlOf[j] \/ HashOf[i] = HashOf[j]

(* Another transaction has inserted url and not ended: the insert waits.  *)
Holds(v, url)  == url \in UrlsOf(mine[v])
Inserting(w)   == pc[w] = "insert" /\ left[w] # <<>>
Waits(w, v)    == v # w /\ Inserting(w) /\ Holds(v, UrlOf[Head(left[w])])
Free(w)        == \A v \in Workers : ~Waits(w, v)

(* Transactions that wait in a ring: each for one of them, and each waited for. *)
Deadlocked(w) ==
    \E ring \in SUBSET Workers :
        /\ w \in ring
        /\ \A u \in ring : \E v \in ring : Waits(u, v)
        /\ \A v \in ring : \E u \in ring : Waits(u, v)

(* Deduplicator.filter for one entry.  Faulty variant: the titles of the   *)
(* batch itself are not remembered.                                        *)
KnownBefore(w, i) == UrlOf[i] \in urls[w] \/ (HashOf[i] \in hashes[w] /\ HashOf[i] \in HashesOf(stored))
Known(w, i) == UrlOf[i] \in urls[w] \/ HashOf[i] \in hashes[w]

-----------------------------------------------------------------------------
Init ==
    /\ stored = {}
    /\ logged = 0
    /\ unannounced = FALSE
    /\ pc = [w \in Workers |-> "idle"]
    /\ left = [w \in Workers |-> <<>>]
    /\ urls = [w \in Workers |-> {}]
    /\ hashes = [w \in Workers |-> {}]
    /\ mine = [w \in Workers |-> {}]
    /\ saved = [w \in Workers |-> 0]
    /\ fetched = [w \in Workers |-> {}]
    /\ lost = [w \in Workers |-> {}]
    /\ excused = FALSE

Goto(w, place) == pc' = [pc EXCEPT ![w] = place]

(* The task returns or raises; an open transaction is rolled back. *)
EndRun(w) ==
    /\ Goto(w, "idle")
    /\ left' = [left EXCEPT ![w] = <<>>]
    /\ urls' = [urls EXCEPT ![w] = {}]
    /\ hashes' = [hashes EXCEPT ![w] = {}]
    /\ mine' = [mine EXCEPT ![w] = {}]
    /\ saved' = [saved EXCEPT ![w] = 0]
    /\ fetched' = [fetched EXCEPT ![w] = {}]
    /\ lost' = [lost EXCEPT ![w] = {}]

(* get_flags: with fetch_enabled off, or Redis unreachable, nothing is     *)
(* fetched, and the summarisation task is enqueued all the same.           *)
ReadFlags(w) ==
    /\ pc[w] = "idle"
    /\ Goto(w, "urls") \/ Goto(w, "chain")
    /\ UNCHANGED <<stored, logged, unannounced, left, urls, hashes, mine, saved, fetched,
                   lost, excused>>

(* The feeds, one after the other; a feed that fails is left out.  Then the *)
(* first of the two statements that read what is known.                     *)
FetchAndReadUrls(w) ==
    /\ pc[w] = "urls"
    /\ \E feed \in Feeds : /\ left' = [left EXCEPT ![w] = feed]
                           /\ fetched' = [fetched EXCEPT ![w] = Entries(feed)]
    /\ urls' = [urls EXCEPT ![w] = UrlsOf(stored)]
    /\ Goto(w, "hashes")
    /\ UNCHANGED <<stored, logged, unannounced, hashes, mine, saved, lost, excused>>

ReadHashes(w) ==
    /\ pc[w] = "hashes"
    /\ hashes' = [hashes EXCEPT ![w] = HashesOf(stored)]
    /\ Goto(w, "insert")
    /\ UNCHANGED <<stored, logged, unannounced, left, urls, mine, saved, fetched, lost,
                   excused>>

-----------------------------------------------------------------------------
(***************************************************************************)
(* filter and bulk_create_raw.  The filter looks at nothing but its own    *)
(* sets, so that it may be run entry by entry, each just before its insert.*)
(***************************************************************************)
See(w) ==
    /\ Inserting(w)
    /\ left' = [left EXCEPT ![w] = Tail(@)]

(* Faulty variant: the two sets of the Deduplicator are swapped. *)
RememberSwapped(w, i) ==
    /\ urls' = [urls EXCEPT ![w] = @ \cup {HashOf[i]}]
    /\ hashes' = [hashes EXCEPT ![w] = @ \cup {UrlOf[i]}]

Remember(w, i) ==
    /\ urls' = [urls EXCEPT ![w] = @ \cup {UrlOf[i]}]
    /\ hashes' = [hashes EXCEPT ![w] = @ \cup {HashOf[i]}]

Drop(w) ==
    /\ See(w)
    /\ Known(w, Head(left[w]))
    /\ UNCHANGED <<stored, logged, unannounced, pc, urls, hashes, mine, saved, fetched,
                   lost, excused>>

(* Faulty variant: a duplicate that surfaces at the insert is tried again. *)
InsertAgain(w) ==
    /\ Inserting(w) /\ Free(w)
    /\ LET i == Head(left[w])
       IN  /\ ~Known(w, i)
           /\ IF UrlOf[i] \in UrlsOf(stored)
              THEN UNCHANGED <<left, urls, hashes, mine>>
              ELSE /\ mine' = [mine EXCEPT ![w] = @ \cup {Row(i, w)}]
                   /\ See(w)
                   /\ Remember(w, i)
    /\ UNCHANGED <<stored, logged, unannounced, pc, saved, fetched, lost, excused>>

(* Faulty variant: without savepoints a conflict rolls back the whole batch. *)
InsertNoSavepoint(w) ==
    /\ See(w) /\ Free(w)
    /\ LET i == Head(left[w])
       IN  /\ ~Known(w, i)
           /\ Remember(w, i)
           /\ mine' = [mine EXCEPT ![w] = IF UrlOf[i] \in UrlsOf(stored) THEN {}
                                          ELSE @ \cup {Row(i, w)}]
    /\ UNCHANGED <<stored, logged, unannounced, pc, saved, fetched, lost, excused>>

(* create_from_raw in a savepoint.  A URL that was committed since it was  *)
(* looked for raises IntegrityError, and the entry is skipped.             *)
Insert(w) ==
    /\ See(w) /\ Free(w)
    /\ LET i == Head(left[w])
       IN  /\ ~Known(w, i)
           /\ Remember(w, i)
           /\ mine' = [mine EXCEPT ![w] = IF UrlOf[i] \in UrlsOf(stored) THEN @
                                          ELSE @ \cup {Row(i, w)}]
    /\ UNCHANGED <<stored, logged, unannounced, pc, saved, fetched, lost, excused>>

(* Any other error of one insert: logged, and the entry is skipped. *)
Lose(w) ==
    /\ See(w)
    /\ LET i == Head(left[w])
       IN  /\ ~Known(w, i)
           /\ Remember(w, i)
           /\ lost' = [lost EXCEPT ![w] = @ \cup {i}]
    /\ UNCHANGED <<stored, logged, unannounced, pc, mine, saved, fetched, excused>>

InsertFails(w) == ~Deadlocked(w) /\ Lose(w)

(* PostgreSQL ends a ring of waiting transactions by failing one statement. *)
DeadlockVictim(w) == Deadlocked(w) /\ Lose(w)

(* Faulty variant: the rows of the batch are counted, inserted or not. *)
CommitRowsCountsBatch(w) ==
    /\ pc[w] = "insert" /\ left[w] = <<>>
    /\ stored' = stored \cup mine[w]
    /\ unannounced' = (unannounced \/ mine[w] # {})
    /\ saved' = [saved EXCEPT ![w] = Cardinality(fetched[w])]
    /\ mine' = [mine EXCEPT ![w] = {}]
    /\ Goto(w, "log")
    /\ UNCHANGED <<logged, left, urls, hashes, fetched, lost, excused>>

(* The commit at the end of bulk_create_raw. *)
CommitRows(w) ==
    /\ pc[w] = "insert" /\ left[w] = <<>>
    /\ stored' = stored \cup mine[w]
    /\ unannounced' = (unannounced \/ mine[w] # {})
    /\ saved' = [saved EXCEPT ![w] = Cardinality(mine[w])]
    /\ mine' = [mine EXCEPT ![w] = {}]
    /\ Goto(w, "log")
    /\ UNCHANGED <<logged, left, urls, hashes, fetched, lost, excused>>

LogFetch(w) ==
    /\ pc[w] = "log"
    /\ logged' = logged + saved[w]
    /\ Goto(w, "chain")
    /\ UNCHANGED <<stored, unannounced, left, urls, hashes, mine, saved, fetched, lost,
                   excused>>

(* Faulty variant: the task is enqueued only by a run that lost nothing. *)
ChainIfClean(w) ==
    /\ pc[w] = "chain"
    /\ IF lost[w] = {} THEN unannounced' = FALSE /\ excused' = FALSE
                       ELSE UNCHANGED <<unannounced, excused>>
    /\ EndRun(w)
    /\ UNCHANGED <<stored, logged>>

(* summarize_pending.delay(). *)
Chain(w) ==
    /\ pc[w] = "chain"
    /\ unannounced' = FALSE
    /\ excused' = FALSE
    /\ EndRun(w)
    /\ UNCHANGED <<stored, logged>>

(* An exception, answered by a retry that starts from the beginning, or    *)
(* the death of the process, answered by a redelivery or by the next beat. *)
Abort(w) ==
    /\ pc[w] # "idle"
    /\ excused' = (excused \/ saved[w] > 0)
    /\ EndRun(w)
    /\ UNCHANGED <<stored, logged, unannounced>>

-----------------------------------------------------------------------------
Step(w) == FetchAndReadUrls(w) \/ ReadHashes(w) \/ Drop(w) \/ Insert(w)
           \/ DeadlockVictim(w) \/ CommitRows(w) \/ LogFetch(w) \/ Chain(w)

Next == \E w \in Workers : ReadFlags(w) \/ Step(w) \/ InsertFails(w) \/ Abort(w)

Spec == Init /\ [][Next]_vars

(* A step that stays possible is taken, and a deadlock is detected.  An    *)
(* insert that waits is woken when the other transaction ends, long before *)
(* a next run of the other worker has fetched its feeds and inserts again, *)
(* so that an insert which becomes free again and again is carried out.    *)
FairSpec == Spec /\ \A w \in Workers : WF_vars(Step(w)) /\ SF_vars(Insert(w))
-----------------------------------------------------------------------------
Places == {"idle", "urls", "hashes", "insert", "log", "chain"}
Rows   == [url : Urls, hash : Hashes, by : Workers]

(* Every variable keeps to its type. *)
TypeOK ==
    /\ stored \subseteq Rows
    /\ logged \in Nat
    /\ unannounced \in BOOLEAN
    /\ pc \in [Workers -> Places]
    /\ left \in [Workers -> Seq(Items)]
    /\ urls \in [Workers -> SUBSET Urls]
    /\ hashes \in [Workers -> SUBSET Hashes]
    /\ mine \in [Workers -> SUBSET Rows]
    /\ saved \in [Workers -> Nat]
    /\ fetched \in [Workers -> SUBSET Items]
    /\ lost \in [Workers -> SUBSET Items]
    /\ excused \in BOOLEAN

(* No worker stores one headline twice, whatever URLs it comes under, over *)
(* all its runs: with a single worker every story is stored once; only     *)
(* runs of different workers that overlap can store it again.              *)
OncePerWorker ==
    \A r, s \in stored : r.hash = s.hash /\ r.by = s.by => r = s

(* When the rows of a run are committed, every entry it fetched stands in  *)
(* the table under its URL or its title, itself or through an entry of the *)
(* batch taken for the same story, unless the insert of that one failed.   *)
InTable(i) == UrlOf[i] \in UrlsOf(stored) \/ HashOf[i] \in HashesOf(stored)
NothingSkipped ==
    \A w \in Workers : pc[w] \in {"log", "chain"} =>
        \A i \in fetched[w] : \E j \in fetched[w] :
            SameStory(i, j) /\ (InTable(j) \/ j \in lost[w])

(* The fetch logs never claim more new articles than the table has, over   *)
(* retries of runs that died between their two commits.                    *)
LogsNeverOverstate == logged <= Cardinality(stored)

(* When no run is going, rows nobody was told of are due to a run that     *)
(* ended between its commit and the enqueueing.                            *)
AnnouncedOrExcused ==
    unannounced /\ (\A w \in Workers : pc[w] = "idle") => excused

(* Every run ends, although the inserts of overlapping runs wait for one   *)
(* another, in a ring when they come in different orders.                  *)
RunsEnd == \A w \in Workers : pc[w] # "idle" ~> pc[w] = "idle"
================================================================================
