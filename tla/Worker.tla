--------------------------------- MODULE Worker ---------------------------------
(***************************************************************************)
(* Celery worker processes (--pool=solo): the messages they are given by   *)
(* beat, by the admin endpoints and by one another, and the connections    *)
(* each keeps from one attempt to the next.                                *)
(*                                                                         *)
(* run_async gives every attempt an event loop of its own and closes it,   *)
(* but the Redis client of get_redis() and the engine's pool outlive it.   *)
(* A connection that was opened on a closed loop raises when it is used    *)
(* and is dropped, so the next attempt opens a new one in its place:       *)
(*   void  not connected;  live  opened on the current loop;               *)
(*   dead  opened on a loop that is closed.                                *)
(* What the tasks do to their tables is the subject of Ingest, Summarize   *)
(* and Stories.                                                            *)
(***************************************************************************)
EXTENDS Naturals, Sequences, FiniteSets

CONSTANTS
    Workers,     \* worker processes
    Messages,    \* slots for messages under way; bounds what is queued
    NoMessage,
    Sent,        \* tasks that beat and the admin endpoints send
    MaxBatch,    \* articles of one run of summarize_pending
    MaxDeaths    \* bound on the deaths of processes

ASSUME MessagesAssumption == NoMessage \notin Messages
ASSUME SentAssumption == Sent \subseteq {"fetch", "summarize", "cleanup"}
ASSUME BoundsAssumption == MaxBatch \in Nat \ {0} /\ MaxDeaths \in Nat

VARIABLES
    task,        \* task[m]: the task m asks for
    place,       \* place[m]: where m is
    tries,       \* tries[m]: the retries it has had
    job,         \* job[w]: the message w works on, or NoMessage
    pc,          \* pc[w]: where w is in its attempt
    redis,       \* redis[w]: the connection of get_redis()
    pool,        \* pool[w]: the connections of the engine that are not checked out
    left,        \* left[w]: articles of the batch still to be processed
    served,      \* served[w]: some article of the batch did not fail
    deaths,      \* deaths so far
    streak,      \* ghost: streak[w]: w's latest attempts that all failed on a dead
                 \*   connection before they came to an article
    stale,       \* ghost: stale[w]: articles of the attempt that met a dead connection
    blamed       \* ghost: blamed[m]: an attempt at m met an outage, a failing
                 \*   provider or a death

mail  == <<task, place, tries, blamed>>
conns == <<redis, pool>>
run   == <<job, pc, left, served, streak, stale>>
vars  == <<mail, conns, run, deaths>>

Tasks == {"fetch", "summarize", "cleanup"}

(* max_retries of the task decorators.  Faulty variant: no limit.          *)
Limit == [t \in Tasks |-> IF t = "fetch" THEN 3 ELSE IF t = "summarize" THEN 2 ELSE 0]
MayRetryAlways(m) == TRUE
MayRetry(m) == tries[m] < Limit[task[m]]

Init ==
    /\ task = [m \in Messages |-> "fetch"]
    /\ place = [m \in Messages |-> "free"]
    /\ tries = [m \in Messages |-> 0]
    /\ blamed = [m \in Messages |-> FALSE]
    /\ job = [w \in Workers |-> NoMessage]
    /\ pc = [w \in Workers |-> "idle"]
    /\ redis = [w \in Workers |-> "void"]
    /\ pool = [w \in Workers |-> <<>>]
    /\ left = [w \in Workers |-> 0]
    /\ served = [w \in Workers |-> FALSE]
    /\ streak = [w \in Workers |-> 0]
    /\ stale = [w \in Workers |-> 0]
    /\ deaths = 0
-----------------------------------------------------------------------------
(* The pool is a queue.  Its head is checked out; an empty pool opens a    *)
(* new connection; one that fails is invalidated and goes to the tail.     *)
Usable(p) == p = <<>> \/ Head(p) # "dead"
Rest(p) == IF p = <<>> THEN <<>> ELSE Tail(p)
GivenBack(p) == Append(p, "live")
Passed(p) == GivenBack(Rest(p))       \* checked out, used and given back

(* Faulty variant: a connection that fails is put back as it is.           *)
InvalidatedNot(p) == Append(Tail(p), "dead")
Invalidated(p) == Append(Tail(p), "void")

(* The Redis client drops a connection that failed.  Faulty variant: not.  *)
DroppedNot == "dead"
Dropped == "void"

(* The loop an attempt ran on is closed.                                   *)
Aged(c) == IF c = "live" THEN "dead" ELSE c
CloseLoop(w, p, r) ==
    /\ pool' = [pool EXCEPT ![w] = [i \in DOMAIN p |-> Aged(p[i])]]
    /\ redis' = [redis EXCEPT ![w] = Aged(r)]
    /\ left' = [left EXCEPT ![w] = 0]
    /\ served' = [served EXCEPT ![w] = FALSE]
    /\ stale' = [stale EXCEPT ![w] = 0]

Goto(w, l) == pc' = [pc EXCEPT ![w] = l]

(* The coroutine of the attempt returns.                                   *)
Succeed(w, p, r) ==
    /\ CloseLoop(w, p, r)
    /\ Goto(w, IF task[job[w]] = "fetch" THEN "chain" ELSE "ack")
    /\ streak' = [streak EXCEPT ![w] = 0]
    /\ UNCHANGED <<mail, job, deaths>>

(* Faulty variant: a retry does not count its predecessors.                *)
RetriedUncounted(n) == n
Retried(n) == n + 1

(* It raises; self.retry sends the task again, after a countdown, unless   *)
(* it has been retried often enough.                                       *)
Raise(w, p, r, failures, again, excuse) ==
    LET m == job[w] IN
    /\ CloseLoop(w, p, r)
    /\ Goto(w, "idle")
    /\ job' = [job EXCEPT ![w] = NoMessage]
    /\ streak' = [streak EXCEPT ![w] = failures]
    /\ place' = [place EXCEPT ![m] = IF again THEN "countdown" ELSE "free"]
    /\ tries' = [tries EXCEPT ![m] = IF again THEN Retried(@) ELSE @]
    /\ blamed' = [blamed EXCEPT ![m] = @ \/ excuse]
    /\ UNCHANGED <<task, deaths>>

(* A connection from a closed loop was used.                               *)
RaiseStale(w, p, r) == Raise(w, p, r, streak[w] + 1, MayRetry(job[w]), FALSE)
-----------------------------------------------------------------------------
(* Sending *)

Free == {m \in Messages : place[m] = "free"}
Fetches == {m \in Messages \ Free : task[m] = "fetch"}

Deliver(m, t) ==
    /\ m \in Free
    /\ task' = [task EXCEPT ![m] = t]
    /\ place' = [place EXCEPT ![m] = "queued"]
    /\ tries' = [tries EXCEPT ![m] = 0]
    /\ blamed' = [blamed EXCEPT ![m] = FALSE]

(* Bound: a slot is left for what each fetch under way will chain.         *)
Send(m, t) ==
    /\ Cardinality(Free) > Cardinality(Fetches) + (IF t = "fetch" THEN 1 ELSE 0)
    /\ Deliver(m, t)
    /\ UNCHANGED <<conns, run, deaths>>

(* beat_schedule; POST /admin/fetch, /admin/summarize, /admin/fetch-and-run *)
Beat == \E m \in Messages, t \in Sent : Send(m, t)
Trigger == \E m \in Messages, t \in Sent \ {"cleanup"} : Send(m, t)

(* The countdown of a retry is over.                                       *)
Due(m) ==
    /\ place[m] = "countdown"
    /\ place' = [place EXCEPT ![m] = "queued"]
    /\ UNCHANGED <<task, tries, blamed, conns, run, deaths>>

Take(w, m) ==
    /\ pc[w] = "idle" /\ place[m] = "queued"
    /\ place' = [place EXCEPT ![m] = "running"]
    /\ job' = [job EXCEPT ![w] = m]
    /\ Goto(w, "begin")
    /\ UNCHANGED <<task, tries, blamed, conns, left, served, streak, stale, deaths>>

(* task_acks_late: a message leaves the broker when its attempt is over.   *)
Ack(w) ==
    /\ pc[w] = "ack"
    /\ place' = [place EXCEPT ![job[w]] = "free"]
    /\ job' = [job EXCEPT ![w] = NoMessage]
    /\ Goto(w, "idle")
    /\ UNCHANGED <<task, tries, blamed, conns, left, served, streak, stale, deaths>>
-----------------------------------------------------------------------------
(* Attempts *)

At(w, l, t) == pc[w] = l /\ task[job[w]] = t

(* get_flags, on a connection of its own: the task is switched off, or the  *)
(* flags cannot be read.                                                   *)
SwitchedOff(w) ==
    /\ At(w, "begin", "fetch") \/ At(w, "begin", "summarize")
    /\ Succeed(w, pool[w], redis[w])

(* The daily budget is the first thing asked of the shared Redis client.   *)
ReadBudget(w) ==
    /\ At(w, "begin", "summarize")
    /\ IF redis[w] = "dead"
       THEN RaiseStale(w, pool[w], Dropped)
       ELSE \/ Succeed(w, pool[w], "live")           \* the budget is used up
            \/ /\ redis' = [redis EXCEPT ![w] = "live"]
               /\ Goto(w, "select")
               /\ UNCHANGED <<mail, pool, job, left, served, streak, stale, deaths>>

(* The candidates, on a connection that is kept to the end of the run.     *)
Select(w) ==
    /\ pc[w] = "select"
    /\ IF Usable(pool[w])
       THEN \/ Succeed(w, Passed(pool[w]), redis[w])  \* nothing pending
            \/ /\ pool' = [pool EXCEPT ![w] = Rest(@)]
               /\ \E n \in 1..MaxBatch : left' = [left EXCEPT ![w] = n]
               /\ Goto(w, "articles")
               /\ UNCHANGED <<mail, redis, job, served, streak, stale, deaths>>
       ELSE RaiseStale(w, Invalidated(pool[w]), redis[w])

(* process_one, on a session of its own.                                   *)
Article(w) ==
    /\ pc[w] = "articles" /\ left[w] > 0
    /\ left' = [left EXCEPT ![w] = @ - 1]
    /\ IF Usable(pool[w])
       THEN /\ pool' = [pool EXCEPT ![w] = Passed(@)]
            /\ \/ served' = [served EXCEPT ![w] = TRUE] /\ UNCHANGED blamed
               \/ blamed' = [blamed EXCEPT ![job[w]] = TRUE] /\ UNCHANGED served
            /\ UNCHANGED stale
       ELSE /\ pool' = [pool EXCEPT ![w] = Invalidated(@)]
            /\ stale' = [stale EXCEPT ![w] = @ + 1]
            /\ UNCHANGED <<served, blamed>>
    /\ UNCHANGED <<task, place, tries, redis, job, pc, streak, deaths>>

(* The error when all articles failed comes after the session is closed.   *)
Finish(w) ==
    /\ pc[w] = "articles" /\ left[w] = 0
    /\ IF served[w]
       THEN Succeed(w, GivenBack(pool[w]), redis[w])
       ELSE Raise(w, GivenBack(pool[w]), redis[w], 0, MayRetry(job[w]), FALSE)

(* bulk_create_raw commits the rows, which gives the connection back ...   *)
Store(w) ==
    /\ At(w, "begin", "fetch")
    /\ IF Usable(pool[w])
       THEN /\ pool' = [pool EXCEPT ![w] = Passed(@)]
            /\ Goto(w, "log")
            /\ UNCHANGED <<mail, redis, job, left, served, streak, stale, deaths>>
       ELSE RaiseStale(w, Invalidated(pool[w]), redis[w])

(* ... and the FetchLog is added on whichever comes next.                  *)
Log(w) ==
    /\ pc[w] = "log"
    /\ IF Usable(pool[w])
       THEN Succeed(w, Passed(pool[w]), redis[w])
       ELSE RaiseStale(w, Invalidated(pool[w]), redis[w])

(* summarize_pending.delay()                                               *)
Chain(w) ==
    /\ pc[w] = "chain"
    /\ \E m \in Messages : Deliver(m, "summarize")
    /\ Goto(w, "ack")
    /\ UNCHANGED <<conns, job, left, served, streak, stale, deaths>>

(* cleanup_old_articles is not bound and never retries.                    *)
Cleanup(w) ==
    /\ At(w, "begin", "cleanup")
    /\ IF Usable(pool[w])
       THEN Succeed(w, Passed(pool[w]), redis[w])
       ELSE RaiseStale(w, Invalidated(pool[w]), redis[w])

(* A server refuses, or went away and its connections with it; the broker  *)
(* may refuse the retry as well, and then the message is rejected.         *)
Outage(w) ==
    /\ pc[w] \notin {"idle", "ack"}
    /\ LET now == IF pc[w] = "articles" THEN GivenBack(pool[w]) ELSE pool[w] IN
       \E again \in {MayRetry(job[w]), FALSE} :
          \/ Raise(w, now, redis[w], 0, again, TRUE)
          \/ Raise(w, [i \in DOMAIN now |-> "void"], "void", 0, again, TRUE)

(* The process dies and is started again; a message it had not yet         *)
(* acknowledged is delivered again, whatever its attempt has done.  Bound: *)
(* a fetch that is repeated after its chain finds a slot to chain again.   *)
Die(w) ==
    /\ deaths < MaxDeaths
    /\ At(w, "ack", "fetch") => Cardinality(Free) >= Cardinality(Fetches)
    /\ deaths' = deaths + 1
    /\ pool' = [pool EXCEPT ![w] = <<>>]
    /\ redis' = [redis EXCEPT ![w] = "void"]
    /\ left' = [left EXCEPT ![w] = 0]
    /\ served' = [served EXCEPT ![w] = FALSE]
    /\ stale' = [stale EXCEPT ![w] = 0]
    /\ streak' = [streak EXCEPT ![w] = 0]
    /\ job' = [job EXCEPT ![w] = NoMessage]
    /\ Goto(w, "idle")
    /\ IF pc[w] = "idle"
       THEN UNCHANGED <<place, blamed>>
       ELSE /\ place' = [place EXCEPT ![job[w]] = "queued"]
            /\ blamed' = [blamed EXCEPT ![job[w]] = TRUE]
    /\ UNCHANGED <<task, tries>>

Attempt(w) ==
    \/ SwitchedOff(w) \/ ReadBudget(w) \/ Select(w) \/ Article(w) \/ Finish(w)
    \/ Store(w) \/ Log(w) \/ Chain(w) \/ Cleanup(w) \/ Ack(w)

Next ==
    \/ Beat \/ Trigger
    \/ \E m \in Messages : Due(m) \/ \E w \in Workers : Take(w, m)
    \/ \E w \in Workers : Attempt(w) \/ Outage(w) \/ Die(w)

Spec == Init /\ [][Next]_vars

(* Countdowns end, attempts go on, and the broker's queue is first come,   *)
(* first served: a message that could be taken again and again is.         *)
Fairness ==
    /\ \A w \in Workers : WF_vars(Attempt(w))
    /\ \A m \in Messages : WF_vars(Due(m)) /\ SF_vars(\E w \in Workers : Take(w, m))

FairSpec == Spec /\ Fairness
-----------------------------------------------------------------------------
Connections == {"void", "live", "dead"}
Pools == {p \in Seq(Connections) : Len(p) <= 2}

(* A message is with one process at a time.  A process never has more than *)
(* two connections to the database: that of its run and that of the        *)
(* article in hand.                                                        *)
TypeOK ==
    /\ task \in [Messages -> Tasks]
    /\ place \in [Messages -> {"free", "queued", "running", "countdown"}]
    /\ tries \in [Messages -> 0..3]
    /\ blamed \in [Messages -> BOOLEAN]
    /\ job \in [Workers -> Messages \cup {NoMessage}]
    /\ pc \in [Workers -> {"idle", "begin", "select", "articles", "log", "chain", "ack"}]
    /\ redis \in [Workers -> Connections]
    /\ pool \in [Workers -> Pools]
    /\ left \in [Workers -> 0..MaxBatch]
    /\ served \in [Workers -> BOOLEAN]
    /\ streak \in [Workers -> Nat]
    /\ stale \in [Workers -> Nat]
    /\ deaths \in 0..MaxDeaths
    /\ \A w \in Workers :
          /\ job[w] # NoMessage <=> pc[w] # "idle"
          /\ job[w] # NoMessage => place[job[w]] = "running"
          /\ \A v \in Workers : job[w] = job[v] => w = v \/ job[w] = NoMessage
          /\ pc[w] = "articles" => Len(pool[w]) < 2

(* The shared clients outlive the loops they were used on ("fails silently *)
(* inside the worker's separate loop", core/flags.py:12), yet a process    *)
(* heals: of any six attempts in a row that it carries out, one gets past  *)
(* its dead connections.  A message has at most four.                      *)
HealsWithin == \A w \in Workers : streak[w] <= 5

(* Of the articles of one run at most one fails because the connection it  *)
(* was given is dead, so only a batch of one can fail for that alone.      *)
OneArticleStale == \A w \in Workers : stale[w] <= 1

(* Every message that was sent leaves the broker: it is carried out, given  *)
(* up after its retries, or rejected.                                      *)
Settles == \A m \in Messages : place[m] # "free" ~> place[m] = "free"

(* "so you get the full pipeline in one call" (endpoints/admin.py:86):      *)
(* a summarisation is not given up unless a server, the provider or the    *)
(* process failed.  With Sent = {"fetch"} each one was enqueued by a fetch. *)
GivesUp(w) == pc[w] \notin {"idle", "ack"} /\ place'[job[w]] = "free"
FullPipeline ==
    [][\A w \in Workers :
          GivesUp(w) /\ task[job[w]] = "summarize" => blamed'[job[w]]]_vars
================================================================================
