------------------------------- MODULE Summarize -------------------------------
(***************************************************************************)
(* The summarisation task, app/workers/tasks.py:_summarize_pending, run by *)
(* any number of Celery workers against one database and one Redis.        *)
(*                                                                         *)
(* A run reads the flags and the day's budget, takes a batch of pending    *)
(* articles and puts them one at a time through stub check, title dedup,   *)
(* semantic dedup, summary cache and provider.  Each article has a         *)
(* transaction of its own; Redis is outside every transaction.  A step is  *)
(* the code between two awaits that another worker can observe.            *)
(***************************************************************************)
EXTENDS Integers, FiniteSets, FiniteSetsExt

CONSTANTS
    Articles,      \* rows of table articles, all fetched before the horizon
    Workers,       \* Celery worker processes able to run the task
    Titles,        \* values of title_en
    Keys,          \* values of the summary-cache hash (title and first 400 characters)
    TitleOf,       \* TitleOf[a]: a's title
    KeyOf,         \* KeyOf[a]: a's summary-cache hash
    Words,         \* Words[a]: word count of a's raw content
    Fetched,       \* Fetched[a]: position of a in fetched_at order
    Alike,         \* pairs of titles whose Jaccard similarity reaches 0.55
    SemAlike,      \* pairs of titles whose embeddings reach the semantic threshold
    BreakingNews,  \* articles _detect_breaking flags
    Poison,        \* articles the provider never answers for
    FlagChoices,   \* flag records an administrator may have stored
    Provider,      \* "groq" or "bedrock" (AI_PROVIDER)
    BatchLimit,    \* get_unsummarized(limit=100)
    MaxDay,        \* bound: last calendar day of the horizon
    MaxOrphans,    \* bound: provider threads a worker may have abandoned
    NoArticle, NoText

Days  == 0..MaxDay
Flags == [summarize_enabled : BOOLEAN, semantic_dedup_enabled : BOOLEAN,
          max_daily_summaries : Int, min_words : Int, top_n : Int]

ASSUME SetsAssumption ==
    /\ IsFiniteSet(Articles) /\ IsFiniteSet(Workers)
    /\ Fetched \in [Articles -> Nat]
    /\ \A a, b \in Articles : Fetched[a] = Fetched[b] => a = b
ASSUME TitlesAssumption ==
    /\ TitleOf \in [Articles -> Titles]
    /\ KeyOf \in [Articles -> Keys]
    /\ Words \in [Articles -> Nat]
    /\ Alike \subseteq Titles \X Titles
    /\ SemAlike \subseteq Titles \X Titles
    /\ BreakingNews \subseteq Articles /\ Poison \subseteq Articles
ASSUME FlagsAssumption ==
    /\ FlagChoices \subseteq Flags
    /\ Provider \in {"groq", "bedrock"}
ASSUME BoundsAssumption ==
    BatchLimit \in Nat /\ MaxDay \in Nat /\ MaxOrphans \in Nat
ASSUME NoArticleAssumption == NoArticle \notin Articles

(***************************************************************************)
(* Summary texts: what the feed carried, a provider's answer, and the      *)
(* extract Bedrock's client makes up when its call fails.                  *)
(***************************************************************************)
Text == [kind : {"raw"}, of : Articles] \cup [kind : {"llm", "extract"}, of : Keys]
ASSUME NoTextAssumption == NoText \notin Text

Raw(a)     == [kind |-> "raw", of |-> a]
Llm(k)     == [kind |-> "llm", of |-> k]
Extract(k) == [kind |-> "extract", of |-> k]
OwnTexts(a) == {Raw(a), Llm(KeyOf[a]), Extract(KeyOf[a])}

VARIABLES
    row,      \* row[a]: the columns summary_en, is_summarized, is_breaking of a
    fresh,    \* articles fetched within the last six hours
    cache,    \* cache[k]: Redis key summary:<k>, or NoText
    budget,   \* budget[d]: Redis counter daily_summaries:<d>
    today,    \* the calendar day
    stale,    \* a summary was committed since stories:* was last deleted
    pc, ctx, todo, cur, recent, tally, draft,  \* the run of each worker
    orphans,  \* provider threads abandoned by a timeout and still running
    paid,     \* ghost: paid[w][k], charges by w while summary:<k> has lived
    excused   \* ghost: a run that had published ended without its invalidation

shared == <<row, fresh, cache, budget, today, stale>>
run    == <<pc, ctx, todo, cur, recent, tally, draft>>
ghosts == <<paid, excused>>
vars   == <<row, fresh, cache, budget, today, stale,
            pc, ctx, todo, cur, recent, tally, draft, orphans,
            paid, excused>>

-----------------------------------------------------------------------------
(* core/flags.py: SAFE_DEFAULTS, what get_flags returns when Redis fails. *)
SafeDefaults == [summarize_enabled |-> FALSE, semantic_dedup_enabled |-> TRUE,
                 max_daily_summaries |-> 0, min_words |-> 20, top_n |-> 30]

NoCtx   == [flags |-> SafeDefaults, day |-> 0, limit |-> 0, total |-> 0,
            embedded |-> FALSE]
NoTally == [failed |-> 0, published |-> 0, unheard |-> FALSE]
NoDraft == [text |-> NoText, breaking |-> FALSE]

(* The places of process_one's try block, and of the whole run. *)
InTry  == {"load", "jaccard", "semantic", "cache", "write", "answer",
           "flush", "setex", "incr", "commit"}
InRun  == {"budget", "select", "titles", "next"} \cup InTry
Locked == {"setex", "incr", "commit"}      \* flushed, not yet committed

Pending       == {a \in Articles : ~row[a].summarized}
(* Faulty variant: the lookup forgets Article.is_summarized == True. *)
SummarizedUnfiltered(t) == {b \in Articles : TitleOf[b] = t}

Summarized(t) == {b \in Articles : row[b].summarized /\ TitleOf[b] = t}
LockFree(w)   == \A v \in Workers \ {w} : ~(pc[v] \in Locked /\ cur[v] = cur[w])

(* Python's len(xs[:k]) for len(xs) = n: a negative k drops from the end. *)
SliceLen(n, k) == IF k >= 0 THEN IF k <= n THEN k ELSE n
                  ELSE IF n + k >= 0 THEN n + k ELSE 0

(* get_unsummarized: the BatchLimit pending rows fetched first. *)
Candidates == {a \in Pending :
                 Cardinality({b \in Pending : Fetched[b] < Fetched[a]}) < BatchLimit}

(* find_similar_summarized(title), read through a session holding a: a row *)
(* that is a itself comes back from the identity map as it was loaded.     *)
CopyOf(b, a) == IF b = a THEN [text |-> Raw(a), breaking |-> FALSE]
                ELSE [text |-> row[b].text, breaking |-> row[b].breaking]

(* update_summary and the flush's UPDATE, which carries only the columns   *)
(* whose value differs from the unsummarised row the session loaded.       *)
WrittenAllColumns(a, d) ==     \* faulty variant: the UPDATE carries every column
    [summarized |-> TRUE, text |-> d.text, breaking |-> d.breaking]
Written(a, d) == [summarized |-> TRUE,
                  text       |-> IF d.text = Raw(a) THEN row[a].text ELSE d.text,
                  breaking   |-> row[a].breaking \/ d.breaking]

-----------------------------------------------------------------------------
Init ==
    /\ row = [a \in Articles |-> [summarized |-> FALSE, text |-> Raw(a), breaking |-> FALSE]]
    /\ fresh = Articles
    /\ cache = [k \in Keys |-> NoText]
    /\ budget = [d \in Days |-> 0]
    /\ today = 0
    /\ stale = FALSE
    /\ pc = [w \in Workers |-> "idle"]
    /\ ctx = [w \in Workers |-> NoCtx]
    /\ todo = [w \in Workers |-> {}]
    /\ cur = [w \in Workers |-> NoArticle]
    /\ recent = [w \in Workers |-> {}]
    /\ tally = [w \in Workers |-> NoTally]
    /\ draft = [w \in Workers |-> NoDraft]
    /\ orphans = [w \in Workers |-> 0]
    /\ paid = [w \in Workers |-> [k \in Keys |-> 0]]
    /\ excused = FALSE

Goto(w, place) == pc' = [pc EXCEPT ![w] = place]

(* The task returns or raises: nothing of the run survives in the worker. *)
EndRun(w) ==
    /\ Goto(w, "idle")
    /\ ctx' = [ctx EXCEPT ![w] = NoCtx]
    /\ todo' = [todo EXCEPT ![w] = {}]
    /\ cur' = [cur EXCEPT ![w] = NoArticle]
    /\ recent' = [recent EXCEPT ![w] = {}]
    /\ tally' = [tally EXCEPT ![w] = NoTally]
    /\ draft' = [draft EXCEPT ![w] = NoDraft]

(* process_one returns, having left tally t. *)
Settle(w, t) ==
    /\ Goto(w, "next")
    /\ cur' = [cur EXCEPT ![w] = NoArticle]
    /\ draft' = [draft EXCEPT ![w] = NoDraft]
    /\ tally' = [tally EXCEPT ![w] = t]

Failed(w)    == [tally[w] EXCEPT !.failed = @ + 1]
Published(w) == [tally[w] EXCEPT !.published = @ + 1]

(* The ghost part of a tally: a commit that was carried out has raised.    *)
Unheard(w) == [Failed(w) EXCEPT !.unheard = TRUE]

(* The run has changed what readers should see, whether it knows or not.   *)
HasPublished(w) == tally[w].published > 0 \/ tally[w].unheard

(* Faulty variant: the summary computed is not passed on. *)
ProposeForgotten(w, d, place) ==
    /\ Goto(w, place)
    /\ UNCHANGED draft

(* The draft of the current article is settled upon and goes to `place`. *)
Propose(w, d, place) ==
    /\ Goto(w, place)
    /\ draft' = [draft EXCEPT ![w] = d]

-----------------------------------------------------------------------------
(***************************************************************************)
(* The run around the articles.                                            *)
(***************************************************************************)
ReadFlags(w) ==
    /\ pc[w] = "idle"
    /\ \E f \in FlagChoices \cup {SafeDefaults} :
         IF f.summarize_enabled
         THEN /\ Goto(w, "budget")
              /\ ctx' = [ctx EXCEPT ![w].flags = f]
         ELSE UNCHANGED <<pc, ctx>>
    /\ UNCHANGED <<shared, todo, cur, recent, tally, draft, orphans, ghosts>>

(* Faulty variant: the slice ignores what remains of the budget. *)
ReadBudgetUncapped(w) ==
    /\ pc[w] = "budget"
    /\ LET f == ctx[w].flags
       IN  IF f.max_daily_summaries - budget[today] <= 0
           THEN EndRun(w)
           ELSE /\ Goto(w, "select")
                /\ ctx' = [ctx EXCEPT ![w].day = today, ![w].limit = f.top_n]
                /\ UNCHANGED <<todo, cur, recent, tally, draft>>
    /\ UNCHANGED <<shared, orphans, ghosts>>

(* The budget is read once; a reached limit ends the run. *)
ReadBudget(w) ==
    /\ pc[w] = "budget"
    /\ LET f == ctx[w].flags
           remaining == f.max_daily_summaries - budget[today]
       IN  IF remaining <= 0
           THEN EndRun(w)
           ELSE /\ Goto(w, "select")
                /\ ctx' = [ctx EXCEPT ![w].day = today, ![w].limit =
                             IF f.top_n <= remaining THEN f.top_n ELSE remaining]
                /\ UNCHANGED <<todo, cur, recent, tally, draft>>
    /\ UNCHANGED <<shared, orphans, ghosts>>

(* Ranking by recency and source is abstracted to any choice of the slice. *)
SelectBatch(w) ==
    /\ pc[w] = "select"
    /\ IF Candidates = {}
       THEN EndRun(w)
       ELSE /\ \E batch \in kSubset(SliceLen(Cardinality(Candidates), ctx[w].limit),
                                    Candidates) :
                 /\ todo' = [todo EXCEPT ![w] = batch]
                 /\ ctx' = [ctx EXCEPT ![w].total = Cardinality(batch)]
            /\ Goto(w, "titles")
            /\ UNCHANGED <<cur, recent, tally, draft>>
    /\ UNCHANGED <<shared, orphans, ghosts>>

(* Faulty variant: the query for recent titles has no cutoff.              *)
LoadRecentOfAllTime(w) ==
    /\ pc[w] = "titles"
    /\ recent' = [recent EXCEPT ![w] = {TitleOf[b] : b \in Articles \ Pending}]
    /\ \E embedded \in {FALSE, ctx[w].flags.semantic_dedup_enabled} :
         ctx' = [ctx EXCEPT ![w].embedded = embedded]
    /\ Goto(w, "next")
    /\ UNCHANGED <<shared, todo, cur, tally, draft, orphans, ghosts>>

(* Titles summarised in the last six hours, and their embeddings if the    *)
(* flag asks for them and the embedding batch does not fail.               *)
LoadRecent(w) ==
    /\ pc[w] = "titles"
    /\ recent' = [recent EXCEPT ![w] = {TitleOf[b] : b \in fresh \ Pending}]
    /\ \E embedded \in {FALSE, ctx[w].flags.semantic_dedup_enabled} :
         ctx' = [ctx EXCEPT ![w].embedded = embedded]
    /\ Goto(w, "next")
    /\ UNCHANGED <<shared, todo, cur, tally, draft, orphans, ghosts>>

(* Semaphore(1): the next coroutine of the batch enters. *)
TakeNext(w) ==
    /\ pc[w] = "next" /\ todo[w] # {}
    /\ \E a \in todo[w] : /\ cur' = [cur EXCEPT ![w] = a]
                          /\ todo' = [todo EXCEPT ![w] = @ \ {a}]
    /\ Goto(w, "load")
    /\ UNCHANGED <<shared, ctx, recent, tally, draft, orphans, ghosts>>

(* Faulty variant: one failed article is enough to raise. *)
FinishRaisesOnAny(w) ==
    /\ pc[w] = "next" /\ todo[w] = {}
    /\ \/ tally[w].failed > 0 /\ UNCHANGED <<stale, excused>>
       \/ tally[w].failed = 0 /\ stale' = FALSE /\ excused' = FALSE
    /\ EndRun(w)
    /\ UNCHANGED <<row, fresh, cache, budget, today, orphans, paid>>

(* gather has returned: raise if everything failed, else drop stories:*.   *)
(* The raise hides a commit that nobody heard of; Redis may refuse.        *)
Finish(w) ==
    /\ pc[w] = "next" /\ todo[w] = {}
    /\ \/ /\ ctx[w].total > 0 /\ tally[w].failed = ctx[w].total
          /\ excused' = (excused \/ tally[w].unheard)
          /\ UNCHANGED stale
       \/ /\ ~(ctx[w].total > 0 /\ tally[w].failed = ctx[w].total)
          /\ \/ stale' = FALSE /\ excused' = FALSE
             \/ excused' = (excused \/ HasPublished(w)) /\ UNCHANGED stale
    /\ EndRun(w)
    /\ UNCHANGED <<row, fresh, cache, budget, today, orphans, paid>>

-----------------------------------------------------------------------------
(***************************************************************************)
(* process_one, one article at a time.                                     *)
(***************************************************************************)

(* get_by_id, the is_summarized re-check and the stub test. *)
LoadArticle(w) ==
    /\ pc[w] = "load"
    /\ LET a == cur[w]
       IN  IF row[a].summarized
           THEN Settle(w, tally[w])
           ELSE /\ IF Words[a] < ctx[w].flags.min_words
                   THEN Propose(w, [text |-> Raw(a), breaking |-> FALSE], "write")
                   ELSE Goto(w, "jaccard") /\ UNCHANGED draft
                /\ UNCHANGED <<cur, tally>>
    /\ UNCHANGED <<shared, ctx, todo, recent, orphans, ghosts>>

(* find_similar_summarized for a title that matched: reuse the only row    *)
(* that has it, or fail on several (scalar_one_or_none).                   *)
Reuse(w, title) ==
    \/ /\ Cardinality(Summarized(title)) > 1
       /\ Settle(w, Failed(w))
    \/ /\ Cardinality(Summarized(title)) = 1
       /\ \E b \in Summarized(title) : Propose(w, CopyOf(b, cur[w]), "write")
       /\ UNCHANGED <<cur, tally>>

Jaccard(w) ==
    /\ pc[w] = "jaccard"
    /\ LET hits == {t \in recent[w] : /\ <<TitleOf[cur[w]], t>> \in Alike
                                      /\ Summarized(t) # {}}
       IN  \/ \E t \in hits : Reuse(w, t)
           \/ /\ hits = {}
              /\ Goto(w, "semantic")
              /\ UNCHANGED <<cur, tally, draft>>
    /\ UNCHANGED <<shared, ctx, todo, recent, orphans, ghosts>>

(* Only the best match is looked up; which of several is best is open. *)
Semantic(w) ==
    /\ pc[w] = "semantic"
    /\ LET close == {t \in recent[w] : <<TitleOf[cur[w]], t>> \in SemAlike}
       IN  \/ ctx[w].embedded /\ \E t \in close : Reuse(w, t)
           \/ /\ ctx[w].embedded => close = {} \/ \E t \in close : Summarized(t) = {}
              /\ Goto(w, "cache")
              /\ UNCHANGED <<cur, tally, draft>>
    /\ UNCHANGED <<shared, ctx, todo, recent, orphans, ghosts>>

(* The request leaves at once, in a thread of its own (asyncio.to_thread). *)
CallProvider(w) == Goto(w, "answer")

CheckCache(w) ==
    /\ pc[w] = "cache"
    /\ LET hit == cache[KeyOf[cur[w]]]
       IN  IF hit # NoText
           THEN Propose(w, [text |-> hit, breaking |-> FALSE], "write")
           ELSE CallProvider(w) /\ UNCHANGED draft
    /\ UNCHANGED <<shared, ctx, todo, cur, recent, tally, orphans, ghosts>>

(* Faulty variant: a reused or stub summary is counted as a failure. *)
WriteCountsFailed(w) ==
    /\ pc[w] = "write" /\ LockFree(w)
    /\ row' = [row EXCEPT ![cur[w]] = Written(cur[w], draft[w])]
    /\ stale' = TRUE
    /\ Settle(w, Failed(w))
    /\ UNCHANGED <<fresh, cache, budget, today, ctx, todo, recent, orphans, ghosts>>

(* The server carries out the commit.  If its answer is lost, the commit   *)
(* raises all the same, and the article is counted as failed.              *)
Committed(w) ==
    /\ row' = [row EXCEPT ![cur[w]] = Written(cur[w], draft[w])]
    /\ stale' = TRUE
    /\ \E t \in {Published(w), Unheard(w)} : Settle(w, t)
    /\ UNCHANGED <<fresh, cache, budget, today, ctx, todo, recent, orphans, ghosts>>

(* update_summary and commit with nothing in between (stub, reuse, cache). *)
WriteAndCommit(w) ==
    /\ pc[w] = "write" /\ LockFree(w)
    /\ Committed(w)

(* Faulty variant: every generated summary is marked as breaking. *)
AnswerAlwaysBreaking(w) ==
    /\ pc[w] = "answer" /\ cur[w] \notin Poison
    /\ Propose(w, [text |-> Llm(KeyOf[cur[w]]), breaking |-> TRUE], "flush")
    /\ UNCHANGED <<shared, ctx, todo, cur, recent, tally, orphans, ghosts>>

(* A well-formed answer, and the local detection of breaking news. *)
AnswerOK(w) ==
    /\ pc[w] = "answer" /\ cur[w] \notin Poison
    /\ Propose(w, [text |-> Llm(KeyOf[cur[w]]), breaking |-> cur[w] \in BreakingNews],
               "flush")
    /\ UNCHANGED <<shared, ctx, todo, cur, recent, tally, orphans, ghosts>>

(* Bedrock's client turns any error into an extract of the content. *)
FallbackAnswer(w) ==
    /\ pc[w] = "answer" /\ Provider = "bedrock"
    /\ Propose(w, [text |-> Extract(KeyOf[cur[w]]), breaking |-> cur[w] \in BreakingNews],
               "flush")
    /\ UNCHANGED <<shared, ctx, todo, cur, recent, tally, orphans, ghosts>>

(* wait_for gives up after ARTICLE_TO; the thread it waited for goes on. *)
Timeout(w) ==
    /\ pc[w] = "answer" /\ orphans[w] < MaxOrphans
    /\ orphans' = [orphans EXCEPT ![w] = @ + 1]
    /\ Settle(w, Failed(w))
    /\ UNCHANGED <<shared, ctx, todo, recent, ghosts>>

(* update_summary's UPDATE: waits for the row lock, then holds it. *)
Flush(w) ==
    /\ pc[w] = "flush" /\ LockFree(w)
    /\ Goto(w, "setex")
    /\ UNCHANGED <<shared, ctx, todo, cur, recent, tally, draft, orphans, ghosts>>

(* Faulty variant: the generated summary is not cached. *)
SetCacheForgotten(w) ==
    /\ pc[w] = "setex"
    /\ Goto(w, "incr")
    /\ UNCHANGED <<shared, ctx, todo, cur, recent, tally, draft, orphans, ghosts>>

SetCache(w) ==
    /\ pc[w] = "setex"
    /\ cache' = [cache EXCEPT ![KeyOf[cur[w]]] = draft[w].text]
    /\ Goto(w, "incr")
    /\ UNCHANGED <<row, fresh, budget, today, stale, ctx, todo, cur, recent, tally,
                   draft, orphans, ghosts>>

(* incr and expire; if expire fails the charge stands and the article fails. *)
Charge(w) ==
    /\ pc[w] = "incr"
    /\ budget' = [budget EXCEPT ![ctx[w].day] = @ + 1]
    /\ paid' = [paid EXCEPT ![w][KeyOf[cur[w]]] = @ + 1]
    /\ \/ /\ Goto(w, "commit")
          /\ recent' = [recent EXCEPT ![w] = @ \cup {TitleOf[cur[w]]}]
          /\ UNCHANGED <<cur, draft, tally>>
       \/ /\ Settle(w, Failed(w))
          /\ UNCHANGED recent
    /\ UNCHANGED <<row, fresh, cache, today, stale, ctx, todo, orphans, excused>>

Commit(w) ==
    /\ pc[w] = "commit"
    /\ Committed(w)

(* Any awaited call raises: roll back and count the article as failed.  A  *)
(* commit that raises here has not been carried out.                       *)
(* Bedrock's client raises nothing, so a provider error is not among them. *)
FailArticle(w) ==
    /\ pc[w] \in InTry
    /\ ~(pc[w] = "answer" /\ Provider = "bedrock")
    /\ Settle(w, Failed(w))
    /\ UNCHANGED <<shared, ctx, todo, recent, orphans, ghosts>>

-----------------------------------------------------------------------------
(***************************************************************************)
(* What ends a run from outside, and the environment.                      *)
(***************************************************************************)

(* An exception no handler of the run catches (the soft time limit, a      *)
(* rollback that fails, Redis or the database down before the batch).      *)
EscapedError(w) ==
    /\ pc[w] \in InRun
    /\ pc[w] = "answer" => orphans[w] < MaxOrphans
    /\ orphans' = [orphans EXCEPT ![w] = IF pc[w] = "answer" THEN @ + 1 ELSE @]
    /\ excused' = (excused \/ HasPublished(w))
    /\ EndRun(w)
    /\ UNCHANGED <<shared, paid>>

(* The process dies, and its threads with it. *)
Crash(w) ==
    /\ pc[w] \in InRun
    /\ orphans' = [orphans EXCEPT ![w] = 0]
    /\ excused' = (excused \/ HasPublished(w))
    /\ EndRun(w)
    /\ UNCHANGED <<shared, paid>>

OrphanEnds(w) ==
    /\ orphans[w] > 0
    /\ orphans' = [orphans EXCEPT ![w] = @ - 1]
    /\ UNCHANGED <<shared, run, ghosts>>

(* An article leaves the six-hour window, the oldest first. *)
AgeOut(a) ==
    /\ a \in fresh /\ \A b \in fresh : Fetched[a] <= Fetched[b]
    /\ fresh' = fresh \ {a}
    /\ UNCHANGED <<row, cache, budget, today, stale, run, orphans, ghosts>>

(* The seven days of summary:<k> are over; they outlast the milliseconds   *)
(* between a setex and the incr that follows it.                           *)
ExpireSummary(k) ==
    /\ cache[k] # NoText
    /\ \A w \in Workers : ~(pc[w] = "incr" /\ KeyOf[cur[w]] = k)
    /\ cache' = [cache EXCEPT ![k] = NoText]
    /\ paid' = [w \in Workers |-> [paid[w] EXCEPT ![k] = 0]]
    /\ UNCHANGED <<row, fresh, budget, today, stale, run, orphans, excused>>

NewDay ==
    /\ today < MaxDay
    /\ today' = today + 1
    /\ UNCHANGED <<row, fresh, cache, budget, stale, run, orphans, ghosts>>

-----------------------------------------------------------------------------
Around(w)  == ReadFlags(w) \/ ReadBudget(w) \/ SelectBatch(w) \/ LoadRecent(w)
              \/ TakeNext(w) \/ Finish(w)
Process(w) == LoadArticle(w) \/ Jaccard(w) \/ Semantic(w) \/ CheckCache(w)
              \/ WriteAndCommit(w) \/ AnswerOK(w)
              \/ FallbackAnswer(w) \/ Flush(w) \/ SetCache(w) \/ Charge(w) \/ Commit(w)
Trouble(w) == Timeout(w) \/ FailArticle(w) \/ EscapedError(w) \/ Crash(w)
World      == \/ \E w \in Workers : OrphanEnds(w)
              \/ \E a \in Articles : AgeOut(a)
              \/ \E k \in Keys : ExpireSummary(k)
              \/ NewDay

Next == (\E w \in Workers : Around(w) \/ Process(w) \/ Trouble(w)) \/ World

Spec == Init /\ [][Next]_vars
-----------------------------------------------------------------------------
(***************************************************************************)
(* Properties.                                                             *)
(***************************************************************************)

(* Every variable keeps to its type. *)
TypeOK ==
    /\ row \in [Articles -> [summarized : BOOLEAN, text : Text, breaking : BOOLEAN]]
    /\ fresh \subseteq Articles
    /\ cache \in [Keys -> Text \cup {NoText}]
    /\ budget \in [Days -> Nat]
    /\ today \in Days
    /\ stale \in BOOLEAN
    /\ pc \in [Workers -> InRun \cup {"idle"}]
    /\ ctx \in [Workers -> [flags : FlagChoices \cup {SafeDefaults}, day : Days,
                            limit : Int, total : Nat, embedded : BOOLEAN]]
    /\ todo \in [Workers -> SUBSET Articles]
    /\ cur \in [Workers -> Articles \cup {NoArticle}]
    /\ \A w \in Workers : pc[w] \in InTry => cur[w] \in Articles
    /\ recent \in [Workers -> SUBSET Titles]
    /\ tally \in [Workers -> [failed : Nat, published : Nat, unheard : BOOLEAN]]
    /\ draft \in [Workers -> [text : Text \cup {NoText}, breaking : BOOLEAN]]
    /\ \A w \in Workers : pc[w] \in {"write", "flush"} \cup Locked => draft[w].text \in Text
    /\ orphans \in [Workers -> 0..MaxOrphans]
    /\ paid \in [Workers -> [Keys -> Nat]]
    /\ excused \in BOOLEAN

(* However runs overlap, a worker charges the budget at most once for a    *)
(* piece of content while the cached summary of it lives: setex comes      *)
(* before incr, so the retry after a failed expire or commit finds the     *)
(* summary in the cache and pays nothing.                                  *)
PaidOnce == \A w \in Workers, k \in Keys : paid[w][k] <= 1

(* Every run reads the counter once and then trusts that reading, so runs  *)
(* that overlap overshoot max_daily_summaries, but only up to once the     *)
(* limit per worker: a charge never outruns what its own run had left.     *)
BudgetOvershootBounded ==
    \A d \in Days : \/ budget[d] = 0
                    \/ \E f \in FlagChoices :
                         budget[d] <= Cardinality(Workers) * f.max_daily_summaries

(* A published summary is the own text of some published article: dedup    *)
(* and cache hand on summaries only from rows or answers that exist, and a *)
(* breaking mark goes back to a published article detected as breaking.    *)
Grounded ==
    \A a \in Articles : row[a].summarized =>
        /\ \E b \in Articles : row[b].summarized /\ row[a].text \in OwnTexts(b)
        /\ row[a].breaking => \E b \in BreakingNews : row[b].summarized

(* The cached story lists lag behind the database, once every run has      *)
(* ended, only if a run that had published something was cut off, was      *)
(* refused by Redis, or failed with all its articles when the answer to    *)
(* the commit of one was lost: a publication the run knows of is never     *)
(* hidden by the error that is raised when all articles failed.            *)
StaleListsExplained ==
    stale /\ (\A w \in Workers : pc[w] = "idle") => excused

(* Publishing is final and a breaking mark is never withdrawn, although a  *)
(* second worker may write the same row again from what it had loaded.     *)
NothingWithdrawn ==
    [][\A a \in Articles : /\ row[a].summarized => row'[a].summarized
                           /\ row[a].breaking => row'[a].breaking]_vars

(* A published article that _detect_breaking recognises carries the mark. *)
BreakingFlagged ==
    \A a \in BreakingNews : row[a].summarized => row[a].breaking

(* What one worker does is what the ledger promises. *)
Ledger == INSTANCE SummaryLedger WITH
    Own       <- [a \in Articles |-> OwnTexts(a)],
    Limits    <- {f.max_daily_summaries : f \in FlagChoices},
    published <- [a \in Articles |-> IF row[a].summarized THEN row[a].text ELSE NoText],
    spent     <- budget

(* A single worker publishes each summary once, never rewrites it, takes   *)
(* it from the article or from a published one, and charges the day only   *)
(* while a configured limit leaves room.                                   *)
LedgerSpec == Ledger!Spec

-----------------------------------------------------------------------------
(***************************************************************************)
(* Liveness.  Beat starts runs for ever, a step that stays possible is     *)
(* taken, wait_for fires, abandoned requests end and articles age.  What   *)
(* the outside does to an article that is not Poison, or to a whole run,   *)
(* stops at some time: no retry helps against an outage that never ends.   *)
(* An article that fails because its look-up finds several rows of one     *)
(* title fails by the program's own doing: such a step is no outage, and   *)
(* nothing is assumed about how often it is taken.                         *)
(***************************************************************************)
Outage(w) == \/ (EscapedError(w) \/ Crash(w)) /\ ~Around(w)
             \/ /\ cur[w] \notin Poison
                /\ FailArticle(w) \/ Timeout(w)
                /\ ~(Jaccard(w) \/ Semantic(w))

Fairness ==
    /\ \A w \in Workers : /\ WF_vars(Around(w) \/ Process(w) \/ Timeout(w))
                          /\ WF_vars(OrphanEnds(w))
    /\ \A a \in Articles : WF_vars(AgeOut(a))
    /\ <>[][\A w \in Workers : ~Outage(w)]_vars

FairSpec == Spec /\ Fairness

(* The slice a run may take is longer than the articles that only fail.    *)
Room == \E f \in FlagChoices :
          /\ Cardinality(Poison) < BatchLimit
          /\ Cardinality(Poison) < f.top_n
          /\ Cardinality(Poison) < f.max_daily_summaries - budget[today]

(* Failures are isolated: every article the provider can answer for is     *)
(* published, in spite of articles that fail in every run and of rows that *)
(* share a title, on which every article that resembles them fails until   *)
(* they are six hours old.  The articles that always fail must not fill    *)
(* the run's slice, be it the 100 oldest, top_n or the rest of the budget. *)
EventuallyPublished ==
    \A a \in Articles \ Poison : <>(row[a].summarized \/ ~Room)
================================================================================
