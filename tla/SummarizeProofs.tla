---------------------------- MODULE SummarizeProofs ----------------------------
(***************************************************************************)
(* Theorems about Summarize, for any articles, workers and flags.          *)
(***************************************************************************)
EXTENDS Summarize, TLAPS, FiniteSetTheorems

LEMMA SafeDefaultsType == SafeDefaults \in Flags
BY DEF SafeDefaults, Flags

LEMMA FlagType == \A f \in FlagChoices \cup {SafeDefaults} : f \in Flags
BY SafeDefaultsType, FlagsAssumption

LEMMA OwnTextsType == \A a \in Articles : OwnTexts(a) \subseteq Text
BY TitlesAssumption DEF OwnTexts, Raw, Llm, Extract, Text

LEMMA InitTypeOK == Init => TypeOK
<1> SUFFICES ASSUME Init PROVE TypeOK
  OBVIOUS
<1>1. /\ row \in [Articles -> [summarized : BOOLEAN, text : Text, breaking : BOOLEAN]]
      /\ fresh \subseteq Articles
      /\ cache \in [Keys -> Text \cup {NoText}]
  BY OwnTextsType DEF Init, OwnTexts
<1>0. 0 \in Days
  BY BoundsAssumption DEF Days
<1>2. /\ budget \in [Days -> Nat] /\ today \in Days
  BY <1>0 DEF Init
<1>3. /\ pc \in [Workers -> InRun \cup {"idle"}]
      /\ \A w \in Workers : pc[w] \notin InTry
      /\ \A w \in Workers : pc[w] \notin {"write", "flush"} \cup Locked
  BY DEF Init, InTry, Locked
<1>4. NoCtx \in [flags : FlagChoices \cup {SafeDefaults}, day : Days,
                 limit : Int, total : Nat, embedded : BOOLEAN]
  BY <1>0 DEF NoCtx
<1>5. /\ ctx \in [Workers -> [flags : FlagChoices \cup {SafeDefaults}, day : Days,
                              limit : Int, total : Nat, embedded : BOOLEAN]]
      /\ todo \in [Workers -> SUBSET Articles]
      /\ cur \in [Workers -> Articles \cup {NoArticle}]
      /\ recent \in [Workers -> SUBSET Titles]
      /\ tally \in [Workers -> [failed : Nat, published : Nat, unheard : BOOLEAN]]
      /\ draft \in [Workers -> [text : Text \cup {NoText}, breaking : BOOLEAN]]
  BY <1>4 DEF Init, NoTally, NoDraft
<1>6. /\ orphans \in [Workers -> 0..MaxOrphans]
      /\ paid \in [Workers -> [Keys -> Nat]]
  BY BoundsAssumption DEF Init
<1>7. stale \in BOOLEAN /\ excused \in BOOLEAN
  BY Zenon DEF Init
<1> QED
  BY <1>1, <1>2, <1>3, <1>5, <1>6, <1>7 DEF TypeOK

-----------------------------------------------------------------------------
(* TypeOK in two halves: the runs of the workers, and everything else. *)
Drafts == [text : Text \cup {NoText}, breaking : BOOLEAN]
Tallies == [failed : Nat, published : Nat, unheard : BOOLEAN]
Ctxs == [flags : FlagChoices \cup {SafeDefaults}, day : Days, limit : Int,
         total : Nat, embedded : BOOLEAN]
Rows == [summarized : BOOLEAN, text : Text, breaking : BOOLEAN]
HasDraft == {"write", "flush"} \cup Locked

RunTypeOK ==
    /\ pc \in [Workers -> InRun \cup {"idle"}]
    /\ ctx \in [Workers -> Ctxs]
    /\ todo \in [Workers -> SUBSET Articles]
    /\ cur \in [Workers -> Articles \cup {NoArticle}]
    /\ \A w \in Workers : pc[w] \in InTry => cur[w] \in Articles
    /\ recent \in [Workers -> SUBSET Titles]
    /\ tally \in [Workers -> Tallies]
    /\ draft \in [Workers -> Drafts]
    /\ \A w \in Workers : pc[w] \in HasDraft => draft[w].text \in Text

SharedTypeOK ==
    /\ row \in [Articles -> Rows]
    /\ fresh \subseteq Articles
    /\ cache \in [Keys -> Text \cup {NoText}]
    /\ budget \in [Days -> Nat]
    /\ today \in Days
    /\ stale \in BOOLEAN

OtherTypeOK ==
    /\ orphans \in [Workers -> 0..MaxOrphans]
    /\ paid \in [Workers -> [Keys -> Nat]]
    /\ excused \in BOOLEAN

LEMMA TypeParts == TypeOK <=> RunTypeOK /\ SharedTypeOK /\ OtherTypeOK
BY DEF TypeOK, RunTypeOK, SharedTypeOK, OtherTypeOK, Drafts, Tallies, Ctxs, Rows, HasDraft

LEMMA Places == /\ "idle" \notin InTry /\ "next" \notin InTry
                /\ HasDraft \subseteq InTry /\ InTry \subseteq InRun
                /\ Locked \subseteq HasDraft
BY DEF InTry, InRun, HasDraft, Locked

LEMMA ZeroDay == 0 \in Days
BY BoundsAssumption DEF Days

LEMMA EndRunType ==
    ASSUME RunTypeOK, NEW w \in Workers, EndRun(w)
    PROVE  RunTypeOK'
<1>1. NoCtx \in Ctxs /\ NoTally \in Tallies /\ NoDraft \in Drafts
  BY ZeroDay DEF NoCtx, NoTally, NoDraft, Ctxs, Tallies, Drafts
<1> QED
  BY <1>1, Places DEF EndRun, Goto, RunTypeOK

LEMMA SettleType ==
    ASSUME RunTypeOK, NEW w \in Workers, NEW t \in Tallies, Settle(w, t),
           UNCHANGED <<ctx, todo>>, recent' \in [Workers -> SUBSET Titles]
    PROVE  RunTypeOK'
<1>1. NoDraft \in Drafts
  BY DEF NoDraft, Drafts
<1>2. "next" \in InRun
  BY DEF InRun
<1> QED
  BY <1>1, <1>2, Places DEF Settle, Goto, RunTypeOK

LEMMA ProposeType ==
    ASSUME RunTypeOK, NEW w \in Workers, NEW d \in Drafts, NEW place \in InTry,
           d.text \in Text, cur[w] \in Articles, Propose(w, d, place),
           UNCHANGED <<ctx, todo, cur, recent, tally>>
    PROVE  RunTypeOK'
BY Places DEF Propose, Goto, RunTypeOK

(* A step that only moves on, to a place that needs no draft. *)
LEMMA GotoType ==
    ASSUME RunTypeOK, NEW w \in Workers, NEW place \in InRun, Goto(w, place),
           place \in InTry => cur'[w] \in Articles,
           place \in HasDraft => draft[w].text \in Text,
           ctx' \in [Workers -> Ctxs], todo' \in [Workers -> SUBSET Articles],
           \/ cur' = cur
           \/ \E a \in Articles : cur' = [cur EXCEPT ![w] = a],
           recent' \in [Workers -> SUBSET Titles],
           UNCHANGED <<tally, draft>>
    PROVE  RunTypeOK'
BY Places DEF Goto, RunTypeOK

LEMMA TallyType ==
    ASSUME RunTypeOK, NEW w \in Workers
    PROVE  /\ tally[w] \in Tallies
           /\ Failed(w) \in Tallies
           /\ Published(w) \in Tallies
           /\ Unheard(w) \in Tallies
<1>1. tally[w] \in Tallies
  BY DEF RunTypeOK
<1>2. Failed(w) \in Tallies /\ Published(w) \in Tallies
  BY <1>1 DEF Tallies, Failed, Published
<1>3. ASSUME NEW t \in Tallies
      PROVE  [t EXCEPT !.unheard = TRUE] \in Tallies
  BY DEF Tallies
<1> QED
  BY <1>1, <1>2, <1>3 DEF Unheard

LEMMA WrittenType ==
    ASSUME SharedTypeOK, NEW a \in Articles, NEW d \in Drafts, d.text \in Text
    PROVE  Written(a, d) \in Rows
<1>1. row[a].text \in Text /\ d.text \in Text
  BY DEF SharedTypeOK, Rows
<1>2. (row[a].breaking \/ d.breaking) \in BOOLEAN
  OBVIOUS
<1> QED
  BY <1>1, <1>2 DEF Written, Rows

LEMMA CopyType ==
    ASSUME SharedTypeOK, NEW a \in Articles, NEW b \in Articles
    PROVE  CopyOf(b, a) \in Drafts /\ CopyOf(b, a).text \in Text
BY OwnTextsType DEF SharedTypeOK, Rows, CopyOf, Drafts, OwnTexts

(* What a step of one worker does to its own run. *)
LEMMA ReuseType ==
    ASSUME RunTypeOK, SharedTypeOK, NEW w \in Workers, pc[w] \in InTry,
           NEW t \in Titles, Reuse(w, t), UNCHANGED <<ctx, todo, recent>>
    PROVE  RunTypeOK'
<1>1. CASE Settle(w, Failed(w))
  BY <1>1, TallyType, SettleType DEF RunTypeOK
<1>2. CASE /\ \E b \in Summarized(t) : Propose(w, CopyOf(b, cur[w]), "write")
           /\ UNCHANGED <<cur, tally>>
  <2>1. PICK b \in Articles : Propose(w, CopyOf(b, cur[w]), "write")
    BY <1>2 DEF Summarized
  <2>2. cur[w] \in Articles /\ "write" \in InTry
    BY DEF RunTypeOK, InTry
  <2> QED
    BY <2>1, <2>2, <1>2, CopyType, ProposeType
<1> QED
  BY <1>1, <1>2 DEF Reuse

-----------------------------------------------------------------------------
LEMMA AroundRunType ==
    ASSUME RunTypeOK, SharedTypeOK, NEW w \in Workers, Around(w)
    PROVE  RunTypeOK'
<1> /\ pc[w] \in InRun \cup {"idle"} /\ ctx[w] \in Ctxs /\ ctx[w].flags \in Flags
  BY FlagType DEF RunTypeOK, Ctxs
<1>0. /\ {"budget", "select", "titles", "next", "load"} \subseteq InRun
      /\ {"budget", "select", "titles", "next"} \cap InTry = {}
      /\ {"budget", "select", "titles", "next", "load"} \cap HasDraft = {}
  BY DEF InRun, InTry, HasDraft, Locked
<1>1. CASE ReadFlags(w)
  <2> PICK f \in FlagChoices \cup {SafeDefaults} :
         IF f.summarize_enabled
         THEN Goto(w, "budget") /\ ctx' = [ctx EXCEPT ![w].flags = f]
         ELSE UNCHANGED <<pc, ctx>>
    BY <1>1 DEF ReadFlags
  <2>1. UNCHANGED <<todo, cur, recent, tally, draft>>
    BY <1>1 DEF ReadFlags
  <2>2. [ctx EXCEPT ![w].flags = f] \in [Workers -> Ctxs]
    BY DEF RunTypeOK, Ctxs
  <2>3. CASE f.summarize_enabled
    BY <1>0, <2>1, <2>2, <2>3, GotoType DEF RunTypeOK
  <2>4. CASE ~f.summarize_enabled
    BY <2>1, <2>4 DEF RunTypeOK
  <2> QED
    BY <2>3, <2>4
<1>2. CASE ReadBudget(w)
  <2> DEFINE remaining == ctx[w].flags.max_daily_summaries - budget[today]
             limit == IF ctx[w].flags.top_n <= remaining
                      THEN ctx[w].flags.top_n ELSE remaining
  <2>1. limit \in Int /\ today \in Days
    BY DEF Flags, SharedTypeOK
  <2>2. CASE remaining <= 0
    BY <1>2, <2>2, EndRunType DEF ReadBudget
  <2>3. CASE ~(remaining <= 0)
    <3>1. /\ Goto(w, "select") /\ UNCHANGED <<todo, cur, recent, tally, draft>>
          /\ ctx' = [ctx EXCEPT ![w].day = today, ![w].limit = limit]
      BY <1>2, <2>3 DEF ReadBudget
    <3>2. ctx' \in [Workers -> Ctxs]
      <4> HIDE DEF limit
      <4> QED BY <3>1, <2>1 DEF RunTypeOK, Ctxs
    <3> QED
      BY <1>0, <3>1, <3>2, GotoType DEF RunTypeOK
  <2> QED
    BY <2>2, <2>3
<1>3. CASE SelectBatch(w)
  <2>1. CASE Candidates = {}
    BY <1>3, <2>1, EndRunType DEF SelectBatch
  <2>2. CASE Candidates # {}
    <3>1. PICK batch \in kSubset(SliceLen(Cardinality(Candidates), ctx[w].limit),
                                 Candidates) :
            /\ todo' = [todo EXCEPT ![w] = batch]
            /\ ctx' = [ctx EXCEPT ![w].total = Cardinality(batch)]
      BY <1>3, <2>2 DEF SelectBatch
    <3>2. batch \subseteq Articles
      BY DEF kSubset, Candidates, Pending
    <3>3. Cardinality(batch) \in Nat
      BY <3>2, SetsAssumption, FS_Subset, FS_CardinalityType
    <3>4. ctx' \in [Workers -> Ctxs] /\ todo' \in [Workers -> SUBSET Articles]
      BY <3>1, <3>2, <3>3 DEF RunTypeOK, Ctxs
    <3> QED
      BY <1>0, <1>3, <2>2, <3>4, GotoType DEF SelectBatch, RunTypeOK
  <2> QED
    BY <2>1, <2>2
<1>4. CASE LoadRecent(w)
  <2>1. PICK embedded \in {FALSE, ctx[w].flags.semantic_dedup_enabled} :
          ctx' = [ctx EXCEPT ![w].embedded = embedded]
    BY <1>4 DEF LoadRecent
  <2>2. embedded \in BOOLEAN
    BY DEF Flags
  <2>3. ctx' \in [Workers -> Ctxs]
    BY <2>1, <2>2 DEF RunTypeOK, Ctxs
  <2>4. {TitleOf[b] : b \in fresh \ Pending} \subseteq Titles
    BY TitlesAssumption DEF SharedTypeOK
  <2> QED
    BY <1>0, <1>4, <2>3, <2>4, GotoType DEF LoadRecent, RunTypeOK
<1>5. CASE TakeNext(w)
  <2>1. PICK a \in todo[w] : /\ cur' = [cur EXCEPT ![w] = a]
                             /\ todo' = [todo EXCEPT ![w] = @ \ {a}]
    BY <1>5 DEF TakeNext
  <2>2. a \in Articles /\ todo' \in [Workers -> SUBSET Articles]
    BY <2>1 DEF RunTypeOK
  <2>3. cur'[w] \in Articles
    BY <2>1, <2>2 DEF RunTypeOK
  <2> QED
    BY <1>0, <1>5, <2>1, <2>2, <2>3, GotoType DEF TakeNext, RunTypeOK
<1>6. CASE Finish(w)
  BY <1>6, EndRunType DEF Finish
<1> QED
  BY <1>1, <1>2, <1>3, <1>4, <1>5, <1>6 DEF Around

LEMMA ProcessRunType ==
    ASSUME RunTypeOK, SharedTypeOK, NEW w \in Workers, Process(w)
    PROVE  RunTypeOK'
<1>0. /\ pc[w] \in InTry /\ cur[w] \in Articles
      /\ {"write", "jaccard", "semantic", "cache", "answer", "flush",
          "setex", "incr", "commit"} \subseteq InTry
      /\ {"jaccard", "semantic", "cache", "answer"} \cap HasDraft = {}
      /\ {"flush", "setex", "incr", "commit"} \subseteq HasDraft
  <2>1. pc[w] \in InTry
    BY DEF Process, LoadArticle, Jaccard, Semantic, CheckCache, WriteAndCommit, Committed,
           AnswerOK, FallbackAnswer, Flush, SetCache, Charge, Commit, InTry
  <2> QED
    BY <2>1 DEF InTry, HasDraft, Locked, RunTypeOK
<1> DEFINE k == KeyOf[cur[w]]
           brk == cur[w] \in BreakingNews
<1>a. /\ k \in Keys /\ Raw(cur[w]) \in Text
      /\ Llm(k) \in Text /\ Extract(k) \in Text
  BY <1>0, TitlesAssumption, OwnTextsType DEF OwnTexts
<1>b. \A t \in Text : [text |-> t, breaking |-> FALSE] \in Drafts
  BY DEF Drafts
<1>c. \A t \in Text : [text |-> t, breaking |-> brk] \in Drafts
  <2>1. brk \in BOOLEAN
    OBVIOUS
  <2> HIDE DEF brk
  <2> QED BY <2>1 DEF Drafts
<1>1. CASE LoadArticle(w)
  <2>1. CASE row[cur[w]].summarized
    BY <1>1, <2>1, TallyType, SettleType DEF LoadArticle, RunTypeOK
  <2>2. CASE ~row[cur[w]].summarized /\ Words[cur[w]] < ctx[w].flags.min_words
    BY <1>0, <1>1, <1>a, <1>b, <2>2, ProposeType DEF LoadArticle
  <2>3. CASE ~row[cur[w]].summarized /\ ~(Words[cur[w]] < ctx[w].flags.min_words)
    BY <1>0, <1>1, <2>3, GotoType, Places DEF LoadArticle, RunTypeOK
  <2> QED
    BY <2>1, <2>2, <2>3
<1>2. CASE Jaccard(w)
  <2>1. CASE Goto(w, "semantic") /\ UNCHANGED <<cur, tally, draft>>
    BY <1>0, <1>2, <2>1, GotoType, Places DEF Jaccard, RunTypeOK
  <2>2. ASSUME NEW t \in recent[w], Reuse(w, t)
        PROVE  RunTypeOK'
    BY <1>0, <1>2, <2>2, ReuseType DEF Jaccard, RunTypeOK
  <2> QED
    BY <1>2, <2>1, <2>2 DEF Jaccard
<1>3. CASE Semantic(w)
  <2>1. CASE Goto(w, "cache") /\ UNCHANGED <<cur, tally, draft>>
    BY <1>0, <1>3, <2>1, GotoType, Places DEF Semantic, RunTypeOK
  <2>2. ASSUME NEW t \in recent[w], Reuse(w, t)
        PROVE  RunTypeOK'
    BY <1>0, <1>3, <2>2, ReuseType DEF Semantic, RunTypeOK
  <2> QED
    BY <1>3, <2>1, <2>2 DEF Semantic
<1>4. CASE CheckCache(w)
  <2>1. CASE cache[k] = NoText
    BY <1>0, <1>4, <2>1, GotoType, Places DEF CheckCache, CallProvider, RunTypeOK
  <2>2. CASE cache[k] # NoText
    <3>1. cache[k] \in Text
      BY <1>a, <2>2 DEF SharedTypeOK
    <3> QED
      BY <1>0, <1>4, <1>b, <2>2, <3>1, ProposeType DEF CheckCache
  <2> QED
    BY <2>1, <2>2
<1>5. CASE WriteAndCommit(w)
  BY <1>5, TallyType, SettleType DEF WriteAndCommit, Committed, RunTypeOK
<1>6. CASE AnswerOK(w)
  BY <1>0, <1>6, <1>a, <1>c, ProposeType DEF AnswerOK
<1>7. CASE FallbackAnswer(w)
  BY <1>0, <1>7, <1>a, <1>c, ProposeType DEF FallbackAnswer
<1>8. CASE Flush(w)
  BY <1>0, <1>8, GotoType, Places DEF Flush, RunTypeOK
<1>9. CASE SetCache(w)
  BY <1>0, <1>9, GotoType, Places DEF SetCache, RunTypeOK
<1>10. CASE Charge(w)
  <2>1. TitleOf[cur[w]] \in Titles
    BY <1>0, TitlesAssumption
  <2>2. recent' \in [Workers -> SUBSET Titles]
    BY <1>10, <2>1 DEF Charge, RunTypeOK
  <2>3. CASE Goto(w, "commit") /\ UNCHANGED <<cur, draft, tally>>
    BY <1>0, <1>10, <2>2, <2>3, GotoType, Places DEF Charge, RunTypeOK
  <2>4. CASE Settle(w, Failed(w))
    BY <1>10, <2>2, <2>4, TallyType, SettleType DEF Charge
  <2> QED
    BY <1>10, <2>3, <2>4 DEF Charge
<1>11. CASE Commit(w)
  BY <1>11, TallyType, SettleType DEF Commit, Committed, RunTypeOK
<1> QED
  BY <1>1, <1>2, <1>3, <1>4, <1>5, <1>6, <1>7, <1>8, <1>9, <1>10, <1>11 DEF Process

LEMMA TroubleRunType ==
    ASSUME RunTypeOK, NEW w \in Workers, Trouble(w)
    PROVE  RunTypeOK'
<1>1. CASE Timeout(w)
  BY <1>1, TallyType, SettleType DEF Timeout, RunTypeOK
<1>2. CASE FailArticle(w)
  BY <1>2, TallyType, SettleType DEF FailArticle, RunTypeOK
<1>3. CASE EscapedError(w)
  BY <1>3, EndRunType DEF EscapedError
<1>4. CASE Crash(w)
  BY <1>4, EndRunType DEF Crash
<1> QED
  BY <1>1, <1>2, <1>3, <1>4 DEF Trouble

-----------------------------------------------------------------------------
LEMMA CommitSharedType ==
    ASSUME RunTypeOK, SharedTypeOK, NEW w \in Workers, pc[w] \in HasDraft,
           row' = [row EXCEPT ![cur[w]] = Written(cur[w], draft[w])],
           stale' = TRUE, UNCHANGED <<fresh, cache, budget, today>>
    PROVE  SharedTypeOK'
<1>1. cur[w] \in Articles /\ draft[w] \in Drafts /\ draft[w].text \in Text
  BY Places DEF RunTypeOK
<1>2. Written(cur[w], draft[w]) \in Rows
  BY <1>1, WrittenType
<1> QED
  BY <1>1, <1>2 DEF SharedTypeOK

LEMMA StepSharedType ==
    ASSUME RunTypeOK, SharedTypeOK, [Next]_vars
    PROVE  SharedTypeOK'
<1>1. CASE UNCHANGED shared
  BY <1>1 DEF shared, SharedTypeOK
<1>2. ASSUME NEW w \in Workers, Around(w)
      PROVE  SharedTypeOK'
  <2>1. CASE Finish(w)
    <3>1. stale' \in BOOLEAN
      BY <2>1 DEF Finish, SharedTypeOK
    <3> QED
      BY <2>1, <3>1 DEF Finish, SharedTypeOK
  <2>2. CASE ~Finish(w)
    BY <1>1, <1>2, <2>2 DEF Around, ReadFlags, ReadBudget, SelectBatch, LoadRecent, TakeNext
  <2> QED
    BY <2>1, <2>2
<1>3. ASSUME NEW w \in Workers, Process(w)
      PROVE  SharedTypeOK'
  <2>1. CASE WriteAndCommit(w)
    BY <2>1, CommitSharedType DEF WriteAndCommit, Committed, HasDraft
  <2>2. CASE Commit(w)
    BY <2>2, CommitSharedType DEF Commit, Committed, HasDraft, Locked
  <2>3. CASE SetCache(w)
    <3>1. draft[w].text \in Text
      BY <2>3 DEF SetCache, RunTypeOK, HasDraft, Locked
    <3> QED
      BY <2>3, <3>1 DEF SetCache, SharedTypeOK
  <2>4. CASE Charge(w)
    <3>1. ctx[w].day \in Days
      BY DEF RunTypeOK, Ctxs
    <3> QED
      BY <2>4, <3>1 DEF Charge, SharedTypeOK
  <2>5. CASE \/ LoadArticle(w) \/ Jaccard(w) \/ Semantic(w) \/ CheckCache(w)
             \/ AnswerOK(w) \/ FallbackAnswer(w) \/ Flush(w)
    BY <1>1, <2>5 DEF LoadArticle, Jaccard, Semantic, CheckCache, AnswerOK,
                      FallbackAnswer, Flush
  <2> QED
    BY <1>3, <2>1, <2>2, <2>3, <2>4, <2>5 DEF Process
<1>4. ASSUME NEW w \in Workers, Trouble(w)
      PROVE  SharedTypeOK'
  BY <1>1, <1>4 DEF Trouble, Timeout, FailArticle, EscapedError, Crash
<1>5. CASE World
  <2>1. CASE \E w \in Workers : OrphanEnds(w)
    BY <1>1, <2>1 DEF OrphanEnds
  <2>2. CASE \E a \in Articles : AgeOut(a)
    BY <2>2 DEF AgeOut, SharedTypeOK
  <2>3. CASE \E k \in Keys : ExpireSummary(k)
    BY <2>3 DEF ExpireSummary, SharedTypeOK
  <2>4. CASE NewDay
    <3>1. today + 1 \in Days
      BY <2>4, BoundsAssumption DEF NewDay, SharedTypeOK, Days
    <3> QED
      BY <2>4, <3>1 DEF NewDay, SharedTypeOK
  <2> QED
    BY <1>5, <2>1, <2>2, <2>3, <2>4 DEF World
<1>6. CASE UNCHANGED vars
  BY <1>1, <1>6 DEF vars, shared
<1> QED
  BY <1>2, <1>3, <1>4, <1>5, <1>6 DEF Next

LEMMA StepRunType ==
    ASSUME RunTypeOK, SharedTypeOK, [Next]_vars
    PROVE  RunTypeOK'
<1>1. CASE UNCHANGED run
  BY <1>1 DEF run, RunTypeOK
<1>2. CASE World
  BY <1>1, <1>2 DEF World, OrphanEnds, AgeOut, ExpireSummary, NewDay
<1>3. CASE UNCHANGED vars
  BY <1>1, <1>3 DEF vars, run
<1> QED
  BY <1>2, <1>3, AroundRunType, ProcessRunType, TroubleRunType DEF Next

LEMMA StepOtherType ==
    ASSUME RunTypeOK, SharedTypeOK, OtherTypeOK, [Next]_vars
    PROVE  OtherTypeOK'
<1>1. orphans' \in [Workers -> 0..MaxOrphans]
  <2>1. CASE UNCHANGED orphans
    BY <2>1 DEF OtherTypeOK
  <2>2. CASE \E w \in Workers : Timeout(w) \/ EscapedError(w) \/ Crash(w) \/ OrphanEnds(w)
    BY <2>2, BoundsAssumption DEF Timeout, EscapedError, Crash, OrphanEnds, OtherTypeOK
  <2>3. ASSUME NEW w \in Workers, Around(w) \/ Process(w) \/ FailArticle(w)
        PROVE  UNCHANGED orphans
    BY <2>3 DEF Around, ReadFlags, ReadBudget, SelectBatch, LoadRecent, TakeNext, Finish,
        Process, LoadArticle, Jaccard, Semantic, CheckCache, WriteAndCommit, Committed, AnswerOK,
        FallbackAnswer, Flush, SetCache, Charge, Commit, FailArticle
  <2> QED
    BY <2>1, <2>2, <2>3 DEF Next, World, Trouble, AgeOut, ExpireSummary, NewDay, vars
<1>2. paid' \in [Workers -> [Keys -> Nat]]
  <2>1. CASE UNCHANGED paid
    BY <2>1 DEF OtherTypeOK
  <2>2. ASSUME NEW w \in Workers, Charge(w)
        PROVE  paid' \in [Workers -> [Keys -> Nat]]
    <3>1. KeyOf[cur[w]] \in Keys
      BY <2>2, TitlesAssumption DEF Charge, RunTypeOK, InTry
    <3> QED
      BY <2>2, <3>1 DEF Charge, OtherTypeOK
  <2>3. CASE \E k \in Keys : ExpireSummary(k)
    BY <2>3 DEF ExpireSummary, OtherTypeOK
  <2>4. ASSUME NEW w \in Workers, Process(w), ~Charge(w)
        PROVE  UNCHANGED paid
    BY <2>4 DEF Process, LoadArticle, Jaccard, Semantic, CheckCache, WriteAndCommit, Committed,
        AnswerOK, FallbackAnswer, Flush, SetCache, Commit, ghosts
  <2>5. ASSUME NEW w \in Workers, Around(w) \/ Trouble(w)
        PROVE  UNCHANGED paid
    BY <2>5 DEF Around, ReadFlags, ReadBudget, SelectBatch, LoadRecent, TakeNext, Finish,
        Trouble, Timeout, FailArticle, EscapedError, Crash, ghosts
  <2> QED
    BY <2>1, <2>2, <2>3, <2>4, <2>5
    DEF Next, World, OrphanEnds, AgeOut, NewDay, vars, ghosts
<1>3. excused' \in BOOLEAN
  <2>1. CASE UNCHANGED excused
    BY <2>1 DEF OtherTypeOK
  <2>2. CASE \E w \in Workers : Finish(w) \/ EscapedError(w) \/ Crash(w)
    BY <2>1, <2>2 DEF Finish, EscapedError, Crash, OtherTypeOK
  <2>3. ASSUME NEW w \in Workers, Process(w)
        PROVE  UNCHANGED excused
    BY <2>3 DEF Process, LoadArticle, Jaccard, Semantic, CheckCache, WriteAndCommit, Committed,
        AnswerOK, FallbackAnswer, Flush, SetCache, Charge, Commit, ghosts
  <2>4. ASSUME NEW w \in Workers, \/ Around(w) /\ ~Finish(w)
                                  \/ Timeout(w) \/ FailArticle(w)
        PROVE  UNCHANGED excused
    BY <2>4 DEF Around, ReadFlags, ReadBudget, SelectBatch, LoadRecent, TakeNext,
        Timeout, FailArticle, ghosts
  <2> QED
    BY <2>1, <2>2, <2>3, <2>4
    DEF Next, Trouble, World, OrphanEnds, AgeOut, ExpireSummary, NewDay, vars, ghosts
<1> QED
  BY <1>1, <1>2, <1>3 DEF OtherTypeOK

LEMMA StepTypeOK == TypeOK /\ [Next]_vars => TypeOK'
<1> SUFFICES ASSUME TypeOK, [Next]_vars PROVE TypeOK'
  OBVIOUS
<1>1. RunTypeOK /\ SharedTypeOK /\ OtherTypeOK
  BY TypeParts
<1>2. RunTypeOK' /\ SharedTypeOK' /\ OtherTypeOK'
  BY <1>1, StepRunType, StepSharedType, StepOtherType
<1> QED
  BY <1>2 DEF TypeOK, RunTypeOK, SharedTypeOK, OtherTypeOK, Drafts, Tallies, Ctxs,
              Rows, HasDraft

(* Every variable keeps to its type, whatever the articles, workers, flags *)
(* and similarity relations: runs never reach a place without an article   *)
(* in hand or write without a text.                                        *)
THEOREM Typing == Spec => []TypeOK
<1> QED
  BY InitTypeOK, StepTypeOK, PTL DEF Spec

-----------------------------------------------------------------------------
(***************************************************************************)
(* PaidOnce.  What makes it inductive is the order of the steps: a charge  *)
(* is possible only between a setex and a commit, a charged key is cached, *)
(* and a worker on its way to a charge has missed the cache after its last *)
(* charge for that key.                                                    *)
(***************************************************************************)
Unpaid == {"answer", "flush", "setex", "incr"}

ChargeInv ==
    /\ PaidOnce
    /\ \A w \in Workers, k \in Keys : paid[w][k] > 0 => cache[k] # NoText
    /\ \A w \in Workers : pc[w] \in Unpaid => paid[w][KeyOf[cur[w]]] = 0
    /\ \A w \in Workers : pc[w] = "incr" => cache[KeyOf[cur[w]]] # NoText

LEMMA InitChargeInv == Init => ChargeInv
BY DEF Init, ChargeInv, PaidOnce, Unpaid

(* A step of w that neither pays nor touches the cache, and does not bring *)
(* w onto the way to a charge.                                             *)
LEMMA QuietStep ==
    ASSUME TypeOK, ChargeInv, NEW w \in Workers, NEW place,
           pc' = [pc EXCEPT ![w] = place], paid' = paid, cache' = cache,
           \A v \in Workers \ {w} : cur'[v] = cur[v],
           \/ place \notin Unpaid
           \/ place # "incr" /\ pc[w] \in Unpaid /\ cur' = cur
    PROVE  ChargeInv'
BY DEF ChargeInv, PaidOnce, Unpaid, TypeOK

LEMMA StepChargeInv ==
    ASSUME TypeOK, ChargeInv, [Next]_vars
    PROVE  ChargeInv'
<1>1. CASE UNCHANGED <<pc, cur, paid, cache>>
  BY <1>1 DEF ChargeInv, PaidOnce
<1>2. ASSUME NEW w \in Workers, EndRun(w), UNCHANGED <<paid, cache>>
      PROVE  ChargeInv'
  BY <1>2, QuietStep DEF EndRun, Goto, Unpaid, TypeOK
<1>3. ASSUME NEW w \in Workers, NEW t, Settle(w, t), UNCHANGED <<paid, cache>>
      PROVE  ChargeInv'
  BY <1>3, QuietStep DEF Settle, Goto, Unpaid, TypeOK
<1>4. ASSUME NEW w \in Workers, NEW place, Goto(w, place), UNCHANGED <<paid, cache>>,
             place \notin Unpaid,
             cur' = cur \/ \E a : cur' = [cur EXCEPT ![w] = a]
      PROVE  ChargeInv'
  <2>1. \A v \in Workers \ {w} : cur'[v] = cur[v]
    BY <1>4 DEF TypeOK
  <2> QED
    BY <1>4, <2>1, QuietStep DEF Goto
<1>5. ASSUME NEW w \in Workers, Around(w)
      PROVE  ChargeInv'
  <2>1. UNCHANGED <<paid, cache>>
    BY <1>5 DEF Around, ReadFlags, ReadBudget, SelectBatch, LoadRecent, TakeNext,
                Finish, shared, ghosts
  <2>2. CASE EndRun(w)
    BY <1>2, <2>1, <2>2
  <2>3. CASE ~EndRun(w)
    BY <1>1, <1>4, <1>5, <2>1, <2>3
    DEF Around, ReadFlags, ReadBudget, SelectBatch, LoadRecent, TakeNext, Finish, Unpaid
  <2> QED
    BY <2>2, <2>3
<1>6. ASSUME NEW w \in Workers, Process(w)
      PROVE  ChargeInv'
  <2>1. CASE LoadArticle(w)
    BY <1>3, <1>4, <2>1 DEF LoadArticle, Propose, shared, ghosts, Unpaid
  <2>2. CASE Jaccard(w) \/ Semantic(w)
    BY <1>3, <1>4, <2>2 DEF Jaccard, Semantic, Reuse, Propose, shared, ghosts, Unpaid
  <2>3. CASE CheckCache(w)
    <3>1. CASE cache[KeyOf[cur[w]]] = NoText
      <4>1. cur[w] \in Articles /\ KeyOf[cur[w]] \in Keys
        BY <2>3, TitlesAssumption DEF CheckCache, TypeOK, InTry
      <4>2. paid[w][KeyOf[cur[w]]] = 0
        BY <3>1, <4>1 DEF ChargeInv, TypeOK
      <4>3. pc' = [pc EXCEPT ![w] = "answer"] /\ UNCHANGED <<cur, paid, cache>>
        BY <2>3, <3>1 DEF CheckCache, CallProvider, Goto, shared, ghosts
      <4> QED
        BY <4>2, <4>3 DEF ChargeInv, PaidOnce, TypeOK
    <3>2. CASE cache[KeyOf[cur[w]]] # NoText
      BY <1>4, <2>3, <3>2 DEF CheckCache, Propose, shared, Unpaid, ghosts
    <3> QED
      BY <3>1, <3>2
  <2>4. CASE WriteAndCommit(w) \/ Commit(w)
    BY <1>3, <2>4 DEF WriteAndCommit, Committed, Commit, ghosts
  <2>5. CASE AnswerOK(w) \/ FallbackAnswer(w) \/ Flush(w)
    <3>1. PICK place \in {"flush", "setex"} :
            /\ pc' = [pc EXCEPT ![w] = place] /\ pc[w] \in Unpaid
            /\ cur' = cur /\ paid' = paid /\ cache' = cache
      BY <2>5 DEF AnswerOK, FallbackAnswer, Flush, Propose, Goto, shared, ghosts, Unpaid
    <3> QED
      BY <3>1, QuietStep
  <2>6. CASE SetCache(w)
    <3>1. draft[w].text # NoText
      BY <2>6, NoTextAssumption DEF SetCache, TypeOK, Locked
    <3>2. cur[w] \in Articles /\ KeyOf[cur[w]] \in Keys
      BY <2>6, TitlesAssumption DEF SetCache, TypeOK, InTry
    <3>3. /\ pc' = [pc EXCEPT ![w] = "incr"] /\ pc[w] = "setex"
          /\ cache' = [cache EXCEPT ![KeyOf[cur[w]]] = draft[w].text]
          /\ UNCHANGED <<cur, paid>>
      BY <2>6 DEF SetCache, Goto, ghosts
    <3>4. \A k \in Keys : cache[k] # NoText => cache'[k] # NoText
      BY <3>1, <3>3 DEF TypeOK
    <3>5. \A v \in Workers : pc'[v] = "incr" => cache'[KeyOf[cur[v]]] # NoText
      <4> TAKE v \in Workers
      <4>1. CASE v = w
        BY <3>1, <3>2, <3>3, <4>1 DEF TypeOK
      <4>2. CASE v # w /\ pc[v] = "incr"
        BY <3>3, <3>4, <4>2, TitlesAssumption DEF ChargeInv, TypeOK, InTry
      <4> QED
        BY <3>3, <4>1, <4>2 DEF TypeOK
    <3> QED
      BY <3>3, <3>4, <3>5 DEF ChargeInv, PaidOnce, Unpaid, TypeOK
  <2>7. CASE Charge(w)
    <3>1. cur[w] \in Articles /\ KeyOf[cur[w]] \in Keys
      BY <2>7, TitlesAssumption DEF Charge, TypeOK, InTry
    <3>2. /\ paid[w][KeyOf[cur[w]]] = 0 /\ cache[KeyOf[cur[w]]] # NoText
          /\ paid' = [paid EXCEPT ![w][KeyOf[cur[w]]] = @ + 1]
          /\ cache' = cache
      BY <2>7 DEF Charge, ChargeInv, Unpaid
    <3>3. \A k \in Keys : paid'[w][k] = IF k = KeyOf[cur[w]] THEN 1 ELSE paid[w][k]
      BY <3>1, <3>2 DEF TypeOK
    <3>4. \A v \in Workers \ {w} : paid'[v] = paid[v]
      BY <3>2 DEF TypeOK
    <3>5. /\ pc'[w] \notin Unpaid
          /\ \A v \in Workers \ {w} : pc'[v] = pc[v] /\ cur'[v] = cur[v]
      BY <2>7 DEF Charge, Settle, Goto, Unpaid, TypeOK
    <3>6. PaidOnce'
      BY <3>3, <3>4 DEF PaidOnce, ChargeInv
    <3>7. \A v \in Workers, k \in Keys : paid'[v][k] > 0 => cache'[k] # NoText
      BY <3>2, <3>3, <3>4 DEF ChargeInv
    <3>8. /\ \A v \in Workers : pc'[v] \in Unpaid => paid'[v][KeyOf[cur'[v]]] = 0
          /\ \A v \in Workers : pc'[v] = "incr" => cache'[KeyOf[cur'[v]]] # NoText
      BY <3>2, <3>4, <3>5 DEF ChargeInv, Unpaid
    <3> QED
      BY <3>6, <3>7, <3>8 DEF ChargeInv
  <2> QED
    BY <1>6, <2>1, <2>2, <2>3, <2>4, <2>5, <2>6, <2>7 DEF Process
<1>7. ASSUME NEW w \in Workers, Trouble(w)
      PROVE  ChargeInv'
  BY <1>2, <1>3, <1>7 DEF Trouble, Timeout, FailArticle, EscapedError, Crash, shared, ghosts
<1>8. CASE World
  <2>1. CASE \E k \in Keys : ExpireSummary(k)
    <3>1. PICK k \in Keys : ExpireSummary(k)
      BY <2>1
    <3>2. /\ \A w \in Workers : ~(pc[w] = "incr" /\ KeyOf[cur[w]] = k)
          /\ cache' = [cache EXCEPT ![k] = NoText]
          /\ paid' = [w \in Workers |-> [paid[w] EXCEPT ![k] = 0]]
          /\ UNCHANGED <<pc, cur>>
      BY <3>1 DEF ExpireSummary, run
    <3>3. \A w \in Workers, j \in Keys :
             paid'[w][j] = IF j = k THEN 0 ELSE paid[w][j]
      BY <3>2 DEF TypeOK
    <3>4. \A j \in Keys \ {k} : cache'[j] = cache[j]
      BY <3>2 DEF TypeOK
    <3>5. \A w \in Workers : pc[w] \in Unpaid => KeyOf[cur[w]] \in Keys
      BY TitlesAssumption DEF TypeOK, Unpaid, InTry
    <3>6. PaidOnce'
      BY <3>3 DEF PaidOnce, ChargeInv
    <3>7. \A w \in Workers, j \in Keys : paid'[w][j] > 0 => cache'[j] # NoText
      BY <3>3, <3>4 DEF ChargeInv
    <3>8. \A w \in Workers : pc'[w] \in Unpaid => paid'[w][KeyOf[cur'[w]]] = 0
      BY <3>2, <3>3, <3>5 DEF ChargeInv
    <3>9. \A w \in Workers : pc'[w] = "incr" => cache'[KeyOf[cur'[w]]] # NoText
      BY <3>2, <3>4, <3>5 DEF ChargeInv, Unpaid
    <3> QED
      BY <3>6, <3>7, <3>8, <3>9 DEF ChargeInv
  <2>2. CASE ~\E k \in Keys : ExpireSummary(k)
    BY <1>1, <1>8, <2>2 DEF World, OrphanEnds, AgeOut, NewDay, shared, run, ghosts
  <2> QED
    BY <2>1, <2>2
<1>9. CASE UNCHANGED vars
  BY <1>1, <1>9 DEF vars
<1> QED
  BY <1>5, <1>6, <1>7, <1>8, <1>9 DEF Next

(* A worker pays at most once for a piece of content while its summary is  *)
(* cached, whatever fails between setex, incr, expire and commit.          *)
THEOREM PaidOnceHolds == Spec => []PaidOnce
<1>1. ChargeInv => PaidOnce
  BY DEF ChargeInv
<1>2. TypeOK /\ ChargeInv /\ [Next]_vars => ChargeInv'
  BY StepChargeInv
<1> QED
  BY <1>1, <1>2, InitChargeInv, Typing, PTL DEF Spec
================================================================================
