------------------------ MODULE SummarizeContentProofs ------------------------
(***************************************************************************)
(* Theorems about what Summarize publishes and when readers may miss it.   *)
(***************************************************************************)
EXTENDS SummarizeProofs

(***************************************************************************)
(* The table changes only where a worker commits.                          *)
(***************************************************************************)
Commits(w) ==
    /\ pc[w] \in {"write", "commit"}
    /\ row' = [row EXCEPT ![cur[w]] = Written(cur[w], draft[w])]
    /\ stale' = TRUE
    /\ Settle(w, Published(w)) \/ Settle(w, Unheard(w))
    /\ UNCHANGED <<cache, budget, ctx, todo, ghosts>>

LEMMA CommitsIs ==
    ASSUME NEW w \in Workers
    PROVE  WriteAndCommit(w) \/ Commit(w) => Commits(w)
BY DEF WriteAndCommit, Committed, Commit, Commits

LEMMA RowStep ==
    ASSUME [Next]_vars
    PROVE  UNCHANGED row \/ \E w \in Workers : Commits(w)
<1>1. ASSUME NEW w \in Workers, Around(w) \/ Trouble(w)
      PROVE  UNCHANGED row
  BY <1>1 DEF Around, ReadFlags, ReadBudget, SelectBatch, LoadRecent, TakeNext, Finish,
              Trouble, Timeout, FailArticle, EscapedError, Crash, shared
<1>2. ASSUME NEW w \in Workers, Process(w), ~(WriteAndCommit(w) \/ Commit(w))
      PROVE  UNCHANGED row
  BY <1>2 DEF Process, LoadArticle, Jaccard, Semantic, CheckCache, AnswerOK,
              FallbackAnswer, Flush, SetCache, Charge, shared
<1>3. World \/ UNCHANGED vars => UNCHANGED row
  BY DEF World, OrphanEnds, AgeOut, ExpireSummary, NewDay, shared, vars
<1> QED
  BY <1>1, <1>2, <1>3, CommitsIs DEF Next

LEMMA HandType ==
    ASSUME TypeOK, NEW w \in Workers, pc[w] \in InTry
    PROVE  cur[w] \in Articles /\ KeyOf[cur[w]] \in Keys
BY TitlesAssumption DEF TypeOK

LEMMA WrittenParts ==
    ASSUME NEW a, NEW d
    PROVE  /\ Written(a, d).summarized
           /\ Written(a, d).text = IF d.text = Raw(a) THEN row[a].text ELSE d.text
           /\ row[a].breaking => Written(a, d).breaking
           /\ Written(a, d).breaking => row[a].breaking \/ d.breaking
BY DEF Written

(* Publishing is final and no later write withdraws a breaking mark, since *)
(* the UPDATE carries only what differs from the unsummarised row.         *)
THEOREM NothingIsWithdrawn == Spec => NothingWithdrawn
<1> DEFINE Keeps == \A a \in Articles : /\ row[a].summarized => row'[a].summarized
                                        /\ row[a].breaking => row'[a].breaking
<1>1. ASSUME TypeOK, [Next]_vars
      PROVE  Keeps
  <2>1. CASE UNCHANGED row
    BY <2>1
  <2>2. ASSUME NEW w \in Workers, Commits(w)
        PROVE  Keeps
    <3>1. cur[w] \in Articles
      BY <1>1, <2>2, HandType DEF Commits, InTry
    <3>2. \A a \in Articles :
             row'[a] = IF a = cur[w] THEN Written(cur[w], draft[w]) ELSE row[a]
      BY <1>1, <2>2, <3>1 DEF Commits, TypeOK
    <3>3. /\ Written(cur[w], draft[w]).summarized
          /\ row[cur[w]].breaking => Written(cur[w], draft[w]).breaking
      BY WrittenParts
    <3>4. ASSUME NEW a \in Articles
          PROVE  /\ row[a].summarized => row'[a].summarized
                 /\ row[a].breaking => row'[a].breaking
      <4>1. CASE a = cur[w]
        BY <3>2, <3>3, <4>1
      <4>2. CASE a # cur[w]
        BY <3>2, <4>2
      <4> QED
        BY <4>1, <4>2
    <3> QED
      BY <3>4
  <2> QED
    BY <1>1, <2>1, <2>2, RowStep
<1>2. TypeOK /\ [Next]_vars => [Keeps]_vars
  BY <1>1
<1> QED
  BY <1>2, Typing, PTL DEF Spec, NothingWithdrawn

-----------------------------------------------------------------------------
(***************************************************************************)
(* Grounded.  The invariant follows a text from its origin to the table:   *)
(* what is cached for a key was generated for it, a draft is the article's *)
(* own or that of a published one, and a pending row is as it was fetched. *)
(***************************************************************************)
Generated(k) == {Llm(k), Extract(k)}

GroundedText(t) == \E b \in Articles : row[b].summarized /\ t \in OwnTexts(b)
GroundedMark == \E b \in BreakingNews : row[b].summarized

GoodDraft(a, d) == /\ d.text \in OwnTexts(a) \/ GroundedText(d.text)
                   /\ d.breaking => a \in BreakingNews \/ GroundedMark

CacheInv == \A k \in Keys : cache[k] # NoText => cache[k] \in Generated(k)
PendingInv == \A a \in Articles : ~row[a].summarized =>
                row[a].text = Raw(a) /\ ~row[a].breaking
DraftInv ==
    \A w \in Workers :
      /\ pc[w] \in HasDraft => GoodDraft(cur[w], draft[w])
      /\ pc[w] \in {"flush", "setex"} => draft[w].text \in Generated(KeyOf[cur[w]])
TableInv ==
    \A a \in Articles : row[a].summarized =>
        /\ GroundedText(row[a].text)
        /\ row[a].breaking => GroundedMark

GroundInv == CacheInv /\ PendingInv /\ DraftInv /\ TableInv

LEMMA InitGroundInv == Init => GroundInv
BY DEF Init, GroundInv, CacheInv, PendingInv, DraftInv, TableInv, HasDraft, Locked

LEMMA GeneratedOwn ==
    ASSUME NEW a \in Articles
    PROVE  Generated(KeyOf[a]) \subseteq OwnTexts(a) /\ Raw(a) \in OwnTexts(a)
BY DEF Generated, OwnTexts

(* What is grounded stays grounded: no row becomes pending again. *)
LEMMA GroundedStays ==
    ASSUME TypeOK, [Next]_vars
    PROVE  /\ \A t : GroundedText(t) => GroundedText(t)'
           /\ GroundedMark => GroundedMark'
           /\ \A a, d : GoodDraft(a, d) => GoodDraft(a, d)'
<1>1. \A b \in Articles : row[b].summarized => row'[b].summarized
  <2>1. CASE UNCHANGED row
    BY <2>1
  <2>2. ASSUME NEW w \in Workers, Commits(w)
        PROVE  \A b \in Articles : row[b].summarized => row'[b].summarized
    <3>1. cur[w] \in Articles
      BY <2>2, HandType DEF Commits, InTry
    <3>2. \A a \in Articles :
             row'[a] = IF a = cur[w] THEN Written(cur[w], draft[w]) ELSE row[a]
      BY <2>2, <3>1 DEF Commits, TypeOK
    <3>3. Written(cur[w], draft[w]).summarized
      BY WrittenParts
    <3> QED
      BY <3>2, <3>3
  <2> QED
    BY <2>1, <2>2, RowStep
<1>2. \A t : GroundedText(t) => GroundedText(t)'
  BY <1>1 DEF GroundedText
<1>3. GroundedMark => GroundedMark'
  BY <1>1, TitlesAssumption DEF GroundedMark
<1> QED
  BY <1>2, <1>3 DEF GoodDraft

(* A commit writes a grounded row. *)
LEMMA CommitGrounds ==
    ASSUME TypeOK, GroundInv, [Next]_vars, NEW w \in Workers, Commits(w)
    PROVE  PendingInv' /\ TableInv'
<1> DEFINE a == cur[w]
           new == Written(a, draft[w])
<1>1. a \in Articles /\ GoodDraft(a, draft[w])
  BY HandType DEF Commits, InTry, GroundInv, DraftInv, HasDraft, Locked
<1>2. \A b \in Articles : row'[b] = IF b = a THEN new ELSE row[b]
  BY <1>1 DEF Commits, TypeOK
<1>3. /\ new.summarized
      /\ new.text = IF draft[w].text = Raw(a) THEN row[a].text ELSE draft[w].text
      /\ new.breaking => row[a].breaking \/ draft[w].breaking
  BY WrittenParts
<1>4. row'[a].summarized
  BY <1>1, <1>2, <1>3
<1>5. \A t \in OwnTexts(a) : GroundedText(t)'
  BY <1>1, <1>4 DEF GroundedText
<1>6. a \in BreakingNews => GroundedMark'
  BY <1>4 DEF GroundedMark
<1>7. \A t : t = row[a].text \/ t = draft[w].text => GroundedText(t)'
  <2>1. GroundedText(draft[w].text) \/ draft[w].text \in OwnTexts(a)
    BY <1>1 DEF GoodDraft
  <2>2. GroundedText(row[a].text) \/ row[a].text \in OwnTexts(a)
    BY <1>1, GeneratedOwn DEF GroundInv, PendingInv, TableInv
  <2> QED
    BY <1>5, <2>1, <2>2, GroundedStays
<1>8. row[a].breaking \/ draft[w].breaking => GroundedMark'
  <2>1. row[a].breaking => GroundedMark
    BY <1>1 DEF GroundInv, PendingInv, TableInv
  <2>2. draft[w].breaking => a \in BreakingNews \/ GroundedMark
    BY <1>1 DEF GoodDraft
  <2> QED
    BY <1>6, <2>1, <2>2, GroundedStays
<1>9. ASSUME NEW b \in Articles, b # a
      PROVE  /\ row'[b] = row[b]
             /\ row[b].summarized => \A t : t = row[b].text => GroundedText(t)'
             /\ row[b].summarized /\ row[b].breaking => GroundedMark'
  BY <1>2, <1>9, GroundedStays DEF GroundInv, TableInv
<1>10. PendingInv'
  BY <1>2, <1>4, <1>9 DEF GroundInv, PendingInv
<1>11. TableInv'
  <2>1. ASSUME NEW b \in Articles, row'[b].summarized
        PROVE  \A t : t = row'[b].text => GroundedText(t)'
    <3>1. CASE b = a
      BY <1>1, <1>2, <1>3, <1>7, <3>1
    <3>2. CASE b # a
      BY <1>9, <2>1, <3>2
    <3> QED
      BY <3>1, <3>2
  <2>2. ASSUME NEW b \in Articles, row'[b].summarized, row'[b].breaking
        PROVE  GroundedMark'
    <3>1. CASE b = a
      <4>1. new.breaking
        BY <1>1, <1>2, <2>2, <3>1
      <4> QED
        BY <1>3, <1>8, <4>1
    <3>2. CASE b # a
      BY <1>9, <2>2, <3>2
    <3> QED
      BY <3>1, <3>2
  <2> QED
    BY <2>1, <2>2 DEF TableInv
<1> QED
  BY <1>10, <1>11

(* Where a draft can have come from when it is made. *)
Copied(t) == \E b \in Articles : row[b].summarized /\ row[b].text = t
Sourced(a, d) ==
    /\ d.text \in OwnTexts(a) \/ Copied(d.text)
    /\ d.breaking => \/ a \in BreakingNews
                     \/ \E b \in Articles : row[b].summarized /\ row[b].breaking

LEMMA SourcedIsGood ==
    ASSUME GroundInv, NEW a, NEW d, Sourced(a, d)
    PROVE  GoodDraft(a, d)
<1>1. Copied(d.text) => GroundedText(d.text)
  BY DEF Copied, GroundInv, TableInv
<1>2. ASSUME NEW b \in Articles, row[b].summarized, row[b].breaking
      PROVE  GroundedMark
  BY <1>2 DEF GroundInv, TableInv
<1> QED
  BY <1>1, <1>2 DEF Sourced, GoodDraft

(* What a step does to the draft of worker w. *)
NoDraftAfter(w) == pc'[w] \notin HasDraft
SameDraft(w) == /\ cur'[w] = cur[w] /\ draft'[w] = draft[w]
                /\ pc[w] \in HasDraft
                /\ pc'[w] \in {"flush", "setex"} => pc[w] \in {"flush", "setex"}
NewDraft(w) == \E d : /\ pc[w] \in InTry
                      /\ cur'[w] = cur[w] /\ draft'[w] = d
                      /\ Sourced(cur[w], d)
                      /\ pc'[w] # "setex"
                      /\ pc'[w] = "flush" => d.text \in Generated(KeyOf[cur[w]])

LEMMA ProposeIs ==
    ASSUME TypeOK, NEW w \in Workers, pc[w] \in InTry, NEW d, NEW place \in {"write", "flush"},
           Propose(w, d, place), UNCHANGED cur,
           Sourced(cur[w], d),
           place = "flush" => d.text \in Generated(KeyOf[cur[w]])
    PROVE  NewDraft(w)
<1>1. pc'[w] = place /\ draft'[w] = d
  BY DEF TypeOK, Propose, Goto
<1> QED
  BY <1>1 DEF NewDraft

LEMMA ReuseDraft ==
    ASSUME TypeOK, NEW w \in Workers, pc[w] \in InTry, NEW t, Reuse(w, t)
    PROVE  NoDraftAfter(w) \/ NewDraft(w)
<1>1. CASE Settle(w, Failed(w))
  BY <1>1 DEF Settle, Goto, TypeOK, NoDraftAfter, HasDraft, Locked
<1>2. ASSUME NEW b \in Summarized(t), Propose(w, CopyOf(b, cur[w]), "write"), UNCHANGED cur
      PROVE  NewDraft(w)
  <2>1. b \in Articles /\ row[b].summarized
    BY DEF Summarized
  <2>2. Sourced(cur[w], CopyOf(b, cur[w]))
    <3>1. CASE b = cur[w]
      BY <3>1, HandType, GeneratedOwn DEF Sourced, CopyOf
    <3>2. CASE b # cur[w]
      BY <2>1, <3>2 DEF Sourced, Copied, CopyOf
    <3> QED
      BY <3>1, <3>2
  <2> QED
    BY <1>2, <2>2, ProposeIs
<1> QED
  BY <1>1, <1>2 DEF Reuse

(* An action of w that moves the article in hand. *)
LEMMA ProcessDraft ==
    ASSUME TypeOK, GroundInv, NEW w \in Workers, Process(w)
    PROVE  NoDraftAfter(w) \/ SameDraft(w) \/ NewDraft(w)
<1> USE DEF HasDraft, Locked
<1>1. CASE LoadArticle(w)
  <2>1. cur[w] \in Articles /\ pc[w] \in InTry
    BY <1>1, HandType DEF LoadArticle, InTry
  <2>2. CASE Propose(w, [text |-> Raw(cur[w]), breaking |-> FALSE], "write") /\ UNCHANGED cur
    BY <2>1, <2>2, GeneratedOwn, ProposeIs DEF Sourced
  <2>3. CASE Goto(w, "jaccard") \/ Settle(w, tally[w])
    BY <2>3 DEF Goto, Settle, TypeOK, NoDraftAfter
  <2> QED
    BY <1>1, <2>2, <2>3 DEF LoadArticle
<1>2. CASE Jaccard(w)
  <2>1. pc[w] \in InTry
    BY <1>2 DEF Jaccard, InTry
  <2>2. CASE Goto(w, "semantic")
    BY <2>2 DEF Goto, TypeOK, NoDraftAfter
  <2> QED
    BY <1>2, <2>1, <2>2, ReuseDraft DEF Jaccard
<1>3. CASE Semantic(w)
  <2>1. pc[w] \in InTry
    BY <1>3 DEF Semantic, InTry
  <2>2. CASE Goto(w, "cache")
    BY <2>2 DEF Goto, TypeOK, NoDraftAfter
  <2> QED
    BY <1>3, <2>1, <2>2, ReuseDraft DEF Semantic
<1>4. CASE CheckCache(w)
  <2>1. cur[w] \in Articles /\ KeyOf[cur[w]] \in Keys /\ pc[w] \in InTry
    BY <1>4, HandType DEF CheckCache, InTry
  <2> DEFINE d == [text |-> cache[KeyOf[cur[w]]], breaking |-> FALSE]
  <2>2. CASE cache[KeyOf[cur[w]]] # NoText /\ Propose(w, d, "write")
    <3>1. d.text \in OwnTexts(cur[w])
      BY <2>1, <2>2, GeneratedOwn DEF GroundInv, CacheInv
    <3>2. Sourced(cur[w], d)
      BY <3>1 DEF Sourced
    <3>3. UNCHANGED cur
      BY <1>4 DEF CheckCache
    <3> HIDE DEF d
    <3> QED
      BY <2>1, <2>2, <3>2, <3>3, ProposeIs
  <2>3. CASE Goto(w, "answer")
    BY <2>3 DEF Goto, TypeOK, NoDraftAfter
  <2> QED
    BY <1>4, <2>2, <2>3 DEF CheckCache, CallProvider
<1>5. CASE WriteAndCommit(w) \/ Commit(w)
  BY <1>5 DEF WriteAndCommit, Committed, Commit, Settle, Goto, TypeOK, NoDraftAfter
<1>6. CASE AnswerOK(w) \/ FallbackAnswer(w)
  <2>1. cur[w] \in Articles /\ pc[w] \in InTry
    BY <1>6, HandType DEF AnswerOK, FallbackAnswer, InTry
  <2>2. PICK t \in Generated(KeyOf[cur[w]]) :
            Propose(w, [text |-> t, breaking |-> cur[w] \in BreakingNews], "flush")
    BY <1>6 DEF AnswerOK, FallbackAnswer, Generated
  <2> DEFINE d == [text |-> t, breaking |-> cur[w] \in BreakingNews]
  <2>3. Sourced(cur[w], d) /\ d.text \in Generated(KeyOf[cur[w]])
    BY <2>1, GeneratedOwn DEF Sourced
  <2>4. UNCHANGED cur
    BY <1>6 DEF AnswerOK, FallbackAnswer
  <2> HIDE DEF d
  <2>5. Propose(w, d, "flush")
    BY <2>2 DEF d
  <2> QED
    BY <2>1, <2>3, <2>4, <2>5, ProposeIs
<1>7. CASE Flush(w) \/ SetCache(w)
  BY <1>7 DEF Flush, SetCache, Goto, TypeOK, SameDraft
<1>8. CASE Charge(w)
  <2>1. CASE Settle(w, Failed(w))
    BY <2>1 DEF Settle, Goto, TypeOK, NoDraftAfter
  <2>2. CASE Goto(w, "commit") /\ UNCHANGED <<cur, draft>>
    BY <1>8, <2>2 DEF Charge, Goto, TypeOK, SameDraft
  <2> QED
    BY <1>8, <2>1, <2>2 DEF Charge
<1> QED
  BY <1>1, <1>2, <1>3, <1>4, <1>5, <1>6, <1>7, <1>8 DEF Process

LEMMA DraftStep ==
    ASSUME TypeOK, GroundInv, [Next]_vars, NEW w \in Workers
    PROVE  NoDraftAfter(w) \/ SameDraft(w) \/ NewDraft(w)
<1>1. CASE pc'[w] = pc[w] /\ cur'[w] = cur[w] /\ draft'[w] = draft[w]
  BY <1>1 DEF NoDraftAfter, SameDraft
<1>2. CASE World \/ UNCHANGED vars
  BY <1>1, <1>2 DEF World, OrphanEnds, AgeOut, ExpireSummary, NewDay, run, vars
<1>3. ASSUME NEW v \in Workers, Around(v)
      PROVE  NoDraftAfter(v) \/ SameDraft(v)
  BY <1>3 DEF Around, ReadFlags, ReadBudget, SelectBatch, LoadRecent, TakeNext, Finish,
              EndRun, Goto, TypeOK, NoDraftAfter, SameDraft, HasDraft, Locked
<1>4. ASSUME NEW v \in Workers, Trouble(v)
      PROVE  NoDraftAfter(v)
  BY <1>4 DEF Trouble, Timeout, FailArticle, EscapedError, Crash, Settle, EndRun, Goto,
              TypeOK, NoDraftAfter, HasDraft, Locked
<1>5. ASSUME NEW v \in Workers, v # w, Around(v) \/ Trouble(v)
      PROVE  pc'[w] = pc[w] /\ cur'[w] = cur[w] /\ draft'[w] = draft[w]
  BY <1>5 DEF Around, ReadFlags, ReadBudget, SelectBatch, LoadRecent, TakeNext, Finish,
              Trouble, Timeout, FailArticle, EscapedError, Crash, Settle, EndRun, Goto,
              TypeOK
<1>6. ASSUME NEW v \in Workers, v # w, Process(v)
      PROVE  pc'[w] = pc[w] /\ cur'[w] = cur[w] /\ draft'[w] = draft[w]
  BY <1>6 DEF Process, LoadArticle, Jaccard, Semantic, Reuse, CheckCache, CallProvider,
              WriteAndCommit, Committed, AnswerOK, FallbackAnswer, Flush, SetCache, Charge, Commit,
              Settle, Propose, Goto, TypeOK
<1> QED
  BY <1>1, <1>2, <1>3, <1>4, <1>5, <1>6, ProcessDraft DEF Next

LEMMA StepDraftInv ==
    ASSUME TypeOK, GroundInv, [Next]_vars
    PROVE  DraftInv'
<1>1. \A a, d : GoodDraft(a, d) => GoodDraft(a, d)'
  BY GroundedStays
<1>2. ASSUME NEW w \in Workers, pc'[w] \in HasDraft
      PROVE  \A a, d : a = cur'[w] /\ d = draft'[w] => GoodDraft(a, d)'
  <2>1. CASE SameDraft(w)
    BY <1>1, <2>1 DEF SameDraft, GroundInv, DraftInv
  <2>2. CASE NewDraft(w)
    BY <1>1, <2>2, SourcedIsGood DEF NewDraft
  <2> QED
    BY <1>2, <2>1, <2>2, DraftStep DEF NoDraftAfter
<1>3. ASSUME NEW w \in Workers, pc'[w] \in {"flush", "setex"}
      PROVE  draft'[w].text \in Generated(KeyOf[cur'[w]])
  <2>1. CASE SameDraft(w)
    BY <1>3, <2>1 DEF SameDraft, GroundInv, DraftInv
  <2>2. CASE NewDraft(w)
    BY <1>3, <2>2 DEF NewDraft
  <2> QED
    BY <1>3, <2>1, <2>2, DraftStep DEF NoDraftAfter, HasDraft, Locked
<1> QED
  BY <1>2, <1>3 DEF DraftInv, Generated

LEMMA StepCacheInv ==
    ASSUME TypeOK, GroundInv, [Next]_vars
    PROVE  CacheInv'
<1>1. CASE UNCHANGED cache
  BY <1>1 DEF CacheInv, GroundInv
<1>2. ASSUME NEW w \in Workers, SetCache(w)
      PROVE  CacheInv'
  <2>1. KeyOf[cur[w]] \in Keys
    BY <1>2, HandType DEF SetCache, InTry
  <2>2. draft[w].text \in Generated(KeyOf[cur[w]])
    BY <1>2 DEF SetCache, GroundInv, DraftInv
  <2>3. \A k \in Keys : cache'[k] = IF k = KeyOf[cur[w]] THEN draft[w].text ELSE cache[k]
    BY <1>2, <2>1 DEF SetCache, TypeOK
  <2> QED
    BY <2>2, <2>3 DEF CacheInv, GroundInv
<1>3. ASSUME NEW k \in Keys, ExpireSummary(k)
      PROVE  CacheInv'
  BY <1>3 DEF ExpireSummary, CacheInv, GroundInv, TypeOK
<1>4. ASSUME NEW w \in Workers, Around(w) \/ Trouble(w)
      PROVE  UNCHANGED cache
  BY <1>4 DEF Around, ReadFlags, ReadBudget, SelectBatch, LoadRecent, TakeNext, Finish,
              Trouble, Timeout, FailArticle, EscapedError, Crash, shared
<1>5. ASSUME NEW w \in Workers, Process(w), ~SetCache(w)
      PROVE  UNCHANGED cache
  BY <1>5 DEF Process, LoadArticle, Jaccard, Semantic, CheckCache, AnswerOK, Commit,
              FallbackAnswer, Flush, WriteAndCommit, Committed, Charge, shared
<1>6. World \/ UNCHANGED vars => UNCHANGED cache \/ \E k \in Keys : ExpireSummary(k)
  BY DEF World, OrphanEnds, AgeOut, NewDay, shared, vars
<1> QED
  BY <1>1, <1>2, <1>3, <1>4, <1>5, <1>6 DEF Next

LEMMA StepGroundInv ==
    ASSUME TypeOK, GroundInv, [Next]_vars
    PROVE  GroundInv'
<1>1. CASE UNCHANGED row
  <2>1. PendingInv'
    BY <1>1 DEF GroundInv, PendingInv
  <2>2. ASSUME NEW a \in Articles, row'[a].summarized
        PROVE  /\ \A t : t = row'[a].text => GroundedText(t)'
               /\ row'[a].breaking => GroundedMark'
    BY <1>1, <2>2, GroundedStays DEF GroundInv, TableInv
  <2>3. TableInv'
    BY <2>2 DEF TableInv
  <2> QED
    BY <2>1, <2>3, StepCacheInv, StepDraftInv DEF GroundInv
<1>2. CASE \E w \in Workers : Commits(w)
  BY <1>2, CommitGrounds, StepCacheInv, StepDraftInv DEF GroundInv
<1> QED
  BY <1>1, <1>2, RowStep

(* A published summary is the own text of some published article, and a    *)
(* mark goes back to a published article that was detected as breaking,    *)
(* whatever dedup, cache, failures and overlapping runs did in between.    *)
THEOREM GroundedHolds == Spec => []Grounded
<1>1. GroundInv => Grounded
  BY DEF GroundInv, TableInv, GroundedText, GroundedMark, Grounded
<1>2. TypeOK /\ GroundInv /\ [Next]_vars => GroundInv'
  BY StepGroundInv
<1> QED
  BY <1>1, <1>2, InitGroundInv, Typing, PTL DEF Spec

-----------------------------------------------------------------------------
(***************************************************************************)
(* StaleListsExplained.  A run that published something is still going, or *)
(* its end is on record; that a run which knows of a publication cannot    *)
(* end in the raise follows by counting the articles of its batch.         *)
(***************************************************************************)
Done(w) == tally[w].failed + tally[w].published
CountOf(w) ==
    /\ pc[w] \notin {"next"} \cup InTry => tally[w] = NoTally
    /\ pc[w] \in {"titles", "next"} => Done(w) + Cardinality(todo[w]) <= ctx[w].total
    /\ pc[w] \in InTry => Done(w) + 1 + Cardinality(todo[w]) <= ctx[w].total
CountInv == \A w \in Workers : CountOf(w)

StaleInv == stale => \/ excused
                     \/ \E w \in Workers : pc[w] # "idle" /\ HasPublished(w)

LEMMA TodoFinite ==
    ASSUME TypeOK, NEW w \in Workers
    PROVE  IsFiniteSet(todo[w]) /\ Cardinality(todo[w]) \in Nat
BY SetsAssumption, FS_Subset, FS_CardinalityType DEF TypeOK

LEMMA CountTypes ==
    ASSUME TypeOK, NEW w \in Workers
    PROVE  tally[w].failed \in Nat /\ tally[w].published \in Nat /\ ctx[w].total \in Nat
BY DEF TypeOK

(* How a worker in the try block of process_one moves on. *)
Stays(w)  == pc'[w] \in InTry /\ tally'[w] = tally[w] /\ cur'[w] = cur[w]
Leaves(w) == /\ pc'[w] = "next"
             /\ \/ tally'[w] = tally[w]
                \/ tally'[w] = Failed(w)
                \/ tally'[w] = Published(w)
                \/ tally'[w] = Unheard(w)
MovesOn(w) == /\ pc[w] \in InTry
              /\ todo'[w] = todo[w] /\ ctx'[w] = ctx[w]
              /\ Stays(w) \/ Leaves(w)
Ends(w) == pc'[w] = "idle" /\ tally'[w] = NoTally

LEMMA ProcessMoves ==
    ASSUME TypeOK, NEW w \in Workers, Process(w) \/ Timeout(w) \/ FailArticle(w)
    PROVE  MovesOn(w)
<1>1. ASSUME NEW t \in {tally[w], Failed(w), Published(w), Unheard(w)}, Settle(w, t)
      PROVE  Leaves(w)
  BY <1>1 DEF Settle, Goto, TypeOK, Leaves
<1>2. ASSUME NEW d, NEW place \in InTry, Propose(w, d, place), UNCHANGED <<tally, cur>>
      PROVE  Stays(w)
  BY <1>2 DEF Propose, Goto, TypeOK, Stays
<1>3. ASSUME NEW place \in InTry, Goto(w, place), UNCHANGED <<tally, cur>>
      PROVE  Stays(w)
  BY <1>3 DEF Goto, TypeOK, Stays
<1>4. CASE LoadArticle(w) \/ CheckCache(w) \/ Flush(w) \/ SetCache(w) \/ AnswerOK(w)
           \/ FallbackAnswer(w)
  BY <1>1, <1>2, <1>3, <1>4 DEF LoadArticle, CheckCache, CallProvider, Flush, SetCache,
     AnswerOK, FallbackAnswer, MovesOn, InTry
<1>5. CASE Jaccard(w) \/ Semantic(w)
  BY <1>1, <1>2, <1>3, <1>5 DEF Jaccard, Semantic, Reuse, MovesOn, InTry
<1>6. CASE WriteAndCommit(w) \/ Commit(w) \/ Timeout(w) \/ FailArticle(w)
  BY <1>1, <1>6 DEF WriteAndCommit, Committed, Commit, Timeout, FailArticle, MovesOn, InTry
<1>7. CASE Charge(w)
  BY <1>1, <1>3, <1>7 DEF Charge, MovesOn, InTry
<1> QED
  BY <1>4, <1>5, <1>6, <1>7 DEF Process

LEMMA EndRunEnds ==
    ASSUME TypeOK, NEW w \in Workers, EndRun(w)
    PROVE  Ends(w)
BY DEF EndRun, Goto, TypeOK, Ends

(* A step of one worker leaves the runs of the others alone. *)
LEMMA OneRunMoves ==
    ASSUME TypeOK, NEW v \in Workers, Around(v) \/ Process(v) \/ Trouble(v),
           NEW w \in Workers, w # v
    PROVE  /\ pc'[w] = pc[w] /\ tally'[w] = tally[w]
           /\ todo'[w] = todo[w] /\ ctx'[w] = ctx[w]
<1>1. CASE EndRun(v)
  BY <1>1 DEF EndRun, Goto, TypeOK
<1>2. CASE Trouble(v) /\ ~EndRun(v)
  BY <1>2 DEF Trouble, Timeout, FailArticle, EscapedError, Crash, Settle, Goto, TypeOK
<1>3. CASE Around(v) /\ ~EndRun(v)
  BY <1>3 DEF Around, ReadFlags, ReadBudget, SelectBatch, LoadRecent, TakeNext, Finish,
              Goto, TypeOK
<1>4. CASE Process(v)
  BY <1>4 DEF Process, LoadArticle, Jaccard, Semantic, Reuse, CheckCache, CallProvider,
              WriteAndCommit, Committed, AnswerOK, FallbackAnswer, Flush, SetCache, Charge, Commit,
              Settle, Propose, Goto, TypeOK
<1> QED
  BY <1>1, <1>2, <1>3, <1>4

(* Neither does the world move a run. *)
LEMMA OthersKeep ==
    ASSUME TypeOK, [Next]_vars, NEW w \in Workers, ~(Around(w) \/ Process(w) \/ Trouble(w))
    PROVE  /\ pc'[w] = pc[w] /\ tally'[w] = tally[w]
           /\ todo'[w] = todo[w] /\ ctx'[w] = ctx[w]
<1>1. CASE World \/ UNCHANGED vars
  BY <1>1 DEF World, OrphanEnds, AgeOut, ExpireSummary, NewDay, run, vars
<1> QED
  BY <1>1, OneRunMoves DEF Next

LEMMA StepCountInv ==
    ASSUME TypeOK, CountInv, [Next]_vars
    PROVE  CountInv'
<1> SUFFICES ASSUME NEW w \in Workers PROVE CountOf(w)'
  BY DEF CountInv
<1>0. CountOf(w)
  BY DEF CountInv
<1>a. /\ tally[w].failed \in Nat /\ tally[w].published \in Nat /\ ctx[w].total \in Nat
      /\ Cardinality(todo[w]) \in Nat
  BY CountTypes, TodoFinite
<1>1. CASE ~(Around(w) \/ Process(w) \/ Trouble(w))
  BY <1>0, <1>1, OthersKeep DEF CountOf, Done
<1>2. CASE Ends(w)
  BY <1>2 DEF Ends, CountOf, InTry
<1>3. CASE MovesOn(w)
  <2>1. Done(w) + 1 + Cardinality(todo[w]) <= ctx[w].total
    BY <1>0, <1>3 DEF MovesOn, CountOf
  <2>2. CASE Stays(w)
    BY <1>3, <2>1, <2>2 DEF MovesOn, Stays, CountOf, Done, InTry
  <2>3. CASE Leaves(w)
    <3>1. tally'[w].failed + tally'[w].published <= Done(w) + 1
      <4>1. tally[w] \in [failed : Nat, published : Nat, unheard : BOOLEAN]
        BY DEF TypeOK
      <4>2. \A t \in {Failed(w), Unheard(w)} :
              t.failed = tally[w].failed + 1 /\ t.published = tally[w].published
        BY <4>1 DEF Failed, Unheard
      <4>3. /\ Published(w).failed = tally[w].failed
            /\ Published(w).published = tally[w].published + 1
        BY <4>1 DEF Published
      <4>4. CASE tally'[w] = tally[w]
        BY <1>a, <4>4 DEF Done
      <4>5. CASE tally'[w] = Failed(w) \/ tally'[w] = Unheard(w)
        BY <1>a, <4>2, <4>5 DEF Done
      <4>6. CASE tally'[w] = Published(w)
        BY <1>a, <4>3, <4>6 DEF Done
      <4> QED
        BY <2>3, <4>4, <4>5, <4>6 DEF Leaves
    <3>2. tally'[w].failed + tally'[w].published + Cardinality(todo[w]) <= ctx[w].total
      <4>1. tally'[w].failed + tally'[w].published \in Nat
        BY StepTypeOK DEF TypeOK
      <4> QED
        BY <1>a, <2>1, <3>1, <4>1 DEF Done
    <3> QED
      BY <1>3, <2>3, <3>2 DEF MovesOn, Leaves, CountOf, Done, InTry
  <2> QED
    BY <1>3, <2>2, <2>3 DEF MovesOn
<1>4. CASE ReadFlags(w) \/ ReadBudget(w)
  BY <1>0, <1>2, <1>4, EndRunEnds DEF ReadFlags, ReadBudget, Goto, TypeOK, CountOf, InTry
<1>5. CASE SelectBatch(w)
  <2>1. CASE EndRun(w)
    BY <1>2, <2>1, EndRunEnds
  <2>2. CASE ~EndRun(w)
    <3>1. tally'[w] = NoTally /\ pc'[w] = "titles"
          /\ ctx'[w].total = Cardinality(todo'[w])
      BY <1>0, <1>5, <2>2 DEF SelectBatch, Goto, TypeOK, CountOf, InTry
    <3>2. todo'[w] \subseteq Articles
      BY StepTypeOK DEF TypeOK
    <3>3. Cardinality(todo'[w]) \in Nat
      BY <3>2, SetsAssumption, FS_Subset, FS_CardinalityType
    <3> QED
      BY <3>1, <3>3 DEF CountOf, Done, NoTally, InTry
  <2> QED
    BY <2>1, <2>2
<1>6. CASE LoadRecent(w)
  BY <1>0, <1>6 DEF LoadRecent, Goto, TypeOK, CountOf, Done, InTry
<1>7. CASE TakeNext(w)
  <2>1. PICK a \in todo[w] : todo'[w] = todo[w] \ {a}
    BY <1>7 DEF TakeNext, TypeOK
  <2>2. Cardinality(todo'[w]) = Cardinality(todo[w]) - 1
    BY <2>1, TodoFinite, FS_RemoveElement
  <2>3. pc'[w] = "load" /\ tally'[w] = tally[w] /\ ctx'[w] = ctx[w] /\ pc[w] = "next"
    BY <1>7 DEF TakeNext, Goto, TypeOK
  <2> QED
    BY <1>0, <1>a, <2>2, <2>3 DEF CountOf, Done, InTry
<1>8. CASE Finish(w) \/ EscapedError(w) \/ Crash(w)
  BY <1>2, <1>8, EndRunEnds DEF Finish, EscapedError, Crash
<1> QED
  BY <1>1, <1>3, <1>4, <1>5, <1>6, <1>7, <1>8, ProcessMoves DEF Around, Trouble

LEMMA InitCounts == Init => CountInv /\ StaleInv
BY DEF Init, CountInv, CountOf, StaleInv, InTry

(* Who makes the lists stale, and who takes an excuse back. *)
LEMMA StaleStep ==
    ASSUME [Next]_vars, stale'
    PROVE  /\ stale \/ \E w \in Workers : Commits(w)
           /\ excused => excused'
<1>0. UNCHANGED <<stale, excused>> => stale /\ (excused => excused')
  <2>1. CASE UNCHANGED <<stale, excused>>
    BY <2>1
  <2> QED
    BY <2>1
<1>1. ASSUME NEW w \in Workers, Around(w)
      PROVE  stale /\ (excused => excused')
  <2>2. CASE Finish(w)
    <3>1. CASE stale' = FALSE
      BY <3>1
    <3>2. CASE excused' = (excused \/ tally[w].unheard) /\ stale' = stale
      BY <3>2, Zenon
    <3>4. CASE excused' = (excused \/ HasPublished(w)) /\ stale' = stale
      BY <3>4, Zenon
    <3>3. \/ stale' = FALSE
          \/ excused' = (excused \/ tally[w].unheard) /\ stale' = stale
          \/ excused' = (excused \/ HasPublished(w)) /\ stale' = stale
      BY <2>2, Zenon DEF Finish
    <3> QED
      BY <3>1, <3>2, <3>3, <3>4
  <2> QED
    BY <1>1, <1>0, <2>2 DEF Around, ReadFlags, ReadBudget, SelectBatch, LoadRecent,
                            TakeNext, shared, ghosts
<1>2. ASSUME NEW w \in Workers, Trouble(w)
      PROVE  stale /\ (excused => excused')
  <2>2. CASE EscapedError(w) \/ Crash(w)
    BY <2>2, Zenon DEF EscapedError, Crash, shared
  <2> QED
    BY <1>2, <1>0, <2>2 DEF Trouble, Timeout, FailArticle, shared, ghosts
<1>3. ASSUME NEW w \in Workers, Process(w)
      PROVE  (stale \/ WriteAndCommit(w) \/ Commit(w)) /\ (excused => excused')
  <2>2. UNCHANGED excused
    BY <1>3 DEF Process, LoadArticle, Jaccard, Semantic, CheckCache, WriteAndCommit, Committed,
                AnswerOK, FallbackAnswer, Flush, SetCache, Charge, Commit, ghosts
  <2>3. UNCHANGED stale \/ WriteAndCommit(w) \/ Commit(w)
    BY <1>3 DEF Process, LoadArticle, Jaccard, Semantic, CheckCache, AnswerOK,
                FallbackAnswer, Flush, SetCache, Charge, shared
  <2> QED
    BY <1>0, <2>2, <2>3, Zenon
<1>4. World \/ UNCHANGED vars => UNCHANGED <<stale, excused>>
  BY DEF World, OrphanEnds, AgeOut, ExpireSummary, NewDay, shared, ghosts, vars
<1> QED
  BY <1>0, <1>1, <1>2, <1>3, <1>4, CommitsIs DEF Next

LEMMA StepStaleInv ==
    ASSUME TypeOK, CountInv, StaleInv, [Next]_vars
    PROVE  StaleInv'
<1> SUFFICES ASSUME stale', ~excused'
             PROVE  \E w \in Workers : pc'[w] # "idle" /\ HasPublished(w)'
  BY DEF StaleInv
<1>0. ASSUME NEW w \in Workers
      PROVE  /\ tally[w].failed \in Nat /\ tally[w].published \in Nat
             /\ Published(w).published = tally[w].published + 1
             /\ Published(w).unheard = tally[w].unheard
             /\ Failed(w).published = tally[w].published
             /\ Failed(w).unheard = tally[w].unheard
             /\ Unheard(w).unheard
  BY DEF TypeOK, Published, Failed, Unheard
<1>1. ASSUME NEW w \in Workers, Commits(w)
      PROVE  pc'[w] # "idle" /\ HasPublished(w)'
  <2>1. pc'[w] = "next" /\ tally'[w] \in {Published(w), Unheard(w)}
    BY <1>1 DEF Commits, Settle, Goto, TypeOK
  <2> QED
    BY <1>0, <2>1 DEF HasPublished
<1>2. ASSUME NEW w \in Workers, pc[w] # "idle", HasPublished(w)
      PROVE  pc'[w] # "idle" /\ HasPublished(w)'
  <2>0. CountOf(w)
    BY DEF CountInv
  <2>a. /\ tally[w].failed \in Nat /\ tally[w].published \in Nat
        /\ ctx[w].total \in Nat /\ Cardinality(todo[w]) \in Nat
    BY CountTypes, TodoFinite
  <2>1. CASE ~(Around(w) \/ Process(w) \/ Trouble(w))
    BY <1>2, <2>1, OthersKeep DEF HasPublished
  <2>2. CASE Process(w) \/ Timeout(w) \/ FailArticle(w)
    <3>1. MovesOn(w)
      BY <2>2, ProcessMoves
    <3>2. CASE Stays(w)
      BY <1>2, <3>2 DEF Stays, InTry, HasPublished
    <3>3. CASE Leaves(w)
      <4>1. tally'[w] \in {tally[w], Failed(w), Published(w), Unheard(w)}
        BY <3>3 DEF Leaves
      <4>2. \/ tally'[w].published \in {tally[w].published, tally[w].published + 1}
               /\ tally'[w].unheard = tally[w].unheard
            \/ tally'[w].unheard
        BY <1>0, <4>1
      <4>3. HasPublished(w)'
        BY <1>2, <2>a, <4>2 DEF HasPublished
      <4> QED
        BY <3>3, <4>3 DEF Leaves
    <3> QED
      BY <3>1, <3>2, <3>3 DEF MovesOn
  <2>3. CASE EscapedError(w) \/ Crash(w)
    BY <1>2, <2>3 DEF EscapedError, Crash
  <2>4. tally[w] # NoTally
    BY <1>2 DEF NoTally, HasPublished
  <2>5. CASE ReadFlags(w) \/ ReadBudget(w) \/ SelectBatch(w) \/ LoadRecent(w)
    BY <2>0, <2>4, <2>5 DEF ReadFlags, ReadBudget, SelectBatch, LoadRecent, CountOf, InTry
  <2>6. CASE TakeNext(w)
    BY <1>2, <2>6 DEF TakeNext, Goto, TypeOK, HasPublished
  <2>7. CASE Finish(w)
    <3>1. tally[w].failed = ctx[w].total /\ ~tally[w].unheard
      BY <1>2, <2>7, Zenon DEF Finish
    <3>2. tally[w].failed + tally[w].published + Cardinality(todo[w]) <= ctx[w].total
      BY <2>0, <2>7 DEF Finish, CountOf, Done
    <3> QED
      BY <1>2, <2>a, <3>1, <3>2 DEF HasPublished
  <2> QED
    BY <2>1, <2>2, <2>3, <2>5, <2>6, <2>7 DEF Around, Trouble
<1> QED
  BY <1>1, <1>2, StaleStep DEF StaleInv

(* Once every run has ended, story lists older than the database are due   *)
(* to a run that was cut off or refused by Redis after it had published,   *)
(* or whose batch failed with a commit that was carried out unheard: the   *)
(* raise hides no publication the run knows of.                            *)
THEOREM StaleListsAreExplained == Spec => []StaleListsExplained
<1>1. StaleInv => StaleListsExplained
  BY DEF StaleInv, StaleListsExplained
<1>2. TypeOK /\ CountInv /\ StaleInv /\ [Next]_vars => CountInv' /\ StaleInv'
  BY StepCountInv, StepStaleInv
<1> QED
  BY <1>1, <1>2, InitCounts, Typing, PTL DEF Spec
================================================================================
