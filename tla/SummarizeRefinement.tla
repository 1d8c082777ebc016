--------------------------- MODULE SummarizeRefinement ---------------------------
(***************************************************************************)
(* With flags that do not ask for a negative slice: one worker implements  *)
(* SummaryLedger, and any number of them, their runs overlapping as they   *)
(* may, overshoot the daily budget by no more than a limit each.           *)
(***************************************************************************)
EXTENDS SummarizeContentProofs

Solo       == \E w \in Workers : Workers = {w}
SaneSlices == \A f \in FlagChoices : f.top_n >= 0

(***************************************************************************)
(* Why a charge stays below the limit: the charges a run may still make,   *)
(* its claim, fit into what the counter of its day leaves of the limit it  *)
(* has read.  With other workers about, the counter may have moved since.  *)
(***************************************************************************)
Limit(w) == ctx[w].flags.max_daily_summaries
Spent(w) == budget[ctx[w].day]

Claiming == {"select", "titles", "next"} \cup InTry
Claim(w) == IF pc[w] = "select" THEN ctx[w].limit
            ELSE Cardinality(todo[w])
                 + (IF pc[w] \in InTry \ {"commit"} THEN 1 ELSE 0)

FlagsOf(w) == /\ pc[w] # "idle" => ctx[w].flags \in FlagChoices
              /\ pc[w] = "select" => ctx[w].limit >= 0
FlagsInv == \A w \in Workers : FlagsOf(w)

RoomOf(w) == pc[w] \in Claiming => Spent(w) + Claim(w) <= Limit(w)
RoomInv == FlagsInv /\ \A w \in Workers : RoomOf(w)

(***************************************************************************)
(* Why a summary is published once: nobody else publishes the article in   *)
(* hand, and the text in hand is its own or stands in a published row.     *)
(***************************************************************************)
FirstOf(w) ==
    /\ pc[w] \in InTry \ {"load"} => ~row[cur[w]].summarized
    /\ pc[w] \in HasDraft => draft[w].text \in OwnTexts(cur[w]) \/ Copied(draft[w].text)
FirstInv == \A w \in Workers : FirstOf(w)

LEMMA InitSolo == Init => RoomInv /\ FirstInv
BY DEF Init, RoomInv, RoomOf, FlagsInv, FlagsOf, Claiming, FirstInv, FirstOf, InTry,
       HasDraft, Locked

LEMMA RoomTypes ==
    ASSUME TypeOK, NEW w \in Workers
    PROVE  /\ ctx[w].flags \in Flags /\ Limit(w) \in Int
           /\ ctx[w].day \in Days /\ Spent(w) \in Nat /\ ctx[w].limit \in Int
           /\ Cardinality(todo[w]) \in Nat
<1>1. ctx[w].flags \in Flags /\ ctx[w].day \in Days /\ ctx[w].limit \in Int
  BY FlagType DEF TypeOK
<1>2. Limit(w) \in Int
  BY <1>1 DEF Limit, Flags
<1>3. Spent(w) \in Nat
  BY <1>1 DEF Spent, TypeOK
<1> QED
  BY <1>1, <1>2, <1>3, TodoFinite

LEMMA SliceBound ==
    ASSUME NEW n \in Nat, NEW k \in Nat
    PROVE  SliceLen(n, k) <= k
BY DEF SliceLen

(* Only Charge moves the counter. *)
LEMMA WorkerBudget ==
    ASSUME NEW w \in Workers, Around(w) \/ Process(w) \/ Trouble(w)
    PROVE  UNCHANGED budget \/ Charge(w)
<1>1. CASE Around(w) \/ Trouble(w)
  BY <1>1 DEF Around, ReadFlags, ReadBudget, SelectBatch, LoadRecent, TakeNext, Finish,
              Trouble, Timeout, FailArticle, EscapedError, Crash, shared
<1>2. CASE Process(w)
  BY <1>2 DEF Process, LoadArticle, Jaccard, Semantic, CheckCache, AnswerOK,
              FallbackAnswer, Flush, SetCache, WriteAndCommit, Committed, Commit, shared
<1> QED
  BY <1>1, <1>2

LEMMA BudgetStep ==
    ASSUME [Next]_vars
    PROVE  UNCHANGED budget \/ \E w \in Workers : Charge(w)
<1>1. World \/ UNCHANGED vars => UNCHANGED budget
  BY DEF World, OrphanEnds, AgeOut, ExpireSummary, NewDay, shared, vars
<1> QED
  BY <1>1, WorkerBudget DEF Next

LEMMA CommitLeaves ==
    ASSUME TypeOK, NEW w \in Workers, pc[w] = "commit",
           Process(w) \/ Timeout(w) \/ FailArticle(w)
    PROVE  pc'[w] = "next"
BY DEF Process, LoadArticle, Jaccard, Semantic, CheckCache, WriteAndCommit, Committed, AnswerOK,
       FallbackAnswer, Flush, SetCache, Charge, Commit, Timeout, FailArticle, Settle, Goto,
       TypeOK

LEMMA ClaimType ==
    ASSUME TypeOK, NEW w \in Workers
    PROVE  /\ Claim(w) \in Int
           /\ FlagsOf(w) => Claim(w) >= 0
BY RoomTypes DEF Claim, FlagsOf

LEMMA NextClaimType ==
    ASSUME TypeOK', NEW w \in Workers
    PROVE  Claim(w)' \in Int
<1>1. Cardinality(todo'[w]) \in Nat
  BY SetsAssumption, FS_Subset, FS_CardinalityType DEF TypeOK
<1>2. ctx'[w].limit \in Int
  BY DEF TypeOK
<1> QED
  BY <1>1, <1>2 DEF Claim

(***************************************************************************)
(* What a step of w does to its claim: it ends with the run, opens at      *)
(* ReadBudget, pays one at Charge, and never grows in between.             *)
(***************************************************************************)
Rests(w) == /\ pc'[w] \notin Claiming
            /\ pc'[w] # "idle" => ctx'[w].flags \in FlagChoices
            /\ UNCHANGED budget
SameRun(w) == /\ pc[w] \in Claiming /\ pc'[w] \in Claiming \ {"select"}
              /\ ctx'[w].flags = ctx[w].flags /\ ctx'[w].day = ctx[w].day
Keeps(w) == SameRun(w) /\ Claim(w)' <= Claim(w) /\ UNCHANGED budget
Pays(w)  == SameRun(w) /\ Claim(w) >= 1 /\ Claim(w)' = Claim(w) - 1 /\ Charge(w)
Opens(w) == /\ pc'[w] = "select"
            /\ ctx'[w].flags = ctx[w].flags /\ ctx'[w].day = today
            /\ ctx'[w].limit >= 0 /\ budget[today] + ctx'[w].limit <= Limit(w)
            /\ ctx[w].flags \in FlagChoices
            /\ UNCHANGED budget

LEMMA ProcessClaim ==
    ASSUME TypeOK, NEW w \in Workers, Process(w) \/ Timeout(w) \/ FailArticle(w)
    PROVE  Keeps(w) \/ Pays(w)
<1>1. MovesOn(w) /\ (pc[w] = "commit" => pc'[w] = "next")
  BY ProcessMoves, CommitLeaves
<1>2. /\ todo'[w] = todo[w] /\ ctx'[w] = ctx[w] /\ pc[w] \in InTry
      /\ pc'[w] \in InTry \cup {"next"}
  BY <1>1 DEF MovesOn, Stays, Leaves
<1>3. SameRun(w)
  BY <1>2 DEF SameRun, Claiming, InTry
<1>4. Cardinality(todo[w]) \in Nat /\ Cardinality(todo'[w]) = Cardinality(todo[w])
  BY <1>2, RoomTypes
<1>5. CASE Charge(w)
  <2>1. pc[w] = "incr" /\ pc'[w] \in {"next", "commit"}
    BY <1>5 DEF Charge, Settle, Goto, TypeOK
  <2> QED
    BY <1>3, <1>4, <1>5, <2>1 DEF Pays, Claim, InTry
<1>6. CASE ~Charge(w)
  <2>1. UNCHANGED budget
    BY <1>6, WorkerBudget DEF Trouble
  <2>2. Claim(w)' <= Claim(w)
    BY <1>1, <1>2, <1>4 DEF Claim, InTry
  <2> QED
    BY <1>3, <2>1, <2>2 DEF Keeps
<1> QED
  BY <1>5, <1>6

LEMMA AroundClaim ==
    ASSUME TypeOK, SaneSlices, NEW w \in Workers, FlagsOf(w), Around(w)
    PROVE  Rests(w) \/ Keeps(w) \/ Opens(w)
<1>0. UNCHANGED budget
  BY DEF Around, ReadFlags, ReadBudget, SelectBatch, LoadRecent, TakeNext, Finish, shared
<1>1. CASE EndRun(w)
  BY <1>0, <1>1 DEF EndRun, Goto, TypeOK, Rests, Claiming, InTry
<1>2. CASE ReadFlags(w)
  <2>1. PICK f \in FlagChoices \cup {SafeDefaults} :
           IF f.summarize_enabled
           THEN Goto(w, "budget") /\ ctx' = [ctx EXCEPT ![w].flags = f]
           ELSE UNCHANGED <<pc, ctx>>
    BY <1>2 DEF ReadFlags
  <2>2. CASE ~f.summarize_enabled
    <3>1. pc'[w] = "idle"
      BY <1>2, <2>1, <2>2 DEF ReadFlags
    <3> QED
      BY <1>0, <3>1 DEF Rests, Claiming, InTry
  <2>3. CASE f.summarize_enabled
    <3>1. f \in FlagChoices
      BY <2>3 DEF SafeDefaults
    <3>2. pc'[w] = "budget" /\ ctx'[w].flags = f
      BY <2>1, <2>3 DEF Goto, TypeOK
    <3> QED
      BY <1>0, <3>1, <3>2 DEF Rests, Claiming, InTry
  <2> QED
    BY <2>2, <2>3
<1>3. CASE ReadBudget(w) /\ ~EndRun(w)
  <2> DEFINE f == ctx[w].flags
             remaining == f.max_daily_summaries - budget[today]
             k == IF f.top_n <= remaining THEN f.top_n ELSE remaining
  <2>1. /\ ~(remaining <= 0) /\ Goto(w, "select")
        /\ ctx' = [ctx EXCEPT ![w].day = today, ![w].limit = k]
    BY <1>3 DEF ReadBudget
  <2>2. f \in FlagChoices
    BY <1>3 DEF ReadBudget, FlagsOf
  <2>3. /\ f.top_n \in Int /\ f.top_n >= 0 /\ f.max_daily_summaries \in Int
        /\ today \in Days /\ budget[today] \in Nat
    BY <2>2, RoomTypes DEF SaneSlices, Flags, TypeOK
  <2>4. k >= 0 /\ budget[today] + k <= f.max_daily_summaries
    BY <2>1, <2>3
  <2>5. /\ pc'[w] = "select" /\ ctx'[w].flags = f /\ ctx'[w].day = today
        /\ ctx'[w].limit = k
    BY <2>1 DEF Goto, TypeOK
  <2> HIDE DEF k
  <2> QED
    BY <1>0, <2>2, <2>4, <2>5 DEF Opens, Limit
<1>4. CASE SelectBatch(w) /\ ~EndRun(w)
  <2>1. PICK batch \in kSubset(SliceLen(Cardinality(Candidates), ctx[w].limit), Candidates) :
            /\ todo' = [todo EXCEPT ![w] = batch]
            /\ ctx' = [ctx EXCEPT ![w].total = Cardinality(batch)]
    BY <1>4 DEF SelectBatch
  <2>2. ctx[w].limit \in Nat
    BY <1>4, RoomTypes DEF SelectBatch, FlagsOf
  <2>3. Cardinality(Candidates) \in Nat
    BY SetsAssumption, FS_Subset, FS_CardinalityType DEF Candidates, Pending
  <2>4. Cardinality(batch) <= ctx[w].limit
    BY <2>2, <2>3, SliceBound DEF kSubset
  <2>5. /\ pc[w] = "select" /\ pc'[w] = "titles" /\ todo'[w] = batch
        /\ ctx'[w].flags = ctx[w].flags /\ ctx'[w].day = ctx[w].day
    BY <1>4, <2>1 DEF SelectBatch, Goto, TypeOK
  <2>6. batch \subseteq Articles
    BY DEF kSubset, Candidates, Pending
  <2>7. Cardinality(batch) \in Nat
    BY <2>6, SetsAssumption, FS_Subset, FS_CardinalityType
  <2>8. Claim(w)' <= Claim(w)
    BY <2>2, <2>4, <2>5, <2>7 DEF Claim, InTry
  <2> QED
    BY <1>0, <2>5, <2>8 DEF Keeps, SameRun, Claiming
<1>5. CASE LoadRecent(w)
  <2>1. /\ pc[w] = "titles" /\ pc'[w] = "next" /\ todo'[w] = todo[w]
        /\ ctx'[w].flags = ctx[w].flags /\ ctx'[w].day = ctx[w].day
    BY <1>5 DEF LoadRecent, Goto, TypeOK
  <2> QED
    BY <1>0, <2>1, RoomTypes DEF Keeps, SameRun, Claim, Claiming, InTry
<1>6. CASE TakeNext(w)
  <2>1. PICK a \in todo[w] : todo'[w] = todo[w] \ {a}
    BY <1>6 DEF TakeNext, TypeOK
  <2>2. Cardinality(todo'[w]) = Cardinality(todo[w]) - 1
    BY <2>1, TodoFinite, FS_RemoveElement
  <2>3. pc[w] = "next" /\ pc'[w] = "load" /\ ctx'[w] = ctx[w]
    BY <1>6 DEF TakeNext, Goto, TypeOK
  <2> QED
    BY <1>0, <2>2, <2>3, RoomTypes DEF Keeps, SameRun, Claim, Claiming, InTry
<1> QED
  BY <1>1, <1>2, <1>3, <1>4, <1>5, <1>6 DEF Around, Finish

LEMMA ClaimStep ==
    ASSUME TypeOK, SaneSlices, NEW w \in Workers, FlagsOf(w),
           Around(w) \/ Process(w) \/ Trouble(w)
    PROVE  Rests(w) \/ Keeps(w) \/ Opens(w) \/ Pays(w)
<1>1. CASE EscapedError(w) \/ Crash(w)
  BY <1>1 DEF EscapedError, Crash, EndRun, Goto, TypeOK, Rests, Claiming, InTry,
              shared
<1> QED
  BY <1>1, AroundClaim, ProcessClaim DEF Trouble

LEMMA StepFlagsInv ==
    ASSUME TypeOK, FlagsInv, SaneSlices, [Next]_vars
    PROVE  FlagsInv'
<1> SUFFICES ASSUME NEW w \in Workers PROVE FlagsOf(w)'
  BY DEF FlagsInv
<1>0. FlagsOf(w)
  BY DEF FlagsInv
<1>1. CASE ~(Around(w) \/ Process(w) \/ Trouble(w))
  BY <1>0, <1>1, OthersKeep DEF FlagsOf
<1>2. CASE Around(w) \/ Process(w) \/ Trouble(w)
  <2>1. Rests(w) \/ Keeps(w) \/ Opens(w) \/ Pays(w)
    BY <1>0, <1>2, ClaimStep
  <2> QED
    BY <1>0, <2>1 DEF Rests, Keeps, Opens, Pays, SameRun, FlagsOf, Claiming, InTry
<1> QED
  BY <1>1, <1>2

LEMMA StepRoomInv ==
    ASSUME TypeOK, TypeOK', RoomInv, Solo, SaneSlices, [Next]_vars
    PROVE  RoomInv'
<1> PICK w \in Workers : Workers = {w}
  BY DEF Solo
<1>0. FlagsOf(w) /\ RoomOf(w) /\ FlagsInv'
  BY StepFlagsInv DEF RoomInv, FlagsInv
<1> SUFFICES RoomOf(w)'
  BY <1>0 DEF RoomInv
<1>1. CASE World \/ UNCHANGED vars
  BY <1>0, <1>1 DEF World, OrphanEnds, AgeOut, ExpireSummary, NewDay, run, shared, vars,
                    RoomOf, Spent, Limit, Claim
<1>2. CASE Around(w) \/ Process(w) \/ Trouble(w)
  <2>1. CASE Rests(w)
    BY <2>1 DEF Rests, RoomOf
  <2>2. CASE Opens(w)
    BY <2>2 DEF Opens, RoomOf, Spent, Limit, Claim
  <2>3. CASE Keeps(w)
    <3>1. Spent(w) + Claim(w) <= Limit(w) /\ Limit(w)' = Limit(w) /\ Spent(w)' = Spent(w)
      BY <1>0, <2>3 DEF Keeps, SameRun, RoomOf, Limit, Spent
    <3>2. Claim(w) \in Int /\ Claim(w)' \in Int /\ Spent(w) \in Nat /\ Limit(w) \in Int
      BY ClaimType, NextClaimType, RoomTypes
    <3> QED
      BY <2>3, <3>1, <3>2 DEF Keeps, RoomOf
  <2>4. CASE Pays(w)
    <3>1. Spent(w) + Claim(w) <= Limit(w) /\ Limit(w)' = Limit(w)
      BY <1>0, <2>4 DEF Pays, SameRun, RoomOf, Limit
    <3>2. Spent(w)' = Spent(w) + 1
      BY <2>4, RoomTypes DEF Pays, SameRun, Charge, Spent, TypeOK
    <3>3. Claim(w) \in Int /\ Spent(w) \in Nat /\ Limit(w) \in Int
      BY ClaimType, RoomTypes
    <3> QED
      BY <2>4, <3>1, <3>2, <3>3 DEF Pays, RoomOf
  <2> QED
    BY <1>0, <1>2, <2>1, <2>2, <2>3, <2>4, ClaimStep
<1> QED
  BY <1>1, <1>2 DEF Next

-----------------------------------------------------------------------------
(* A step past "load" keeps the article in hand unpublished. *)
LEMMA StepFirstInv ==
    ASSUME TypeOK, GroundInv, FirstInv, Solo, [Next]_vars
    PROVE  FirstInv'
<1> PICK w \in Workers : Workers = {w}
  BY DEF Solo
<1> SUFFICES FirstOf(w)'
  BY DEF FirstInv
<1>0. FirstOf(w)
  BY DEF FirstInv
<1>1. CASE pc'[w] \notin InTry
  BY <1>1 DEF FirstOf, HasDraft, Locked, InTry
<1>2. CASE pc'[w] \in InTry
  <2>1. UNCHANGED row
    <3>1. ~Commits(w)
      BY <1>2 DEF Commits, Settle, Goto, TypeOK, InTry
    <3> QED
      BY <3>1, RowStep
  <2>2. \A t : Copied(t) => Copied(t)'
    BY <2>1 DEF Copied
  <2>3. ASSUME pc'[w] \in HasDraft
        PROVE  draft'[w].text \in OwnTexts(cur'[w]) \/ \A t : t = draft'[w].text => Copied(t)'
    <3>1. CASE SameDraft(w)
      BY <1>0, <2>2, <3>1 DEF SameDraft, FirstOf
    <3>2. CASE NewDraft(w)
      BY <2>2, <3>2 DEF NewDraft, Sourced
    <3> QED
      BY <2>3, <3>1, <3>2, DraftStep DEF NoDraftAfter
  <2>4. ASSUME pc'[w] # "load"
        PROVE  ~row'[cur'[w]].summarized
    <3>1. CASE LoadArticle(w)
      <4>1. ~row[cur[w]].summarized
        BY <1>2, <3>1 DEF LoadArticle, Settle, Goto, TypeOK, InTry
      <4>2. cur' = cur
        BY <3>1, <4>1 DEF LoadArticle
      <4> QED
        BY <2>1, <4>1, <4>2
    <3>2. CASE (Process(w) \/ Timeout(w) \/ FailArticle(w)) /\ ~LoadArticle(w)
      <4>1. MovesOn(w)
        BY <3>2, ProcessMoves
      <4>2. cur'[w] = cur[w] /\ pc[w] \in InTry
        BY <1>2, <4>1 DEF MovesOn, Stays, Leaves, InTry
      <4>3. pc[w] # "load"
        BY <1>2, <3>2 DEF Process, Jaccard, Semantic, CheckCache, WriteAndCommit, Committed, AnswerOK,
           FallbackAnswer, Flush, SetCache, Charge, Commit, Timeout, FailArticle, Settle,
           Goto, TypeOK, InTry
      <4> QED
        BY <1>0, <2>1, <4>2, <4>3 DEF FirstOf
    <3>3. CASE Around(w)
      BY <1>2, <2>4, <3>3 DEF Around, ReadFlags, ReadBudget, SelectBatch, LoadRecent,
         TakeNext, Finish, EndRun, Goto, TypeOK, InTry
    <3>4. CASE EscapedError(w) \/ Crash(w)
      BY <1>2, <3>4 DEF EscapedError, Crash, EndRun, Goto, TypeOK, InTry
    <3>5. CASE World \/ UNCHANGED vars
      BY <1>0, <1>2, <2>1, <2>4, <3>5 DEF World, OrphanEnds, AgeOut, ExpireSummary, NewDay,
         run, vars, FirstOf
    <3> QED
      BY <3>1, <3>2, <3>3, <3>4, <3>5 DEF Next, Trouble, Process
  <2> QED
    BY <2>3, <2>4 DEF FirstOf, OwnTexts
<1> QED
  BY <1>1, <1>2

-----------------------------------------------------------------------------
(***************************************************************************)
(* The refinement mapping, step by step.                                   *)
(***************************************************************************)
Readable(a) == IF row[a].summarized THEN row[a].text ELSE NoText

LEMMA InitRefines == Init => Ledger!Init
BY DEF Init, Ledger!Init

(* A commit publishes the article in hand. *)
LEMMA CommitRefines ==
    ASSUME TypeOK, TypeOK', GroundInv, FirstInv, NEW w \in Workers, Commits(w),
           NEW a \in Articles, a = cur[w]
    PROVE  Ledger!Publish(a)
<1> DEFINE new == Written(a, draft[w])
<1>1. /\ ~row[a].summarized
      /\ draft[w].text \in OwnTexts(a) \/ Copied(draft[w].text)
  BY DEF Commits, InTry, FirstInv, FirstOf, HasDraft, Locked
<1>2. row[a].text = Raw(a)
  BY <1>1 DEF GroundInv, PendingInv
<1>3. new.summarized /\ new.text = draft[w].text
  BY <1>2, WrittenParts
<1>4. row' = [row EXCEPT ![a] = new]
  BY DEF Commits
<1>5. new.text \in Text
  <2>1. new = row'[a]
    BY <1>1, <1>4 DEF TypeOK
  <2> QED
    BY <1>1, <2>1 DEF TypeOK
<1>6. Readable(a) = NoText
  BY <1>1 DEF Readable
<1>7. new.text # NoText
  BY <1>5, NoTextAssumption
<1>8. new.text \in OwnTexts(a) \cup {Readable(b) : b \in Articles}
  BY <1>1, <1>3 DEF Copied, Readable
<1>9. [b \in Articles |-> IF row'[b].summarized THEN row'[b].text ELSE NoText]
        = [[b \in Articles |-> Readable(b)] EXCEPT ![a] = new.text]
  <2>1. \A b \in Articles : row'[b] = IF b = a THEN new ELSE row[b]
    BY <1>1, <1>4 DEF TypeOK
  <2> HIDE DEF new
  <2> QED
    BY <1>1, <1>3, <2>1 DEF Readable
<1>10. UNCHANGED budget
  BY DEF Commits
<1> HIDE DEF new
<1> QED
  BY <1>1, <1>6, <1>7, <1>8, <1>9, <1>10 DEF Ledger!Publish, Readable

(* A charge is one below the limit the run has read. *)
LEMMA ChargeRefines ==
    ASSUME TypeOK, RoomInv, NEW w \in Workers, Charge(w)
    PROVE  Ledger!Charge(ctx[w].day)
<1>1. /\ ctx[w].flags \in FlagChoices
      /\ Spent(w) + (Cardinality(todo[w]) + 1) <= Limit(w)
  BY DEF RoomInv, RoomOf, FlagsInv, FlagsOf, Claim, Claiming, Charge, InTry
<1>2. Spent(w) < Limit(w)
  BY <1>1, RoomTypes
<1>3. budget' = [budget EXCEPT ![ctx[w].day] = @ + 1] /\ UNCHANGED row
  BY DEF Charge
<1> QED
  BY <1>1, <1>2, <1>3 DEF Ledger!Charge, Spent, Limit

LEMMA StepRefines ==
    ASSUME TypeOK, TypeOK', GroundInv, RoomInv, FirstInv, [Next]_vars
    PROVE  [Ledger!Next]_(Ledger!vars)
<1>1. ASSUME NEW w \in Workers, Commits(w)
      PROVE  Ledger!Next
  <2>1. PICK a \in Articles : a = cur[w]
    BY <1>1, HandType DEF Commits, InTry
  <2>2. Ledger!Publish(a)
    BY <1>1, <2>1, CommitRefines
  <2> QED
    BY <2>1, <2>2 DEF Ledger!Next
<1>2. ASSUME NEW w \in Workers, Charge(w)
      PROVE  Ledger!Next
  BY <1>2, ChargeRefines, RoomTypes DEF Ledger!Next
<1>3. CASE UNCHANGED <<row, budget>>
  BY <1>3 DEF Ledger!vars
<1> QED
  BY <1>1, <1>2, <1>3, RowStep, BudgetStep

(* One worker whose slices are not negative publishes every summary once,  *)
(* never rewrites it, takes it from the article or from a published one,   *)
(* and charges a day only while a configured limit leaves room.            *)
THEOREM SoloImplementsLedger ==
    ASSUME Solo, SaneSlices
    PROVE  Spec => LedgerSpec
<1>1. TypeOK /\ TypeOK' /\ GroundInv /\ RoomInv /\ FirstInv /\ [Next]_vars
        => RoomInv' /\ FirstInv'
  BY StepRoomInv, StepFirstInv
<1>2. TypeOK /\ GroundInv /\ [Next]_vars => GroundInv'
  BY StepGroundInv
<1>3. TypeOK /\ TypeOK' /\ GroundInv /\ RoomInv /\ FirstInv /\ [Next]_vars
        => [Ledger!Next]_(Ledger!vars)
  BY StepRefines
<1> QED
  BY <1>1, <1>2, <1>3, InitSolo, InitGroundInv, InitRefines, Typing, PTL
     DEF Spec, LedgerSpec, Ledger!Spec

-----------------------------------------------------------------------------
(***************************************************************************)
(* Any number of workers.  The runs of a day hold one voucher for every    *)
(* charge they may still make; the counter and the vouchers together never *)
(* exceed the limit once per worker, for the largest limit some run has    *)
(* read: a run that opens adds to what the counter held at that moment no  *)
(* more than its limit, whatever the other workers still hold.             *)
(***************************************************************************)
Vouchers(d) == {p \in Workers \X (Nat \ {0}) : /\ pc[p[1]] \in Claiming
                                               /\ ctx[p[1]].day = d
                                               /\ p[2] <= Claim(p[1])}
Bounded(d, m) == /\ m \in Nat
                 /\ Vouchers(d) \subseteq Workers \X (1..m)
                 /\ budget[d] + Cardinality(Vouchers(d)) <= Cardinality(Workers) * m
OvershootOf(d) == \/ budget[d] = 0 /\ Vouchers(d) = {}
                  \/ \E f \in FlagChoices : Bounded(d, f.max_daily_summaries)
OvershootInv == FlagsInv /\ \A d \in Days : OvershootOf(d)

LEMMA InitOvershoot == Init => OvershootInv
<1> SUFFICES ASSUME Init PROVE OvershootInv
  OBVIOUS
<1>1. \A w \in Workers : pc[w] = "idle"
  BY DEF Init
<1>2. FlagsInv
  BY <1>1 DEF FlagsInv, FlagsOf
<1>3. \A d \in Days : budget[d] = 0 /\ Vouchers(d) = {}
  BY <1>1 DEF Init, Vouchers, Claiming, InTry
<1> QED
  BY <1>2, <1>3 DEF OvershootInv, OvershootOf

LEMMA SquareFinite ==
    ASSUME NEW m \in Nat
    PROVE  IsFiniteSet(Workers \X (1..m))
<1>1. IsFiniteSet(1..m)
  BY FS_Interval
<1>2. IsFiniteSet(Workers)
  BY SetsAssumption
<1> QED
  BY ONLY <1>1, <1>2, FS_Product, Zenon

(* Fewer vouchers and the same counter: the bound stands. *)
LEMMA FewerVouchers ==
    ASSUME TypeOK, NEW d \in Days, OvershootOf(d),
           Vouchers(d)' \subseteq Vouchers(d), budget'[d] = budget[d]
    PROVE  OvershootOf(d)'
<1>1. CASE budget[d] = 0 /\ Vouchers(d) = {}
  BY <1>1 DEF OvershootOf
<1>2. CASE \E f \in FlagChoices : Bounded(d, f.max_daily_summaries)
  <2>1. PICK f \in FlagChoices : Bounded(d, f.max_daily_summaries)
    BY <1>2
  <2>2. PICK m : m = f.max_daily_summaries
    OBVIOUS
  <2>3. m \in Nat /\ Vouchers(d) \subseteq Workers \X (1..m)
        /\ budget[d] + Cardinality(Vouchers(d)) <= Cardinality(Workers) * m
    BY <2>1, <2>2 DEF Bounded
  <2>4. IsFiniteSet(Vouchers(d))
    BY <2>3, SquareFinite, FS_Subset
  <2>5. /\ Cardinality(Vouchers(d)) \in Nat /\ Cardinality(Vouchers(d)') \in Nat
        /\ Cardinality(Vouchers(d)') <= Cardinality(Vouchers(d))
    BY <2>4, FS_Subset, FS_CardinalityType
  <2>6. budget[d] \in Nat /\ Cardinality(Workers) * m \in Nat
    BY <2>3, SetsAssumption, FS_CardinalityType DEF TypeOK
  <2>7. budget'[d] + Cardinality(Vouchers(d)') <= Cardinality(Workers) * m
    BY <2>3, <2>5, <2>6
  <2> QED
    BY <2>2, <2>3, <2>7 DEF OvershootOf, Bounded
<1> QED
  BY <1>1, <1>2 DEF OvershootOf

(* A charge hands in the last voucher of its run. *)
LEMMA ChargeOvershoot ==
    ASSUME TypeOK, NEW d \in Days, OvershootOf(d), NEW w \in Workers, ctx[w].day = d,
           pc[w] \in Claiming, Claim(w) >= 1,
           Vouchers(d)' \subseteq Vouchers(d) \ {<<w, Claim(w)>>},
           budget'[d] = budget[d] + 1
    PROVE  OvershootOf(d)'
<1>1. <<w, Claim(w)>> \in Vouchers(d)
  BY ClaimType DEF Vouchers
<1>2. PICK f \in FlagChoices : Bounded(d, f.max_daily_summaries)
  BY <1>1 DEF OvershootOf
<1>3. PICK m : m = f.max_daily_summaries
  OBVIOUS
<1>4. m \in Nat /\ Vouchers(d) \subseteq Workers \X (1..m)
      /\ budget[d] + Cardinality(Vouchers(d)) <= Cardinality(Workers) * m
  BY <1>2, <1>3 DEF Bounded
<1>5. IsFiniteSet(Vouchers(d)) /\ Cardinality(Vouchers(d)) \in Nat
  BY <1>4, SquareFinite, FS_Subset, FS_CardinalityType
<1>6. /\ IsFiniteSet(Vouchers(d) \ {<<w, Claim(w)>>})
      /\ Cardinality(Vouchers(d) \ {<<w, Claim(w)>>}) = Cardinality(Vouchers(d)) - 1
  BY <1>1, <1>5, FS_RemoveElement
<1>7. /\ Cardinality(Vouchers(d)') \in Nat
      /\ Cardinality(Vouchers(d)') <= Cardinality(Vouchers(d)) - 1
  BY <1>6, FS_Subset, FS_CardinalityType
<1>8. budget[d] \in Nat /\ Cardinality(Workers) * m \in Nat
  BY <1>4, SetsAssumption, FS_CardinalityType DEF TypeOK
<1>9. budget'[d] + Cardinality(Vouchers(d)') <= Cardinality(Workers) * m
  BY <1>4, <1>5, <1>7, <1>8
<1> QED
  BY <1>3, <1>4, <1>9 DEF OvershootOf, Bounded

LEMMA OneRowMore ==
    ASSUME NEW n \in Nat, n >= 1, NEW m \in Nat
    PROVE  (n - 1) * m + m = n * m
OBVIOUS

(* A run opens: its vouchers come to those of the other workers. *)
LEMMA OpenOvershoot ==
    ASSUME TypeOK, NEW d \in Days, NEW w \in Workers, NEW m \in Nat, NEW k \in Nat,
           NEW f \in FlagChoices, m = f.max_daily_summaries,
           budget'[d] = budget[d], budget[d] + k <= m,
           Vouchers(d)' \subseteq ((Workers \ {w}) \X (1..m)) \cup ({w} \X (1..k))
    PROVE  OvershootOf(d)'
<1> DEFINE others == (Workers \ {w}) \X (1..m)
           own    == {w} \X (1..k)
<1>1. budget[d] \in Nat
  BY DEF TypeOK
<1>2. ASSUME NEW i \in Nat
      PROVE  IsFiniteSet(1..i) /\ Cardinality(1..i) = i
  <2>1. 1 \in Int /\ i \in Int
    OBVIOUS
  <2>2. IsFiniteSet(1..i) /\ Cardinality(1..i) = IF 1 > i THEN 0 ELSE i - 1 + 1
    BY ONLY <2>1, FS_Interval
  <2> QED
    BY <2>2
<1>3. PICK n \in Nat : n = Cardinality(Workers)
  BY SetsAssumption, FS_CardinalityType
<1>4. IsFiniteSet(Workers \ {w}) /\ Cardinality(Workers \ {w}) = n - 1
  BY <1>3, SetsAssumption, FS_RemoveElement
<1>5. n - 1 \in Nat
  BY <1>4, FS_CardinalityType
<1>6. IsFiniteSet(others) /\ Cardinality(others) = (n - 1) * m
  <2>1. /\ IsFiniteSet(others)
        /\ Cardinality(others) = Cardinality(Workers \ {w}) * Cardinality(1..m)
    BY <1>2, <1>4, FS_Product, Zenon
  <2> QED
    BY <1>2, <1>4, <2>1
<1>7. IsFiniteSet({w}) /\ Cardinality({w}) = 1
  BY FS_Singleton
<1>8. IsFiniteSet(own) /\ Cardinality(own) = k
  <2>1. IsFiniteSet(own) /\ Cardinality(own) = Cardinality({w}) * Cardinality(1..k)
    BY <1>2, <1>7, FS_Product, Zenon
  <2> QED
    BY <1>2, <1>7, <2>1
<1>9. /\ IsFiniteSet(others \cup own)
      /\ Cardinality(others \cup own)
           = Cardinality(others) + Cardinality(own) - Cardinality(others \cap own)
  BY <1>6, <1>8, FS_Union
<1>10. Cardinality(others \cap own) \in Nat
  BY <1>6, FS_Subset, FS_CardinalityType
<1>11. /\ Cardinality(Vouchers(d)') \in Nat
       /\ Cardinality(Vouchers(d)') <= Cardinality(others \cup own)
  BY <1>9, FS_Subset, FS_CardinalityType
<1>12. Vouchers(d)' \subseteq Workers \X (1..m)
  <2>1. 1..k \subseteq 1..m
    BY <1>1
  <2> QED
    BY <2>1, Zenon
<1> HIDE DEF others, own
<1>13. (n - 1) * m \in Nat /\ (n - 1) * m + m = n * m
  BY <1>5, OneRowMore
<1>14. PICK rest \in Nat : rest = (n - 1) * m
  BY <1>13
<1>15. Cardinality(Vouchers(d)') <= rest + k
  BY <1>6, <1>8, <1>9, <1>10, <1>11, <1>14
<1>16. budget'[d] + Cardinality(Vouchers(d)') <= rest + m
  BY <1>1, <1>11, <1>15
<1>17. budget'[d] + Cardinality(Vouchers(d)') <= Cardinality(Workers) * m
  BY <1>3, <1>13, <1>14, <1>16
<1> QED
  BY <1>12, <1>17 DEF OvershootOf, Bounded

(***************************************************************************)
(* What a step leaves of the vouchers of a day, compared worker by worker: *)
(* HeldBy(v, d) are the numbers on those that v holds.                     *)
(***************************************************************************)
HeldBy(v, d) == {i \in Nat \ {0} : pc[v] \in Claiming /\ ctx[v].day = d /\ i <= Claim(v)}

LEMMA VouchersAre ==
    ASSUME NEW d
    PROVE  /\ Vouchers(d) = {p \in Workers \X (Nat \ {0}) : p[2] \in HeldBy(p[1], d)}
           /\ Vouchers(d)' = {p \in Workers \X (Nat \ {0}) : p[2] \in HeldBy(p[1], d)'}
BY DEF Vouchers, HeldBy

LEMMA FewerHeld ==
    ASSUME NEW d, \A v \in Workers : HeldBy(v, d)' \subseteq HeldBy(v, d)
    PROVE  Vouchers(d)' \subseteq Vouchers(d)
BY VouchersAre

(* A worker that rests or keeps its run gets no new vouchers, and one that *)
(* pays hands in the last one.                                             *)
LEMMA KeepsHeld ==
    ASSUME TypeOK, TypeOK', NEW w \in Workers, Rests(w) \/ Keeps(w) \/ Pays(w), NEW d
    PROVE  /\ HeldBy(w, d)' \subseteq HeldBy(w, d)
           /\ Pays(w) => Claim(w) \notin HeldBy(w, d)'
<1>1. Claim(w) \in Int /\ Claim(w)' \in Int
  BY ClaimType, NextClaimType
<1> QED
  BY <1>1 DEF HeldBy, Rests, Keeps, Pays, SameRun

LEMMA PayOvershoot ==
    ASSUME TypeOK, TypeOK', NEW d \in Days, OvershootOf(d), NEW w \in Workers, Pays(w),
           \A v \in Workers \ {w} : HeldBy(v, d)' = HeldBy(v, d)
    PROVE  OvershootOf(d)'
<1>1. budget' = [budget EXCEPT ![ctx[w].day] = @ + 1] /\ ctx[w].day \in Days
  BY RoomTypes DEF Pays, Charge
<1>2. \A v \in Workers : HeldBy(v, d)' \subseteq HeldBy(v, d)
  BY KeepsHeld
<1>3. Vouchers(d)' \subseteq Vouchers(d)
  BY <1>2, FewerHeld
<1>4. CASE ctx[w].day # d
  <2>1. budget'[d] = budget[d]
    BY <1>1, <1>4 DEF TypeOK
  <2> QED
    BY <1>3, <2>1, FewerVouchers
<1>5. CASE ctx[w].day = d
  <2>1. budget'[d] = budget[d] + 1
    BY <1>1, <1>5 DEF TypeOK
  <2>2. <<w, Claim(w)>> \notin Vouchers(d)'
    BY KeepsHeld, VouchersAre
  <2>3. Vouchers(d)' \subseteq Vouchers(d) \ {<<w, Claim(w)>>}
    BY <1>3, <2>2
  <2>4. pc[w] \in Claiming /\ Claim(w) >= 1
    BY DEF Pays, SameRun
  <2> QED
    BY <1>5, <2>1, <2>3, <2>4, ChargeOvershoot
<1> QED
  BY <1>4, <1>5

LEMMA OpensOvershoot ==
    ASSUME TypeOK, TypeOK', NEW d \in Days, OvershootOf(d), NEW w \in Workers, Opens(w),
           \A v \in Workers \ {w} : HeldBy(v, d)' = HeldBy(v, d)
    PROVE  OvershootOf(d)'
<1>1. budget'[d] = budget[d] /\ budget[d] \in Nat
  BY DEF Opens, TypeOK
<1>2. CASE d # today
  <2>1. HeldBy(w, d)' = {}
    BY <1>2 DEF Opens, HeldBy
  <2>2. Vouchers(d)' \subseteq Vouchers(d)
    BY <2>1, FewerHeld
  <2> QED
    BY <1>1, <2>2, FewerVouchers
<1>3. CASE d = today
  <2>1. PICK k : k = ctx'[w].limit
    OBVIOUS
  <2>2. k \in Nat
    BY <2>1 DEF Opens, TypeOK
  <2>3. PICK own \in FlagChoices : own = ctx[w].flags
    BY DEF Opens
  <2>4. own.max_daily_summaries \in Int /\ budget[d] + k <= own.max_daily_summaries
    BY <1>3, <2>1, <2>3, RoomTypes DEF Opens, Limit
  <2>5. HeldBy(w, d)' \subseteq 1..k
    BY <2>1, <2>2 DEF Opens, HeldBy, Claim
  <2>6. PICK f \in FlagChoices :
          /\ f.max_daily_summaries \in Nat /\ budget[d] + k <= f.max_daily_summaries
          /\ Vouchers(d) \subseteq Workers \X (1..f.max_daily_summaries)
    <3>1. own.max_daily_summaries \in Nat
      BY <1>1, <2>2, <2>4
    <3>2. CASE Vouchers(d) = {}
      BY <2>4, <3>1, <3>2
    <3>3. CASE Vouchers(d) # {}
      <4>1. PICK g \in FlagChoices : Bounded(d, g.max_daily_summaries)
        BY <3>3 DEF OvershootOf
      <4>2. PICK m : m = g.max_daily_summaries
        OBVIOUS
      <4>3. m \in Nat /\ Vouchers(d) \subseteq Workers \X (1..m)
        BY <4>1, <4>2 DEF Bounded
      <4>4. PICK n \in Nat : n = own.max_daily_summaries
        BY <3>1
      <4>5. CASE n <= m
        <5>1. budget[d] + k <= m
          BY <1>1, <2>2, <2>4, <4>3, <4>4, <4>5
        <5> QED
          BY <4>2, <4>3, <5>1
      <4>6. CASE ~(n <= m)
        <5>1. 1..m \subseteq 1..n
          BY <4>3, <4>6
        <5>2. Vouchers(d) \subseteq Workers \X (1..n)
          BY <4>3, <5>1, Zenon
        <5> QED
          BY <2>4, <4>4, <5>2
      <4> QED
        BY <4>5, <4>6
    <3> QED
      BY <3>2, <3>3
  <2>7. PICK m \in Nat : m = f.max_daily_summaries
    BY <2>6
  <2>8. ASSUME NEW p \in Vouchers(d)'
        PROVE  p \in ((Workers \ {w}) \X (1..m)) \cup ({w} \X (1..k))
    <3>1. p \in Workers \X (Nat \ {0}) /\ p[2] \in HeldBy(p[1], d)'
      BY VouchersAre
    <3>2. CASE p[1] = w
      BY <2>5, <3>1, <3>2
    <3>3. CASE p[1] # w
      <4>1. p \in Vouchers(d)
        BY <3>1, <3>3, VouchersAre
      <4> QED
        BY <2>6, <2>7, <3>3, <4>1
    <3> QED
      BY <3>2, <3>3
  <2>9. Vouchers(d)' \subseteq ((Workers \ {w}) \X (1..m)) \cup ({w} \X (1..k))
    BY <2>8
  <2>10. budget[d] + k <= m
    BY <2>6, <2>7
  <2> QED
    BY <1>1, <2>2, <2>7, <2>9, <2>10, OpenOvershoot
<1> QED
  BY <1>2, <1>3

LEMMA StepOvershoot ==
    ASSUME TypeOK, TypeOK', OvershootInv, SaneSlices, [Next]_vars
    PROVE  OvershootInv'
<1>0. FlagsInv /\ FlagsInv'
  BY StepFlagsInv DEF OvershootInv
<1> SUFFICES ASSUME NEW d \in Days PROVE OvershootOf(d)'
  BY <1>0 DEF OvershootInv
<1>1. OvershootOf(d)
  BY DEF OvershootInv
<1>2. CASE World \/ UNCHANGED vars
  <2>1. UNCHANGED <<pc, ctx, todo, budget>>
    BY <1>2 DEF World, OrphanEnds, AgeOut, ExpireSummary, NewDay, run, shared, vars
  <2>2. Vouchers(d)' = Vouchers(d)
    BY <2>1 DEF Vouchers, Claim
  <2> QED
    BY <1>1, <2>1, <2>2, FewerVouchers
<1>3. ASSUME NEW w \in Workers, Around(w) \/ Process(w) \/ Trouble(w)
      PROVE  OvershootOf(d)'
  <2>1. \A v \in Workers \ {w} : HeldBy(v, d)' = HeldBy(v, d)
    BY <1>3, OneRunMoves DEF HeldBy, Claim
  <2>2. Rests(w) \/ Keeps(w) \/ Opens(w) \/ Pays(w)
    BY <1>0, <1>3, ClaimStep DEF FlagsInv
  <2>3. CASE Rests(w) \/ Keeps(w)
    <3>1. budget'[d] = budget[d]
      BY <2>3 DEF Rests, Keeps
    <3>2. \A v \in Workers : HeldBy(v, d)' \subseteq HeldBy(v, d)
      BY <2>1, <2>3, KeepsHeld
    <3> QED
      BY <1>1, <3>1, <3>2, FewerHeld, FewerVouchers
  <2>4. CASE Pays(w)
    BY <1>1, <2>1, <2>4, PayOvershoot
  <2>5. CASE Opens(w)
    BY <1>1, <2>1, <2>5, OpensOvershoot
  <2> QED
    BY <2>2, <2>3, <2>4, <2>5
<1> QED
  BY <1>2, <1>3 DEF Next

(* However many runs overlap, and whatever flags they have read, a day's   *)
(* counter stays within the largest limit once per worker, unless a flag   *)
(* asks for a negative slice.                                              *)
THEOREM OvershootIsBounded ==
    ASSUME SaneSlices
    PROVE  Spec => []BudgetOvershootBounded
<1>1. TypeOK /\ TypeOK' /\ OvershootInv /\ [Next]_vars => OvershootInv'
  BY StepOvershoot
<1>2. TypeOK /\ OvershootInv => BudgetOvershootBounded
  <2> SUFFICES ASSUME TypeOK, OvershootInv, NEW d \in Days, budget[d] # 0
               PROVE  \E f \in FlagChoices :
                        budget[d] <= Cardinality(Workers) * f.max_daily_summaries
    BY DEF BudgetOvershootBounded
  <2>1. PICK f \in FlagChoices : Bounded(d, f.max_daily_summaries)
    BY DEF OvershootInv, OvershootOf
  <2>2. PICK m \in Nat : m = f.max_daily_summaries
    BY <2>1 DEF Bounded
  <2>3. /\ Vouchers(d) \subseteq Workers \X (1..m)
        /\ budget[d] + Cardinality(Vouchers(d)) <= Cardinality(Workers) * m
    BY <2>1, <2>2 DEF Bounded
  <2>4. Cardinality(Vouchers(d)) \in Nat
    BY <2>3, SquareFinite, FS_Subset, FS_CardinalityType
  <2>5. budget[d] \in Nat /\ Cardinality(Workers) * m \in Nat
    BY SetsAssumption, FS_CardinalityType DEF TypeOK
  <2>6. budget[d] <= Cardinality(Workers) * m
    BY <2>3, <2>4, <2>5
  <2> QED
    BY <2>2, <2>6
<1> QED
  BY <1>1, <1>2, InitOvershoot, Typing, PTL DEF Spec
================================================================================
