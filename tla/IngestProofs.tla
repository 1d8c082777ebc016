------------------------------ MODULE IngestProofs ------------------------------
(***************************************************************************)
(* Theorems about Ingest, for any workers, entries and feeds, and about    *)
(* what Fetchers makes of any feeds and categories.                        *)
(***************************************************************************)
EXTENDS FetchRounds, TLAPS, FiniteSetTheorems, SequenceTheorems

LEMMA RowType ==
    ASSUME NEW i \in Items, NEW w \in Workers
    PROVE  Row(i, w) \in Rows /\ UrlOf[i] \in Urls /\ HashOf[i] \in Hashes
BY ItemsAssumption DEF Row, Rows

LEMMA RowsTypes ==
    ASSUME NEW rows \in SUBSET Rows
    PROVE  UrlsOf(rows) \subseteq Urls /\ HashesOf(rows) \subseteq Hashes
BY DEF UrlsOf, HashesOf, Rows

LEMMA EntriesType ==
    ASSUME NEW s \in Seq(Items)
    PROVE  Entries(s) \subseteq Items
BY DEF Entries

LEMMA FirstEntry ==
    ASSUME NEW s \in Seq(Items), s # <<>>
    PROVE  /\ Head(s) \in Items /\ Tail(s) \in Seq(Items)
           /\ Entries(s) \subseteq {Head(s)} \cup Entries(Tail(s))
<1>1. Head(s) \in Items /\ Tail(s) \in Seq(Items) /\ Len(s) \in Nat \ {0}
  OBVIOUS
<1>2. ASSUME NEW n \in 1..Len(s), n # 1
      PROVE  s[n] \in Entries(Tail(s))
  <2>1. n - 1 \in 1..Len(Tail(s)) /\ Tail(s)[n - 1] = s[n]
        /\ DOMAIN Tail(s) = 1..Len(Tail(s))
    BY <1>1, <1>2
  <2> QED
    BY <2>1 DEF Entries
<1> QED
  BY <1>1, <1>2 DEF Entries

(* What w has inserted and not committed is a finite set. *)
FiniteMine == \A w \in Workers : IsFiniteSet(mine[w])
Typed == TypeOK /\ FiniteMine

LEMMA InitTyped == Init => Typed
<1> SUFFICES ASSUME Init PROVE Typed
  OBVIOUS
<1>1. FiniteMine
  BY FS_EmptySet DEF Init, FiniteMine
<1>2. /\ stored \subseteq Rows /\ logged \in Nat
      /\ pc \in [Workers -> Places] /\ left \in [Workers -> Seq(Items)]
  BY DEF Init, Places
<1>3. /\ urls \in [Workers -> SUBSET Urls] /\ hashes \in [Workers -> SUBSET Hashes]
      /\ mine \in [Workers -> SUBSET Rows] /\ saved \in [Workers -> Nat]
      /\ fetched \in [Workers -> SUBSET Items] /\ lost \in [Workers -> SUBSET Items]
  BY DEF Init
<1>4. unannounced \in BOOLEAN /\ excused \in BOOLEAN
  BY Zenon DEF Init
<1> QED
  BY <1>1, <1>2, <1>3, <1>4 DEF Typed, TypeOK

LEMMA EndRunTyped ==
    ASSUME Typed, NEW w \in Workers, EndRun(w), UNCHANGED <<stored, logged>>,
           unannounced' \in BOOLEAN, excused' \in BOOLEAN
    PROVE  Typed'
BY FS_EmptySet DEF Typed, FiniteMine, EndRun, Goto, TypeOK, Places

LEMMA SeeTyped ==
    ASSUME Typed, NEW w \in Workers, See(w), Remember(w, Head(left[w])),
           UNCHANGED <<stored, logged, unannounced, pc, saved, fetched, excused>>,
           lost' \in [Workers -> SUBSET Items],
           \/ UNCHANGED mine
           \/ mine' = [mine EXCEPT ![w] = @ \cup {Row(Head(left[w]), w)}]
    PROVE  Typed'
<1>1. left[w] \in Seq(Items) /\ left[w] # <<>>
  BY DEF See, Inserting, Typed, TypeOK
<1>2. Head(left[w]) \in Items /\ Tail(left[w]) \in Seq(Items)
  BY <1>1, FirstEntry
<1>3. /\ left' \in [Workers -> Seq(Items)]
      /\ urls' \in [Workers -> SUBSET Urls] /\ hashes' \in [Workers -> SUBSET Hashes]
  BY <1>2, RowType DEF See, Remember, Typed, TypeOK
<1>4. mine' \in [Workers -> SUBSET Rows] /\ FiniteMine'
  <2>1. CASE UNCHANGED mine
    BY <2>1 DEF Typed, TypeOK, FiniteMine
  <2>2. CASE mine' = [mine EXCEPT ![w] = @ \cup {Row(Head(left[w]), w)}]
    <3>1. Row(Head(left[w]), w) \in Rows
      BY <1>2, RowType
    <3>2. \A v \in Workers :
             mine'[v] = IF v = w THEN mine[w] \cup {Row(Head(left[w]), w)} ELSE mine[v]
      BY <2>2 DEF Typed, TypeOK
    <3>3. IsFiniteSet(mine[w] \cup {Row(Head(left[w]), w)})
      BY FS_AddElement DEF Typed, FiniteMine
    <3>4. FiniteMine'
      BY <3>2, <3>3 DEF Typed, FiniteMine
    <3> QED
      BY <2>2, <3>1, <3>4 DEF Typed, TypeOK
  <2> QED
    BY <2>1, <2>2
<1> QED
  BY <1>3, <1>4 DEF Typed, TypeOK

LEMMA StepTyped == Typed /\ [Next]_vars => Typed'
<1> SUFFICES ASSUME Typed, [Next]_vars PROVE Typed'
  OBVIOUS
<1>1. CASE UNCHANGED vars
  BY <1>1 DEF vars, Typed, TypeOK, FiniteMine
<1>2. ASSUME NEW w \in Workers, ReadFlags(w)
      PROVE  Typed'
  BY <1>2 DEF ReadFlags, Goto, Typed, TypeOK, FiniteMine, Places
<1>3. ASSUME NEW w \in Workers, FetchAndReadUrls(w)
      PROVE  Typed'
  <2>1. PICK feed \in Feeds : /\ left' = [left EXCEPT ![w] = feed]
                              /\ fetched' = [fetched EXCEPT ![w] = Entries(feed)]
    BY <1>3 DEF FetchAndReadUrls
  <2>2. feed \in Seq(Items) /\ Entries(feed) \subseteq Items
    BY EntriesType, ItemsAssumption
  <2>3. UrlsOf(stored) \subseteq Urls
    BY RowsTypes DEF Typed, TypeOK
  <2> QED
    BY <1>3, <2>1, <2>2, <2>3 DEF FetchAndReadUrls, Goto, Typed, TypeOK, FiniteMine, Places
<1>4. ASSUME NEW w \in Workers, ReadHashes(w)
      PROVE  Typed'
  <2>1. HashesOf(stored) \subseteq Hashes
    BY RowsTypes DEF Typed, TypeOK
  <2> QED
    BY <1>4, <2>1 DEF ReadHashes, Goto, Typed, TypeOK, FiniteMine, Places
<1>5. ASSUME NEW w \in Workers, Drop(w)
      PROVE  Typed'
  <2>1. left[w] \in Seq(Items) /\ left[w] # <<>>
    BY <1>5 DEF Drop, See, Inserting, Typed, TypeOK
  <2>2. Tail(left[w]) \in Seq(Items)
    BY <2>1, FirstEntry
  <2> QED
    BY <1>5, <2>2 DEF Drop, See, Typed, TypeOK, FiniteMine
<1>6. ASSUME NEW w \in Workers, Insert(w)
      PROVE  Typed'
  <2>1. \/ UNCHANGED mine
        \/ mine' = [mine EXCEPT ![w] = @ \cup {Row(Head(left[w]), w)}]
    BY <1>6 DEF Insert, Typed, TypeOK
  <2> QED
    BY <1>6, <2>1, SeeTyped DEF Insert, Typed, TypeOK
<1>7. ASSUME NEW w \in Workers, Lose(w)
      PROVE  Typed'
  <2>1. left[w] \in Seq(Items) /\ left[w] # <<>>
    BY <1>7 DEF Lose, See, Inserting, Typed, TypeOK
  <2>2. lost' \in [Workers -> SUBSET Items]
    BY <1>7, <2>1, FirstEntry DEF Lose, Typed, TypeOK
  <2> QED
    BY <1>7, <2>2, SeeTyped DEF Lose
<1>8. ASSUME NEW w \in Workers, CommitRows(w)
      PROVE  Typed'
  <2>1. stored' \subseteq Rows /\ Cardinality(mine[w]) \in Nat
    BY <1>8, FS_CardinalityType DEF CommitRows, Typed, TypeOK, FiniteMine
  <2>2. unannounced' \in BOOLEAN
    BY <1>8, Zenon DEF CommitRows
  <2> QED
    BY <1>8, <2>1, <2>2, FS_EmptySet DEF CommitRows, Goto, Typed, TypeOK, FiniteMine, Places
<1>9. ASSUME NEW w \in Workers, LogFetch(w)
      PROVE  Typed'
  <2>1. logged' \in Nat
    BY <1>9 DEF LogFetch, Typed, TypeOK
  <2> QED
    BY <1>9, <2>1 DEF LogFetch, Goto, Typed, TypeOK, FiniteMine, Places
<1>10. ASSUME NEW w \in Workers, Chain(w)
       PROVE  Typed'
  BY <1>10, EndRunTyped DEF Chain
<1>11. ASSUME NEW w \in Workers, Abort(w)
       PROVE  Typed'
  <2>1. excused' \in BOOLEAN
    BY <1>11, Zenon DEF Abort
  <2> QED
    BY <1>11, <2>1, EndRunTyped DEF Abort, Typed, TypeOK
<1> QED
  BY <1>1, <1>2, <1>3, <1>4, <1>5, <1>6, <1>7, <1>8, <1>9, <1>10, <1>11
  DEF Next, Step, InsertFails, DeadlockVictim

(* Every reachable state of the fetch task is well typed. *)
THEOREM IngestTyping == Spec => []TypeOK
<1>1. Typed => TypeOK
  BY DEF Typed
<1> QED
  BY <1>1, InitTyped, StepTyped, PTL DEF Spec

-----------------------------------------------------------------------------
(***************************************************************************)
(* OncePerWorker.  What makes it inductive: while w inserts, the titles of *)
(* all its rows, committed or not, are in its set of seen titles.          *)
(***************************************************************************)
SeesOwn(w) ==
    /\ mine[w] # {} => pc[w] = "insert"
    /\ \A r \in mine[w] : r.by = w /\ r.hash \in hashes[w]
    /\ \A r, s \in mine[w] : r.hash = s.hash => r = s
    /\ pc[w] = "insert" => \A s \in stored : s.by = w => s.hash \in hashes[w]
    /\ \A r \in mine[w], s \in stored : s.by = w => r.hash # s.hash
OnceInv == OncePerWorker /\ \A w \in Workers : SeesOwn(w)

LEMMA InitOnceInv == Init => OnceInv
BY DEF Init, OnceInv, OncePerWorker, SeesOwn

(* A step that stores nothing disturbs only the worker that takes it. *)
LEMMA OnlyOwnRun ==
    ASSUME Typed, OnceInv, NEW w \in Workers, stored' = stored,
           \A v \in Workers \ {w} : mine'[v] = mine[v] /\ pc'[v] = pc[v] /\ hashes'[v] = hashes[v],
           SeesOwn(w)'
    PROVE  OnceInv'
<1>1. ASSUME NEW v \in Workers, v # w
      PROVE  SeesOwn(v)'
  BY <1>1 DEF OnceInv, SeesOwn
<1>2. OncePerWorker'
  BY DEF OnceInv, OncePerWorker
<1> QED
  BY <1>1, <1>2 DEF OnceInv

LEMMA StepOnceInv == Typed /\ OnceInv /\ [Next]_vars => OnceInv'
<1> SUFFICES ASSUME Typed, OnceInv, [Next]_vars PROVE OnceInv'
  OBVIOUS
<1>0. \A w \in Workers : SeesOwn(w)
  BY DEF OnceInv
<1>1. CASE UNCHANGED <<stored, pc, mine, hashes>>
  BY <1>1 DEF OnceInv, OncePerWorker, SeesOwn
<1>2. ASSUME NEW w \in Workers, EndRun(w), UNCHANGED stored
      PROVE  OnceInv'
  <2>1. mine'[w] = {} /\ pc'[w] = "idle"
    BY <1>2 DEF EndRun, Goto, Typed, TypeOK
  <2>2. SeesOwn(w)'
    BY <2>1 DEF SeesOwn
  <2> QED
    BY <1>2, <2>2, OnlyOwnRun DEF EndRun, Goto, Typed, TypeOK
<1>3. ASSUME NEW w \in Workers, ReadFlags(w) \/ FetchAndReadUrls(w) \/ LogFetch(w)
      PROVE  OnceInv'
  <2>1. pc[w] # "insert" /\ pc'[w] # "insert"
    BY <1>3 DEF ReadFlags, FetchAndReadUrls, LogFetch, Goto, Typed, TypeOK
  <2>2. UNCHANGED <<stored, mine, hashes>>
    BY <1>3 DEF ReadFlags, FetchAndReadUrls, LogFetch
  <2>3. SeesOwn(w)'
    BY <1>0, <2>1, <2>2 DEF SeesOwn
  <2> QED
    BY <1>3, <2>2, <2>3, OnlyOwnRun
    DEF ReadFlags, FetchAndReadUrls, LogFetch, Goto, Typed, TypeOK
<1>4. ASSUME NEW w \in Workers, ReadHashes(w)
      PROVE  OnceInv'
  <2>1. pc[w] # "insert" /\ hashes'[w] = HashesOf(stored) /\ UNCHANGED <<stored, mine>>
    BY <1>4 DEF ReadHashes, Typed, TypeOK
  <2>2. mine[w] = {}
    BY <1>0, <2>1 DEF SeesOwn
  <2>3. SeesOwn(w)'
    BY <2>1, <2>2 DEF SeesOwn, HashesOf
  <2> QED
    BY <1>4, <2>1, <2>3, OnlyOwnRun DEF ReadHashes, Goto, Typed, TypeOK
<1>5. ASSUME NEW w \in Workers, See(w), Remember(w, Head(left[w])), UNCHANGED <<stored, pc>>,
             ~Known(w, Head(left[w])),
             \/ UNCHANGED mine
             \/ mine' = [mine EXCEPT ![w] = @ \cup {Row(Head(left[w]), w)}]
      PROVE  OnceInv'
  <2> DEFINE new == Row(Head(left[w]), w)
  <2>1. /\ new.by = w /\ new.hash = HashOf[Head(left[w])] /\ new.hash \notin hashes[w]
        /\ hashes'[w] = hashes[w] \cup {new.hash}
    BY <1>5 DEF Row, Known, Remember, Typed, TypeOK
  <2>2. mine'[w] = mine[w] \/ mine'[w] = mine[w] \cup {new}
    BY <1>5 DEF Typed, TypeOK
  <2>3. pc[w] = "insert"
    BY <1>5 DEF See, Inserting
  <2> HIDE DEF new
  <2>4. SeesOwn(w)'
    BY <1>0, <1>5, <2>1, <2>2, <2>3 DEF SeesOwn
  <2> QED
    BY <1>5, <2>4, OnlyOwnRun DEF Remember, Typed, TypeOK
<1>6. ASSUME NEW w \in Workers, CommitRows(w)
      PROVE  OnceInv'
  <2>1. /\ stored' = stored \cup mine[w] /\ hashes' = hashes
        /\ mine'[w] = {} /\ pc'[w] = "log"
        /\ \A v \in Workers \ {w} : mine'[v] = mine[v] /\ pc'[v] = pc[v]
    BY <1>6 DEF CommitRows, Goto, Typed, TypeOK
  <2>2. SeesOwn(w)'
    BY <2>1 DEF SeesOwn
  <2>3. ASSUME NEW v \in Workers, v # w
        PROVE  SeesOwn(v)'
    <3>1. \A s \in mine[w] : s.by # v
      BY <1>0, <2>3 DEF SeesOwn
    <3> QED
      BY <1>0, <2>1, <2>3, <3>1 DEF SeesOwn
  <2>4. OncePerWorker'
    <3>1. /\ \A r, s \in mine[w] : r.hash = s.hash => r = s
          /\ \A r \in mine[w] : r.by = w
          /\ \A r \in mine[w], s \in stored : s.by = w => r.hash # s.hash
      BY <1>0 DEF SeesOwn
    <3> QED
      BY <2>1, <3>1 DEF OnceInv, OncePerWorker
  <2> QED
    BY <2>2, <2>3, <2>4 DEF OnceInv
<1>7. ASSUME NEW w \in Workers, Insert(w)
      PROVE  OnceInv'
  <2>1. \/ UNCHANGED mine
        \/ mine' = [mine EXCEPT ![w] = @ \cup {Row(Head(left[w]), w)}]
    BY <1>7 DEF Insert, Typed, TypeOK
  <2> QED
    BY <1>5, <1>7, <2>1 DEF Insert
<1>8. ASSUME NEW w \in Workers, Lose(w)
      PROVE  OnceInv'
  BY <1>5, <1>8 DEF Lose
<1>9. ASSUME NEW w \in Workers, Drop(w)
      PROVE  OnceInv'
  BY <1>1, <1>9 DEF Drop
<1>10. ASSUME NEW w \in Workers, Chain(w) \/ Abort(w)
       PROVE  OnceInv'
  BY <1>2, <1>10 DEF Chain, Abort
<1> QED
  BY <1>1, <1>3, <1>4, <1>6, <1>7, <1>8, <1>9, <1>10
  DEF Next, Step, InsertFails, DeadlockVictim, vars

(* No worker ever stores two rows under one title, over all its fetches    *)
(* and retries, whatever the feeds bring and however runs overlap.         *)
THEOREM OncePerWorkerHolds == Spec => []OncePerWorker
<1>1. OnceInv => OncePerWorker
  BY DEF OnceInv
<1>2. Spec => []Typed
  BY InitTyped, StepTyped, PTL DEF Spec
<1> QED
  BY <1>1, <1>2, InitOnceInv, StepOnceInv, PTL DEF Spec

(* With one worker every title is stored once. *)
THEOREM SoloStoresOnce ==
    ASSUME NEW solo, Workers = {solo}
    PROVE  Spec => [](\A r, s \in stored : r.hash = s.hash => r = s)
<1>1. Typed /\ OncePerWorker => \A r, s \in stored : r.hash = s.hash => r = s
  BY DEF Typed, TypeOK, Rows, OncePerWorker
<1>2. Spec => []Typed
  BY InitTyped, StepTyped, PTL DEF Spec
<1> QED
  BY <1>1, <1>2, OncePerWorkerHolds, PTL

-----------------------------------------------------------------------------
(***************************************************************************)
(* LogsNeverOverstate.  Some rows account for what is logged, and a run    *)
(* between its two commits still has as many rows of its own beside those  *)
(* as it is about to log: no row is logged by two runs, and a run that     *)
(* dies there leaves rows that no log claims.                              *)
(***************************************************************************)
Unseen(w, seen) == {r \in stored \ seen : r.by = w}
Accounts(seen) == /\ logged <= Cardinality(seen)
                  /\ \A w \in Workers : pc[w] = "log" =>
                        saved[w] <= Cardinality(Unseen(w, seen))
LogInv == IsFiniteSet(stored) /\ \E seen \in SUBSET stored : Accounts(seen)

LEMMA InitLogInv == Init => LogInv
BY FS_EmptySet DEF Init, LogInv, Accounts

(* A step that commits and logs nothing. *)
LEMMA QuietLog ==
    ASSUME Typed, LogInv, UNCHANGED <<stored, logged>>,
           \A w \in Workers : pc'[w] = "log" => pc[w] = "log" /\ saved'[w] = saved[w]
    PROVE  LogInv'
BY DEF LogInv, Accounts, Unseen

LEMMA CommitRowsLog ==
    ASSUME Typed, OnceInv, LogInv, NEW w \in Workers, CommitRows(w)
    PROVE  LogInv'
<1>1. PICK seen \in SUBSET stored : Accounts(seen)
  BY DEF LogInv
<1>2. /\ stored' = stored \cup mine[w] /\ logged' = logged
      /\ saved'[w] = Cardinality(mine[w])
      /\ \A v \in Workers \ {w} : pc'[v] = pc[v] /\ saved'[v] = saved[v]
  BY DEF CommitRows, Goto, Typed, TypeOK
<1>3. IsFiniteSet(stored')
  BY <1>2, FS_Union DEF LogInv, Typed, FiniteMine
<1>4. /\ \A r \in mine[w] : r.by = w
      /\ mine[w] \cap stored = {}
  BY DEF OnceInv, SeesOwn
<1>5. saved'[w] <= Cardinality(Unseen(w, seen)')
  <2>1. mine[w] \subseteq Unseen(w, seen)'
    BY <1>2, <1>4 DEF Unseen
  <2>2. IsFiniteSet(Unseen(w, seen)')
    BY <1>3, FS_Subset DEF Unseen
  <2> QED
    BY <1>2, <2>1, <2>2, FS_Subset
<1>6. ASSUME NEW v \in Workers, v # w
      PROVE  Unseen(v, seen)' = Unseen(v, seen)
  BY <1>2, <1>4, <1>6 DEF Unseen
<1>7. Accounts(seen)'
  BY <1>1, <1>2, <1>5, <1>6 DEF Accounts
<1> QED
  BY <1>2, <1>3, <1>7 DEF LogInv

LEMMA LogFetchLog ==
    ASSUME Typed, LogInv, NEW w \in Workers, LogFetch(w)
    PROVE  LogInv'
<1>1. PICK seen \in SUBSET stored : Accounts(seen)
  BY DEF LogInv
<1>2. /\ stored' = stored /\ saved' = saved /\ logged' = logged + saved[w]
      /\ pc[w] = "log" /\ pc'[w] # "log"
      /\ \A v \in Workers \ {w} : pc'[v] = pc[v]
  BY DEF LogFetch, Goto, Typed, TypeOK
<1>3. PICK rows : rows = Unseen(w, seen)
  OBVIOUS
<1>4. /\ IsFiniteSet(seen) /\ IsFiniteSet(rows) /\ seen \cap rows = {}
      /\ rows \subseteq stored
  BY <1>3, FS_Subset DEF Unseen, LogInv
<1>5. logged' <= Cardinality(seen \cup rows)
  <2>1. Cardinality(seen \cup rows) = Cardinality(seen) + Cardinality(rows) - Cardinality({})
    BY <1>4, FS_Union
  <2>2. /\ Cardinality(seen) \in Nat /\ Cardinality(rows) \in Nat /\ Cardinality({}) = 0
        /\ logged \in Nat /\ saved[w] \in Nat
    BY <1>4, FS_CardinalityType, FS_EmptySet DEF Typed, TypeOK
  <2>3. logged <= Cardinality(seen) /\ saved[w] <= Cardinality(rows)
    BY <1>1, <1>2, <1>3 DEF Accounts
  <2> QED
    BY <1>2, <2>1, <2>2, <2>3
<1>6. ASSUME NEW v \in Workers, v # w
      PROVE  Unseen(v, seen \cup rows)' = Unseen(v, seen)
  BY <1>2, <1>3, <1>6 DEF Unseen
<1>7. Accounts(seen \cup rows)'
  BY <1>1, <1>2, <1>5, <1>6 DEF Accounts
<1> QED
  BY <1>2, <1>4, <1>7 DEF LogInv

LEMMA StepLogInv == Typed /\ OnceInv /\ LogInv /\ [Next]_vars => LogInv'
<1> SUFFICES ASSUME Typed, OnceInv, LogInv, [Next]_vars PROVE LogInv'
  OBVIOUS
<1>1. CASE UNCHANGED vars
  BY <1>1, QuietLog DEF vars
<1>2. ASSUME NEW w \in Workers, ReadFlags(w) \/ FetchAndReadUrls(w) \/ ReadHashes(w)
                                \/ Drop(w) \/ Insert(w) \/ Lose(w)
      PROVE  LogInv'
  BY <1>2, QuietLog DEF ReadFlags, FetchAndReadUrls, ReadHashes, Drop, Insert, Lose, Goto,
                        Typed, TypeOK
<1>3. ASSUME NEW w \in Workers, Chain(w) \/ Abort(w)
      PROVE  LogInv'
  BY <1>3, QuietLog DEF Chain, Abort, EndRun, Goto, Typed, TypeOK
<1> QED
  BY <1>1, <1>2, <1>3, CommitRowsLog, LogFetchLog DEF Next, Step, InsertFails, DeadlockVictim

(* However runs overlap, are retried or die between their two commits, the *)
(* fetch logs together never claim more new articles than the table has.   *)
THEOREM LogsNeverOverstateHolds == Spec => []LogsNeverOverstate
<1>1. Typed /\ LogInv => LogsNeverOverstate
  <2> SUFFICES ASSUME Typed, LogInv PROVE LogsNeverOverstate
    OBVIOUS
  <2>1. PICK seen \in SUBSET stored : Accounts(seen)
    BY DEF LogInv
  <2>2. /\ Cardinality(seen) <= Cardinality(stored)
        /\ Cardinality(seen) \in Nat /\ Cardinality(stored) \in Nat /\ logged \in Nat
    BY FS_Subset, FS_CardinalityType DEF LogInv, Typed, TypeOK
  <2> QED
    BY <2>1, <2>2 DEF Accounts, LogsNeverOverstate
<1>2. Spec => []Typed
  BY InitTyped, StepTyped, PTL DEF Spec
<1> QED
  BY <1>1, <1>2, InitOnceInv, StepOnceInv, InitLogInv, StepLogInv, PTL DEF Spec

-----------------------------------------------------------------------------
(***************************************************************************)
(* NothingSkipped.  What the filter remembers goes back to the table or to *)
(* an entry of the batch that was dealt with, and what it has passed over  *)
(* is one story with such an entry.                                        *)
(***************************************************************************)
Dealt(w, j) == InTable(j) \/ j \in lost[w] \/ Row(j, w) \in mine[w]
Covered(w, i) == \E j \in fetched[w] : SameStory(i, j) /\ Dealt(w, j)
UrlsFrom(w) ==
    \A u \in urls[w] : u \in UrlsOf(stored) \/ \E j \in fetched[w] : UrlOf[j] = u /\ Dealt(w, j)
HashesFrom(w) ==
    \A h \in hashes[w] :
        h \in HashesOf(stored) \/ \E j \in fetched[w] : HashOf[j] = h /\ Dealt(w, j)
SkipOf(w) ==
    /\ pc[w] \in {"idle", "urls"} => fetched[w] = {}
    /\ pc[w] \in {"hashes", "insert"} =>
          Entries(left[w]) \subseteq fetched[w] /\ UrlsFrom(w)
    /\ pc[w] = "hashes" => fetched[w] \subseteq Entries(left[w])
    /\ pc[w] = "insert" =>
          /\ HashesFrom(w)
          /\ \A i \in fetched[w] : i \in Entries(left[w]) \/ Covered(w, i)
    /\ pc[w] \in {"log", "chain"} =>
          \A i \in fetched[w] : \E j \in fetched[w] :
              SameStory(i, j) /\ (InTable(j) \/ j \in lost[w])
SkipInv == \A w \in Workers : SkipOf(w)

LEMMA InitSkips == Init => SkipInv
BY DEF Init, SkipInv, SkipOf

LEMMA TableGrows ==
    ASSUME stored \subseteq stored'
    PROVE  /\ UrlsOf(stored) \subseteq UrlsOf(stored')
           /\ HashesOf(stored) \subseteq HashesOf(stored')
           /\ \A i : InTable(i) => InTable(i)'
BY DEF UrlsOf, HashesOf, InTable

(* A step of another worker disturbs nothing of w.                         *)
LEMMA OthersSkipNothing ==
    ASSUME NEW w \in Workers, SkipOf(w), stored \subseteq stored',
           pc'[w] = pc[w], left'[w] = left[w], urls'[w] = urls[w], hashes'[w] = hashes[w],
           mine'[w] = mine[w], fetched'[w] = fetched[w], lost'[w] = lost[w]
    PROVE  SkipOf(w)'
<1>1. \A j : Dealt(w, j) => Dealt(w, j)'
  BY TableGrows DEF Dealt
<1>2. UrlsFrom(w) => UrlsFrom(w)'
  BY <1>1, TableGrows DEF UrlsFrom
<1>3. HashesFrom(w) => HashesFrom(w)'
  BY <1>1, TableGrows DEF HashesFrom
<1>4. \A i : Covered(w, i) => Covered(w, i)'
  BY <1>1 DEF Covered
<1> QED
  BY <1>2, <1>3, <1>4, TableGrows DEF SkipOf

(* The filter looks at the next entry.                                     *)
LEMMA LookSkipsNothing ==
    ASSUME Typed, NEW w \in Workers, SkipOf(w), See(w), UNCHANGED <<stored, pc, fetched>>,
           NEW i \in Items, i = Head(left[w]),
           \A j : Dealt(w, j) => Dealt(w, j)',
           \/ Known(w, i) /\ UNCHANGED <<urls, hashes>>
           \/ Dealt(w, i)' /\ Remember(w, i)
    PROVE  SkipOf(w)'
<1>1. /\ pc[w] = "insert" /\ pc'[w] = "insert" /\ left[w] # <<>>
      /\ left'[w] = Tail(left[w]) /\ fetched'[w] = fetched[w]
  BY DEF See, Inserting, Typed, TypeOK
<1>2. left[w] \in Seq(Items)
  BY DEF Typed, TypeOK
<1>3. /\ Entries(left[w]) \subseteq {i} \cup Entries(left'[w])
      /\ Entries(left'[w]) \subseteq Entries(left[w]) /\ i \in Entries(left[w])
  <2>1. /\ Head(left[w]) = left[w][1] /\ 1 \in DOMAIN left[w]
        /\ \A n \in DOMAIN Tail(left[w]) :
              n + 1 \in DOMAIN left[w] /\ Tail(left[w])[n] = left[w][n + 1]
        /\ \A n \in DOMAIN left[w] \ {1} :
              n - 1 \in DOMAIN Tail(left[w]) /\ left[w][n] = Tail(left[w])[n - 1]
    BY <1>1, <1>2
  <2>2. i = left[w][1] /\ i \in Entries(left[w])
    BY <2>1 DEF Entries
  <2>3. Entries(left'[w]) \subseteq Entries(left[w])
    BY <1>1, <2>1 DEF Entries
  <2>4. ASSUME NEW k \in Entries(left[w]), k # i
        PROVE  k \in Entries(left'[w])
    <3>1. PICK n \in DOMAIN left[w] : k = left[w][n]
      BY DEF Entries
    <3>2. n # 1
      BY <2>2, <2>4, <3>1
    <3>3. n - 1 \in DOMAIN left'[w] /\ k = left'[w][n - 1]
      BY <1>1, <2>1, <3>1, <3>2
    <3> QED
      BY <3>3 DEF Entries
  <2> QED
    BY <2>2, <2>3, <2>4
<1>4. i \in fetched[w] /\ UrlsFrom(w) /\ HashesFrom(w)
  BY <1>1, <1>3 DEF SkipOf
<1>5. /\ urls'[w] = urls[w] \/ (urls'[w] = urls[w] \cup {UrlOf[i]} /\ Dealt(w, i)')
      /\ hashes'[w] = hashes[w] \/ (hashes'[w] = hashes[w] \cup {HashOf[i]} /\ Dealt(w, i)')
  <2>1. Remember(w, i) => /\ urls'[w] = urls[w] \cup {UrlOf[i]}
                          /\ hashes'[w] = hashes[w] \cup {HashOf[i]}
    BY DEF Remember, Typed, TypeOK
  <2> QED
    BY <2>1
<1>6. UrlsFrom(w)'
  BY <1>1, <1>4, <1>5 DEF UrlsFrom
<1>7. HashesFrom(w)'
  BY <1>1, <1>4, <1>5 DEF HashesFrom
<1>8. Covered(w, i)'
  <2>1. CASE Dealt(w, i)'
    BY <1>1, <1>4, <2>1 DEF Covered, SameStory
  <2>2. CASE UrlOf[i] \in urls[w]
    <3>1. CASE UrlOf[i] \in UrlsOf(stored)
      BY <2>1, <3>1 DEF Dealt, InTable
    <3>2. CASE \E j \in fetched[w] : UrlOf[j] = UrlOf[i] /\ Dealt(w, j)
      BY <1>1, <3>2 DEF Covered, SameStory
    <3> QED
      BY <1>4, <2>2, <3>1, <3>2 DEF UrlsFrom
  <2>3. CASE HashOf[i] \in hashes[w]
    <3>1. CASE HashOf[i] \in HashesOf(stored)
      BY <2>1, <3>1 DEF Dealt, InTable
    <3>2. CASE \E j \in fetched[w] : HashOf[j] = HashOf[i] /\ Dealt(w, j)
      BY <1>1, <3>2 DEF Covered, SameStory
    <3> QED
      BY <1>4, <2>3, <3>1, <3>2 DEF HashesFrom
  <2> QED
    BY <2>1, <2>2, <2>3 DEF Known
<1>9. \A k \in fetched[w] : k \in Entries(left'[w]) \/ Covered(w, k)'
  <2> SUFFICES ASSUME NEW k \in fetched[w]
               PROVE  k \in Entries(left'[w]) \/ Covered(w, k)'
    OBVIOUS
  <2>1. Covered(w, k) => Covered(w, k)'
    BY <1>1 DEF Covered
  <2>2. k \in Entries(left[w]) \/ Covered(w, k)
    BY <1>1 DEF SkipOf
  <2>3. CASE k = i
    BY <1>8, <2>3
  <2> QED
    BY <1>3, <2>1, <2>2, <2>3
<1>10. Entries(left'[w]) \subseteq fetched'[w]
  BY <1>1, <1>3 DEF SkipOf
<1>11. \A k \in fetched'[w] : k \in Entries(left'[w]) \/ Covered(w, k)'
  BY <1>1, <1>9
<1> HIDE DEF Covered, UrlsFrom, HashesFrom
<1> QED
  BY <1>1, <1>6, <1>7, <1>10, <1>11 DEF SkipOf

LEMMA StepSkips == Typed /\ SkipInv /\ [Next]_vars => SkipInv'
<1> SUFFICES ASSUME Typed, SkipInv, [Next]_vars, NEW v \in Workers PROVE SkipOf(v)'
  BY DEF SkipInv
<1>0. SkipOf(v)
  BY DEF SkipInv
<1>1. CASE UNCHANGED vars
  BY <1>0, <1>1, OthersSkipNothing DEF vars
<1>2. ASSUME NEW w \in Workers, w # v, ReadFlags(w) \/ Step(w) \/ InsertFails(w) \/ Abort(w)
      PROVE  SkipOf(v)'
  <2>1. stored \subseteq stored'
    BY <1>2 DEF ReadFlags, Step, InsertFails, DeadlockVictim, Lose, Abort, FetchAndReadUrls,
                ReadHashes, Drop, Insert, CommitRows, LogFetch, Chain
  <2>2. /\ pc'[v] = pc[v] /\ left'[v] = left[v] /\ urls'[v] = urls[v]
        /\ hashes'[v] = hashes[v]
    BY <1>2 DEF ReadFlags, Step, InsertFails, DeadlockVictim, Lose, Abort, FetchAndReadUrls,
                ReadHashes, Drop, Insert, CommitRows, LogFetch, Chain, EndRun, Goto, See,
                Remember, Typed, TypeOK
  <2>3. mine'[v] = mine[v] /\ fetched'[v] = fetched[v] /\ lost'[v] = lost[v]
    BY <1>2 DEF ReadFlags, Step, InsertFails, DeadlockVictim, Lose, Abort, FetchAndReadUrls,
                ReadHashes, Drop, Insert, CommitRows, LogFetch, Chain, EndRun, Typed, TypeOK
  <2> QED
    BY <1>0, <2>1, <2>2, <2>3, OthersSkipNothing
<1>3. CASE ReadFlags(v)
  BY <1>0, <1>3 DEF ReadFlags, Goto, Typed, TypeOK, SkipOf
<1>4. CASE FetchAndReadUrls(v)
  <2>1. /\ pc'[v] = "hashes" /\ fetched'[v] = Entries(left'[v])
        /\ urls'[v] = UrlsOf(stored) /\ stored' = stored
    BY <1>4 DEF FetchAndReadUrls, Goto, Typed, TypeOK
  <2> QED
    BY <2>1 DEF SkipOf, UrlsFrom
<1>5. CASE ReadHashes(v)
  <2>1. /\ pc[v] = "hashes" /\ pc'[v] = "insert" /\ hashes'[v] = HashesOf(stored)
        /\ UNCHANGED <<stored, left, urls, mine, fetched, lost>>
    BY <1>5 DEF ReadHashes, Goto, Typed, TypeOK
  <2>2. HashesFrom(v)'
    BY <2>1 DEF HashesFrom
  <2>3. UrlsFrom(v)'
    BY <1>0, <2>1 DEF SkipOf, UrlsFrom, Dealt, InTable
  <2> QED
    BY <1>0, <2>1, <2>2, <2>3 DEF SkipOf
<1>6. CASE See(v) /\ UNCHANGED <<stored, pc, fetched>> /\ (Drop(v) \/ Insert(v) \/ Lose(v))
  <2>00. stored' = stored /\ (\A j : InTable(j) => InTable(j)')
    BY <1>6, TableGrows
  <2>01. Head(left[v]) \in Items
    BY <1>6, FirstEntry DEF See, Inserting, Typed, TypeOK
  <2>0. PICK i \in Items : i = Head(left[v])
    BY <2>01
  <2>1. CASE Drop(v)
    <3>1. Known(v, i) /\ urls' = urls /\ hashes' = hashes /\ mine' = mine /\ lost' = lost
      BY <2>0, <2>1 DEF Drop
    <3>2. \A j : Dealt(v, j) => Dealt(v, j)'
      BY <2>00, <3>1 DEF Dealt
    <3> QED
      BY <1>0, <1>6, <2>0, <3>1, <3>2, LookSkipsNothing
  <2>2. CASE Insert(v)
    <3>1. Remember(v, i) /\ lost' = lost
      BY <2>0, <2>2 DEF Insert
    <3>2. \/ mine'[v] = mine[v] /\ UrlOf[i] \in UrlsOf(stored)
          \/ mine'[v] = mine[v] \cup {Row(i, v)}
      BY <2>0, <2>2 DEF Insert, Typed, TypeOK
    <3>3. \A j : Dealt(v, j) => Dealt(v, j)'
      BY <2>00, <3>1, <3>2 DEF Dealt
    <3>4. Dealt(v, i)'
      BY <2>00, <3>2 DEF Dealt, InTable
    <3> QED
      BY <1>0, <1>6, <2>0, <3>1, <3>3, <3>4, LookSkipsNothing
  <2>3. CASE Lose(v)
    <3>1. Remember(v, i) /\ mine' = mine /\ lost'[v] = lost[v] \cup {i}
      BY <2>0, <2>3 DEF Lose, Typed, TypeOK
    <3>2. \A j : Dealt(v, j) => Dealt(v, j)'
      BY <2>00, <3>1 DEF Dealt
    <3>3. Dealt(v, i)'
      BY <3>1 DEF Dealt
    <3> QED
      BY <1>0, <1>6, <2>0, <3>1, <3>2, <3>3, LookSkipsNothing
  <2> QED
    BY <1>6, <2>1, <2>2, <2>3
<1>7. CASE CommitRows(v)
  <2>1. /\ pc[v] = "insert" /\ left[v] = <<>> /\ pc'[v] = "log" /\ stored' = stored \cup mine[v]
        /\ fetched' = fetched /\ lost' = lost
    BY <1>7 DEF CommitRows, Goto, Typed, TypeOK
  <2>2. Entries(left[v]) = {}
    BY <2>1 DEF Entries
  <2>4. \A j : InTable(j) => InTable(j)'
    BY <2>1, TableGrows
  <2>5. \A j : Row(j, v) \in mine[v] => InTable(j)'
    <3> SUFFICES ASSUME NEW j, Row(j, v) \in mine[v]
                 PROVE  UrlOf[j] \in UrlsOf(stored')
      BY DEF InTable
    <3>1. Row(j, v) \in stored' /\ Row(j, v).url = UrlOf[j]
      BY <2>1 DEF Row
    <3> QED
      BY <3>1 DEF UrlsOf
  <2>3. \A j : Dealt(v, j) => InTable(j)' \/ j \in lost'[v]
    BY <2>1, <2>4, <2>5 DEF Dealt
  <2> QED
    BY <1>0, <2>1, <2>2, <2>3 DEF SkipOf, Covered
<1>8. CASE LogFetch(v)
  BY <1>0, <1>8 DEF LogFetch, Goto, Typed, TypeOK, SkipOf, InTable
<1>9. CASE Chain(v) \/ Abort(v)
  BY <1>9 DEF Chain, Abort, EndRun, Goto, Typed, TypeOK, SkipOf
<1>10. CASE Drop(v) \/ Insert(v) \/ Lose(v)
  BY <1>6, <1>10 DEF Drop, Insert, Lose
<1> QED
  BY <1>1, <1>2, <1>3, <1>4, <1>5, <1>7, <1>8, <1>9, <1>10
  DEF Next, Step, InsertFails, DeadlockVictim

(* Whatever the feeds bring and however runs overlap, fail and conflict,   *)
(* every entry of a run that has committed is in the table, itself or      *)
(* through an entry taken for the same story, unless that one's insert     *)
(* failed.                                                                 *)
THEOREM NothingSkippedHolds == Spec => []NothingSkipped
<1>1. SkipInv => NothingSkipped
  BY DEF SkipInv, SkipOf, NothingSkipped
<1>2. Spec => []Typed
  BY InitTyped, StepTyped, PTL DEF Spec
<1> QED
  BY <1>1, <1>2, InitSkips, StepSkips, PTL DEF Spec

-----------------------------------------------------------------------------
(***************************************************************************)
(* AnnouncedOrExcused: rows nobody was told of are excused, or their run   *)
(* is still on its way to the enqueueing.                                  *)
(***************************************************************************)
OnItsWay(w) == pc[w] \in {"log", "chain"} /\ saved[w] > 0
ToldInv == unannounced => excused \/ \E w \in Workers : OnItsWay(w)

LEMMA InitTold == Init => ToldInv
BY DEF Init, ToldInv

LEMMA StepTold == Typed /\ ToldInv /\ [Next]_vars => ToldInv'
<1> SUFFICES ASSUME Typed, ToldInv, [Next]_vars, unannounced'
             PROVE  excused' \/ \E w \in Workers : OnItsWay(w)'
  BY DEF ToldInv
<1>1. CASE UNCHANGED vars
  BY <1>1 DEF vars, ToldInv, OnItsWay
<1>2. ASSUME NEW w \in Workers, CommitRows(w)
      PROVE  excused' \/ \E v \in Workers : OnItsWay(v)'
  <2>1. CASE mine[w] = {}
    <3>1. unannounced /\ excused' = excused
      BY <1>2, <2>1 DEF CommitRows
    <3>2. \A v \in Workers : OnItsWay(v) => OnItsWay(v)'
      BY <1>2 DEF CommitRows, OnItsWay, Goto, Typed, TypeOK
    <3> QED
      BY <3>1, <3>2 DEF ToldInv
  <2>2. CASE mine[w] # {}
    <3>1. Cardinality(mine[w]) \in Nat /\ Cardinality(mine[w]) # 0
      BY <2>2, FS_CardinalityType, FS_EmptySet DEF Typed, FiniteMine
    <3>2. pc'[w] = "log" /\ saved'[w] = Cardinality(mine[w])
      BY <1>2 DEF CommitRows, Goto, Typed, TypeOK
    <3> QED
      BY <3>1, <3>2 DEF OnItsWay
  <2> QED
    BY <2>1, <2>2
<1>3. ASSUME NEW w \in Workers, Abort(w)
      PROVE  excused' \/ \E v \in Workers : OnItsWay(v)'
  <2>1. unannounced /\ (excused \/ saved[w] > 0 => excused')
    BY <1>3 DEF Abort
  <2>2. \A v \in Workers \ {w} : OnItsWay(v) => OnItsWay(v)'
    BY <1>3 DEF Abort, EndRun, Goto, OnItsWay, Typed, TypeOK
  <2> QED
    BY <2>1, <2>2 DEF ToldInv, OnItsWay
<1>4. ASSUME NEW w \in Workers,
             \/ ReadFlags(w) \/ FetchAndReadUrls(w) \/ ReadHashes(w) \/ Drop(w)
             \/ Insert(w) \/ Lose(w) \/ LogFetch(w)
      PROVE  excused' \/ \E v \in Workers : OnItsWay(v)'
  <2>1. UNCHANGED <<unannounced, excused, saved>>
    BY <1>4 DEF ReadFlags, FetchAndReadUrls, ReadHashes, Drop, Insert, Lose, LogFetch
  <2>2. \A v \in Workers : pc[v] \in {"log", "chain"} => pc'[v] \in {"log", "chain"}
    BY <1>4 DEF ReadFlags, FetchAndReadUrls, ReadHashes, Drop, Insert, Lose, LogFetch, Goto,
                Typed, TypeOK
  <2> QED
    BY <2>1, <2>2 DEF ToldInv, OnItsWay
<1>5. \A w \in Workers : ~Chain(w)
  BY DEF Chain
<1> QED
  BY <1>1, <1>2, <1>3, <1>4, <1>5 DEF Next, Step, InsertFails, DeadlockVictim

(* When no run is going, rows no summarisation was enqueued for are due to *)
(* a run that ended between its commit and the enqueueing.                 *)
THEOREM AnnouncedOrExcusedHolds == Spec => []AnnouncedOrExcused
<1>1. ToldInv => AnnouncedOrExcused
  BY DEF ToldInv, OnItsWay, AnnouncedOrExcused
<1>2. Spec => []Typed
  BY InitTyped, StepTyped, PTL DEF Spec
<1> QED
  BY <1>1, <1>2, InitTold, StepTold, PTL DEF Spec

-----------------------------------------------------------------------------
(***************************************************************************)
(* TroubleStaysLocal: what the loops over sources and entries make, for    *)
(* any number of them.  Induction is on a set of numbers: if it missed n,  *)
(* adding one would map its numbers below n into those but zero.           *)
(***************************************************************************)
LEMMA NatFill ==
    ASSUME NEW S, 0 \in S, \A n \in Nat : n \in S => n + 1 \in S
    PROVE  Nat \subseteq S
<1> SUFFICES ASSUME NEW n \in Nat, n \notin S PROVE FALSE
  OBVIOUS
<1> DEFINE A == S \cap (0..n)
           B == A \ {0}
           next == [k \in A |-> k + 1]
<1>1. IsFiniteSet(A) /\ 0 \in A
  <2>1. IsFiniteSet(0..n)
    BY FS_Interval
  <2> QED
    BY <2>1, FS_Subset
<1>2. IsFiniteSet(B) /\ Cardinality(B) = Cardinality(A) - 1 /\ Cardinality(A) \in Nat
  BY <1>1, FS_RemoveElement, FS_CardinalityType
<1>3. ASSUME NEW k \in A
      PROVE  k + 1 \in B
  OBVIOUS
<1>4. next \in [A -> B]
  BY <1>3
<1>5. \A j, k \in A : next[j] = next[k] => j = k
  OBVIOUS
<1> HIDE DEF A, B, next
<1>6. next \in Injection(A, B)
  BY <1>4, <1>5 DEF Injection, IsInjective
<1>7. Cardinality(A) <= Cardinality(B)
  BY <1>1, <1>2, <1>6, FS_Injection
<1> QED
  BY <1>2, <1>7

Entry == [item : Items, form : Forms]

LEMMA AppendEntries ==
    ASSUME NEW S, NEW s \in Seq(S), NEW x \in S
    PROVE  Append(s, x) \in Seq(S) /\ Entries(Append(s, x)) = Entries(s) \cup {x}
<1>1. /\ Append(s, x) \in Seq(S) /\ DOMAIN Append(s, x) = 1..(Len(s) + 1)
      /\ DOMAIN s = 1..Len(s) /\ Len(s) \in Nat
  OBVIOUS
<1>2. \A n \in 1..Len(s) : Append(s, x)[n] = s[n]
  OBVIOUS
<1>3. Append(s, x)[Len(s) + 1] = x
  OBVIOUS
<1> QED
  BY <1>1, <1>2, <1>3 DEF Entries

LEMMA ConcatEntries ==
    ASSUME NEW S, NEW s \in Seq(S), NEW t \in Seq(S)
    PROVE  s \o t \in Seq(S) /\ Entries(s \o t) = Entries(s) \cup Entries(t)
<1>1. /\ s \o t \in Seq(S) /\ DOMAIN (s \o t) = 1..(Len(s) + Len(t))
      /\ DOMAIN s = 1..Len(s) /\ Len(s) \in Nat
      /\ DOMAIN t = 1..Len(t) /\ Len(t) \in Nat
  OBVIOUS
<1>2. \A n \in 1..Len(s) : (s \o t)[n] = s[n]
  OBVIOUS
<1>3. \A n \in 1..Len(t) : (s \o t)[Len(s) + n] = t[n]
  OBVIOUS
<1>4. \A n \in 1..(Len(s) + Len(t)) : n \in 1..Len(s) \/ n - Len(s) \in 1..Len(t)
  BY <1>1
<1>5. \A n \in 1..Len(t) : Len(s) + n \in 1..(Len(s) + Len(t))
  BY <1>1
<1>6. Entries(s \o t) \subseteq Entries(s) \cup Entries(t)
  <2> SUFFICES ASSUME NEW n \in 1..(Len(s) + Len(t))
               PROVE  (s \o t)[n] \in Entries(s) \cup Entries(t)
    BY <1>1 DEF Entries
  <2>1. CASE n \in 1..Len(s)
    BY <1>1, <1>2, <2>1 DEF Entries
  <2>2. CASE n - Len(s) \in 1..Len(t)
    <3>1. (s \o t)[Len(s) + (n - Len(s))] = t[n - Len(s)] /\ Len(s) + (n - Len(s)) = n
      BY <1>1, <1>3, <2>2
    <3> QED
      BY <1>1, <2>2, <3>1 DEF Entries
  <2> QED
    BY <1>4, <2>1, <2>2
<1>7. Entries(s) \subseteq Entries(s \o t)
  <2>1. \A n \in 1..Len(s) : n \in 1..(Len(s) + Len(t))
    BY <1>1
  <2> QED
    BY <1>1, <1>2, <2>1 DEF Entries
<1>8. Entries(t) \subseteq Entries(s \o t)
  BY <1>1, <1>3, <1>5 DEF Entries
<1> QED
  BY <1>1, <1>6, <1>7, <1>8

(* The loop over the entries of a source has the items of the wanted ones. *)
LEMMA KeptAre ==
    ASSUME NEW entries \in Seq(Entry), NEW wanted
    PROVE  /\ Kept(entries, wanted) \in Seq(Items)
           /\ Entries(Kept(entries, wanted))
                = {entries[n].item : n \in {m \in DOMAIN entries : entries[m].form \in wanted}}
<1> DEFINE last == Len(entries)
           Next1(f, i) == IF i = 0 THEN <<>>
                          ELSE IF entries[i].form \in wanted
                               THEN Append(f[i - 1], entries[i].item)
                          ELSE f[i - 1]
           Is(f, n) == f = [i \in 0..n |-> Next1(f, i)]
           kept == CHOOSE f : Is(f, last)
<1>0. last \in Nat /\ DOMAIN entries = 1..last /\ \A i \in 1..last : entries[i] \in Entry
  OBVIOUS
<1>1. \E f : Is(f, last)
  <2> DEFINE S == {n \in Nat : \E f : Is(f, n)}
  <2>1. 0 \in S
    <3>1. Is([i \in 0..0 |-> <<>>], 0)
      OBVIOUS
    <3> HIDE DEF Next1
    <3> QED
      BY <3>1
  <2>2. ASSUME NEW n \in Nat, n \in S
        PROVE  n + 1 \in S
    <3>1. PICK f : Is(f, n)
      BY <2>2
    <3> DEFINE g == [i \in 0..(n + 1) |-> IF i <= n THEN f[i] ELSE Next1(f, i)]
    <3>2. \A i \in 0..n : g[i] = f[i] /\ f[i] = Next1(f, i)
      <4> HIDE DEF Next1
      <4>1. f = [i \in 0..n |-> Next1(f, i)]
        BY <3>1
      <4>2. \A i \in 0..n : f[i] = Next1(f, i)
        BY <4>1
      <4>3. \A i \in 0..n : g[i] = f[i]
        OBVIOUS
      <4> QED
        BY <4>2, <4>3
    <3>3. ASSUME NEW i \in 0..(n + 1)
          PROVE  g[i] = Next1(g, i)
      <4>1. i # 0 => g[i - 1] = f[i - 1]
        BY <3>2
      <4>2. Next1(g, i) = Next1(f, i)
        BY <4>1
      <4>3. g[i] = Next1(f, i)
        <5> HIDE DEF Next1
        <5>1. g[i] = IF i <= n THEN f[i] ELSE Next1(f, i)
          OBVIOUS
        <5>2. CASE i <= n
          <6>1. i \in 0..n
            BY <5>2
          <6> QED
            BY <3>2, <6>1
        <5>3. CASE ~(i <= n)
          BY <5>1, <5>3
        <5> QED
          BY <5>2, <5>3
      <4> QED
        BY <4>2, <4>3
    <3>4. Is(g, n + 1)
      <4> HIDE DEF Next1
      <4> QED
        BY <3>3
    <3> HIDE DEF Is, g
    <3> QED
      BY <3>4
  <2> QED
    BY <1>0, <2>1, <2>2, NatFill
<1>2. Is(kept, last)
  BY <1>1
<1>3. Kept(entries, wanted) = kept[last]
  BY DEF Kept
<1> HIDE DEF kept, last
<1>4. \A i \in 0..last : kept[i] = Next1(kept, i)
  BY <1>2
<1> DEFINE Up(n) == {entries[m].item : m \in {k \in 1..n : entries[k].form \in wanted}}
           T == {n \in Nat : n <= last => kept[n] \in Seq(Items) /\ Entries(kept[n]) = Up(n)}
<1>5. 0 \in T
  <2>1. kept[0] = <<>>
    BY <1>0, <1>4
  <2>2. <<>> \in Seq(Items) /\ Entries(<<>>) = {} /\ Up(0) = {}
    BY DEF Entries
  <2> QED
    BY <2>1, <2>2
<1>6. ASSUME NEW n \in Nat, n \in T
      PROVE  n + 1 \in T
  <2> SUFFICES ASSUME n + 1 <= last
               PROVE  kept[n + 1] \in Seq(Items) /\ Entries(kept[n + 1]) = Up(n + 1)
    OBVIOUS
  <2>1. kept[n] \in Seq(Items) /\ Entries(kept[n]) = Up(n)
    BY <1>0, <1>6
  <2>2. n + 1 \in 1..last /\ kept[n + 1] = Next1(kept, n + 1) /\ n + 1 - 1 = n
    BY <1>0, <1>4
  <2>3. entries[n + 1].item \in Items
    BY <1>0, <2>2 DEF Entry
  <2>4. Up(n + 1) = Up(n) \cup (IF entries[n + 1].form \in wanted
                                THEN {entries[n + 1].item} ELSE {})
    <3>1. 1..(n + 1) = (1..n) \cup {n + 1}
      OBVIOUS
    <3> QED
      BY <3>1
  <2>5. n + 1 # 0
    OBVIOUS
  <2> HIDE DEF Up
  <2>6. CASE entries[n + 1].form \in wanted
    <3>1. kept[n + 1] = Append(kept[n], entries[n + 1].item)
      BY <2>2, <2>5, <2>6
    <3>2. PICK s, x : s = kept[n] /\ x = entries[n + 1].item
      OBVIOUS
    <3>3. s \in Seq(Items) /\ x \in Items
      BY <2>1, <2>3, <3>2
    <3>4. Append(s, x) \in Seq(Items) /\ Entries(Append(s, x)) = Entries(s) \cup {x}
      BY ONLY <3>3, AppendEntries
    <3> QED
      BY <2>1, <2>4, <2>6, <3>1, <3>2, <3>4
  <2>7. CASE entries[n + 1].form \notin wanted
    <3>1. kept[n + 1] = kept[n]
      BY <2>2, <2>5, <2>7
    <3> QED
      BY <2>1, <2>4, <2>7, <3>1
  <2> QED
    BY <2>6, <2>7
<1> HIDE DEF T
<1>7. last \in T
  BY <1>0, <1>5, <1>6, NatFill
<1> QED
  BY <1>0, <1>3, <1>7 DEF T
(* What comes one after the other has the items of all its parts. *)
LEMMA FlattenAre ==
    ASSUME NEW S, NEW ss \in Seq(Seq(S))
    PROVE  /\ FlattenSeq(ss) \in Seq(S)
           /\ Entries(FlattenSeq(ss)) = UNION {Entries(ss[n]) : n \in DOMAIN ss}
<1> DEFINE last == Len(ss)
           Next1(f, i) == IF i = 1 THEN ss[i] ELSE f[i - 1] \o ss[i]
           Is(f, n) == f = [i \in 1..n |-> Next1(f, i)]
           flat == CHOOSE f : Is(f, last)
<1>0. last \in Nat /\ DOMAIN ss = 1..last /\ \A i \in 1..last : ss[i] \in Seq(S)
  OBVIOUS
<1>1. \E f : Is(f, last)
  <2> DEFINE R == {n \in Nat : \E f : Is(f, n)}
  <2>1. 0 \in R
    <3>1. Is([i \in 1..0 |-> <<>>], 0)
      OBVIOUS
    <3> HIDE DEF Next1
    <3> QED
      BY <3>1
  <2>2. ASSUME NEW n \in Nat, n \in R
        PROVE  n + 1 \in R
    <3>1. PICK f : Is(f, n)
      BY <2>2
    <3> DEFINE g == [i \in 1..(n + 1) |-> IF i <= n THEN f[i] ELSE Next1(f, i)]
    <3>2. \A i \in 1..n : g[i] = f[i] /\ f[i] = Next1(f, i)
      <4> HIDE DEF Next1
      <4>1. f = [i \in 1..n |-> Next1(f, i)]
        BY <3>1
      <4>2. \A i \in 1..n : f[i] = Next1(f, i)
        BY <4>1
      <4>3. \A i \in 1..n : g[i] = f[i]
        OBVIOUS
      <4> QED
        BY <4>2, <4>3
    <3>3. ASSUME NEW i \in 1..(n + 1)
          PROVE  g[i] = Next1(g, i)
      <4>1. i # 1 => g[i - 1] = f[i - 1]
        BY <3>2
      <4>2. Next1(g, i) = Next1(f, i)
        BY <4>1
      <4>3. g[i] = Next1(f, i)
        <5> HIDE DEF Next1
        <5>1. g[i] = IF i <= n THEN f[i] ELSE Next1(f, i)
          OBVIOUS
        <5>2. CASE i <= n
          <6>1. i \in 1..n
            BY <5>2
          <6> QED
            BY <3>2, <6>1
        <5>3. CASE ~(i <= n)
          BY <5>1, <5>3
        <5> QED
          BY <5>2, <5>3
      <4> QED
        BY <4>2, <4>3
    <3>4. Is(g, n + 1)
      <4> HIDE DEF Next1
      <4> QED
        BY <3>3
    <3> HIDE DEF Is, g
    <3> QED
      BY <3>4
  <2> QED
    BY <1>0, <2>1, <2>2, NatFill
<1>2. Is(flat, last)
  BY <1>1
<1>3. FlattenSeq(ss) = IF last = 0 THEN ss ELSE flat[last]
  BY DEF FlattenSeq
<1> HIDE DEF flat, last
<1>4. \A i \in 1..last : flat[i] = Next1(flat, i)
  BY <1>2
<1> DEFINE Up(n) == UNION {Entries(ss[m]) : m \in 1..n}
           T == {n \in Nat : n \in 1..last => flat[n] \in Seq(S) /\ Entries(flat[n]) = Up(n)}
<1>5. 0 \in T
  OBVIOUS
<1>6. ASSUME NEW n \in Nat, n \in T
      PROVE  n + 1 \in T
  <2> SUFFICES ASSUME n + 1 \in 1..last
               PROVE  flat[n + 1] \in Seq(S) /\ Entries(flat[n + 1]) = Up(n + 1)
    OBVIOUS
  <2>1. ss[n + 1] \in Seq(S) /\ flat[n + 1] = Next1(flat, n + 1)
    BY <1>0, <1>4
  <2>2. Up(n + 1) = Up(n) \cup Entries(ss[n + 1])
    <3>1. 1..(n + 1) = (1..n) \cup {n + 1}
      OBVIOUS
    <3> QED
      BY <3>1
  <2>3. CASE n = 0
    <3>1. Up(0) = {}
      OBVIOUS
    <3>2. flat[n + 1] = ss[n + 1]
      BY <2>1, <2>3
    <3> HIDE DEF Up
    <3> QED
      BY <2>1, <2>2, <2>3, <3>1, <3>2
  <2>4. CASE n # 0
    <3>1. flat[n] \in Seq(S) /\ Entries(flat[n]) = Up(n)
      BY <1>0, <1>6, <2>4
    <3>2. flat[n + 1] = flat[n] \o ss[n + 1]
      <4>1. PICK i : i = n + 1
        OBVIOUS
      <4>2. i # 1 /\ i - 1 = n
        BY <2>4, <4>1
      <4>3. flat[i] = Next1(flat, i)
        BY <2>1, <4>1
      <4>4. flat[i] = flat[i - 1] \o ss[i]
        BY <4>2, <4>3, Zenon
      <4> QED
        BY <4>1, <4>2, <4>4
    <3>3. PICK s, t : s = flat[n] /\ t = ss[n + 1]
      OBVIOUS
    <3>4. s \in Seq(S) /\ t \in Seq(S)
      BY <2>1, <3>1, <3>3
    <3>5. s \o t \in Seq(S) /\ Entries(s \o t) = Entries(s) \cup Entries(t)
      BY ONLY <3>4, ConcatEntries
    <3>6. flat[n + 1] = s \o t
      BY <3>2, <3>3
    <3>7. Up(n + 1) = Entries(s) \cup Entries(t)
      <4> HIDE DEF Up
      <4> QED
        BY <2>2, <3>1, <3>3
    <3> HIDE DEF Up
    <3> QED
      BY <3>5, <3>6, <3>7
  <2> QED
    BY <2>3, <2>4
<1> HIDE DEF T
<1>7. last \in T
  BY <1>0, <1>5, <1>6, NatFill
<1>8. CASE last = 0
  <2>1. FlattenSeq(ss) = ss /\ ss = <<>>
    BY <1>3, <1>8 DEF last
  <2> QED
    BY <2>1 DEF Entries
<1>9. CASE last # 0
  BY <1>0, <1>3, <1>7, <1>9 DEF T
<1> QED
  BY <1>8, <1>9
(* Min is the least element: if there were none, the numbers below all the *)
(* elements would fill Nat.                                                *)
LEMMA MinIsLeast ==
    ASSUME NEW B, B \subseteq Nat, B # {}
    PROVE  Min(B) \in B /\ \A k \in B : Min(B) <= k
<1>1. \E b \in B : \A k \in B : b <= k
  <2> SUFFICES ASSUME \A b \in B : \E k \in B : ~(b <= k) PROVE FALSE
    OBVIOUS
  <2> DEFINE Below == {n \in Nat : \A k \in B : n < k}
  <2>1. 0 \in Below
    <3>1. 0 \notin B
      OBVIOUS
    <3> QED
      BY <3>1
  <2>2. ASSUME NEW n \in Nat, n \in Below PROVE n + 1 \in Below
    <3>1. n + 1 \notin B
      <4> SUFFICES ASSUME n + 1 \in B PROVE FALSE
        OBVIOUS
      <4>1. PICK k \in B : ~(n + 1 <= k)
        OBVIOUS
      <4> QED
        BY <2>2, <4>1
    <3> QED
      BY <2>2, <3>1
  <2> HIDE DEF Below
  <2>3. Nat \subseteq Below
    BY <2>1, <2>2, NatFill
  <2>4. PICK b \in B : TRUE
    OBVIOUS
  <2>5. b \in Nat /\ b < b
    BY <2>3, <2>4 DEF Below
  <2> QED
    BY <2>5
<1> QED
  BY <1>1 DEF Min

LEMMA PrefixAre ==
    ASSUME NEW S, NEW s \in Seq(S), NEW k \in 0..Len(s)
    PROVE  /\ SubSeq(s, 1, k) \in Seq(S) /\ DOMAIN SubSeq(s, 1, k) = 1..k
           /\ \A n \in 1..k : SubSeq(s, 1, k)[n] = s[n]
OBVIOUS

(* A feed is read up to its limit. *)
LEMMA FeedIsRead ==
    ASSUME NEW a \in Replies
    PROVE  /\ ReadFeed(a) \in Seq(Items)
           /\ Entries(ReadFeed(a)) = IF a.ok THEN OfFeed(a.entries) ELSE {}
<1> DEFINE feed == a.entries
           seen == Looked(feed)
<1>0. a.ok \in BOOLEAN /\ feed \in Seq(Entry)
  BY DEF Replies, Entry
<1>1. Len(feed) \in Nat /\ FeedLimit \in Nat /\ DOMAIN feed = 1..Len(feed)
  BY <1>0, FetchersAssumption
<1>2. /\ seen \in Seq(Entry)
      /\ DOMAIN seen = {n \in DOMAIN feed : n <= FeedLimit}
      /\ \A n \in DOMAIN seen : seen[n] = feed[n]
  <2>1. CASE Len(feed) < FeedLimit
    BY <1>0, <1>1, <2>1 DEF Looked
  <2>2. CASE ~(Len(feed) < FeedLimit)
    <3>1. FeedLimit \in 0..Len(feed) /\ seen = SubSeq(feed, 1, FeedLimit)
      BY <1>1, <2>2 DEF Looked
    <3>2. PICK s, k : s = feed /\ k = FeedLimit
      OBVIOUS
    <3>3. s \in Seq(Entry) /\ k \in 0..Len(s)
      BY <1>0, <3>1, <3>2
    <3>4. /\ SubSeq(s, 1, k) \in Seq(Entry) /\ DOMAIN SubSeq(s, 1, k) = 1..k
          /\ \A n \in 1..k : SubSeq(s, 1, k)[n] = s[n]
      BY ONLY <3>3, PrefixAre
    <3>5. 1..FeedLimit = {n \in DOMAIN feed : n <= FeedLimit}
      BY <1>1, <3>1
    <3> HIDE DEF feed, seen
    <3> QED
      BY <3>1, <3>2, <3>4, <3>5
  <2> QED
    BY <2>1, <2>2
<1>3. CASE a.ok
  <2>1. ReadFeed(a) = Kept(seen, FromFeed)
    BY <1>3 DEF ReadFeed
  <2>2. PICK s : s = seen
    OBVIOUS
  <2>3. s \in Seq(Entry)
    BY <1>2, <2>2
  <2>4. /\ Kept(s, FromFeed) \in Seq(Items)
        /\ Entries(Kept(s, FromFeed))
             = {s[n].item : n \in {m \in DOMAIN s : s[m].form \in FromFeed}}
    BY ONLY <2>3, KeptAre
  <2>5. {m \in DOMAIN s : s[m].form \in FromFeed}
           = {m \in DOMAIN feed : m <= FeedLimit /\ feed[m].form \in FromFeed}
    <3> HIDE DEF feed, seen
    <3> QED
      BY <1>2, <2>2
  <2>6. {s[n].item : n \in {m \in DOMAIN s : s[m].form \in FromFeed}} = OfFeed(feed)
    <3>1. \A n \in {m \in DOMAIN s : s[m].form \in FromFeed} : s[n].item = feed[n].item
      <4> HIDE DEF feed, seen
      <4> QED
        BY <1>2, <2>2
    <3> HIDE DEF feed, seen
    <3> QED
      BY <2>5, <3>1 DEF OfFeed
  <2> QED
    BY <1>3, <2>1, <2>2, <2>4, <2>6
<1>4. CASE ~a.ok
  BY <1>4 DEF ReadFeed, Entries
<1> QED
  BY <1>0, <1>3, <1>4

(* A category is read up to the first entry that breaks it. *)
LEMMA CategoryIsRead ==
    ASSUME NEW a \in Replies
    PROVE  /\ ReadCategory(a) \in Seq(Items)
           /\ Entries(ReadCategory(a)) = IF a.ok THEN OfCategory(a.entries) ELSE {}
<1> DEFINE list == a.entries
           seen == Sound(list)
           Whole(n) == \A k \in 1..n : list[k].form # "broken"
<1>0. a.ok \in BOOLEAN /\ list \in Seq(Entry)
  BY DEF Replies, Entry
<1>1. Len(list) \in Nat /\ DOMAIN list = 1..Len(list)
  BY <1>0
<1>2. /\ seen \in Seq(Entry)
      /\ DOMAIN seen = {n \in DOMAIN list : Whole(n)}
      /\ \A n \in DOMAIN seen : seen[n] = list[n]
  <2>1. CASE Breaks(list) = {}
    <3>1. \A n \in DOMAIN list : list[n].form # "broken"
      BY <2>1 DEF Breaks
    <3>2. \A n \in DOMAIN list : Whole(n)
      BY <1>1, <3>1
    <3>3. seen = list
      BY <2>1 DEF Sound
    <3> HIDE DEF list, seen, Whole
    <3> QED
      BY <1>0, <3>2, <3>3
  <2>2. CASE Breaks(list) # {}
    <3>1. PICK B, b : B = Breaks(list) /\ b = Min(B)
      OBVIOUS
    <3>2. B \subseteq Nat /\ B # {} /\ B \subseteq 1..Len(list)
      BY <1>1, <2>2, <3>1 DEF Breaks
    <3>3. Min(B) \in B /\ \A k \in B : Min(B) <= k
      BY ONLY <3>2, MinIsLeast
    <3>4. b \in 1..Len(list) /\ b \in B /\ \A k \in B : b <= k
      BY <3>1, <3>2, <3>3
    <3>5. b - 1 \in 0..Len(list) /\ seen = SubSeq(list, 1, b - 1)
      <4>1. b - 1 \in 0..Len(list)
        BY <1>1, <3>4
      <4>2. seen = SubSeq(list, 1, b - 1)
        BY <2>2, <3>1 DEF Sound
      <4> QED
        BY <4>1, <4>2
    <3>6. PICK s, k : s = list /\ k = b - 1
      OBVIOUS
    <3>7. s \in Seq(Entry) /\ k \in 0..Len(s)
      BY <1>0, <3>5, <3>6
    <3>8. /\ SubSeq(s, 1, k) \in Seq(Entry) /\ DOMAIN SubSeq(s, 1, k) = 1..k
          /\ \A n \in 1..k : SubSeq(s, 1, k)[n] = s[n]
      BY ONLY <3>7, PrefixAre
    <3>9. \A n \in 1..Len(list) : Whole(n) <=> n <= b - 1
      <4> SUFFICES ASSUME NEW n \in 1..Len(list) PROVE Whole(n) <=> n <= b - 1
        OBVIOUS
      <4>1. CASE n <= b - 1
        <5>1. \A j \in 1..n : j \in 1..Len(list) /\ j \notin B
          BY <1>1, <3>2, <3>4, <4>1
        <5>2. \A j \in 1..n : list[j].form # "broken"
          BY <1>1, <3>1, <5>1 DEF Breaks
        <5> QED
          BY <4>1, <5>2
      <4>2. CASE ~(n <= b - 1)
        <5>1. b \in 1..n /\ list[b].form = "broken"
          BY <1>1, <3>1, <3>4, <4>2 DEF Breaks
        <5> QED
          BY <4>2, <5>1
      <4> QED
        BY <4>1, <4>2
    <3>10. 1..(b - 1) = {n \in DOMAIN list : Whole(n)}
      <4>1. 1..(b - 1) = {n \in 1..Len(list) : n <= b - 1}
        BY <1>1, <3>4
      <4> HIDE DEF Whole, list
      <4> QED
        BY <1>1, <3>9, <4>1
    <3> HIDE DEF list, seen, Whole
    <3> QED
      BY <3>5, <3>6, <3>8, <3>10
  <2> QED
    BY <2>1, <2>2
<1>3. CASE a.ok
  <2>1. ReadCategory(a) = Kept(seen, FromCategory)
    BY <1>3 DEF ReadCategory
  <2>2. PICK s : s = seen
    OBVIOUS
  <2>3. s \in Seq(Entry)
    BY <1>2, <2>2
  <2>4. /\ Kept(s, FromCategory) \in Seq(Items)
        /\ Entries(Kept(s, FromCategory))
             = {s[n].item : n \in {m \in DOMAIN s : s[m].form \in FromCategory}}
    BY ONLY <2>3, KeptAre
  <2>5. {m \in DOMAIN s : s[m].form \in FromCategory}
           = {m \in DOMAIN list : list[m].form \in FromCategory /\ Whole(m)}
    <3> HIDE DEF list, seen, Whole
    <3> QED
      BY <1>2, <2>2
  <2>6. {s[n].item : n \in {m \in DOMAIN s : s[m].form \in FromCategory}} = OfCategory(list)
    <3>1. \A n \in {m \in DOMAIN s : s[m].form \in FromCategory} : s[n].item = list[n].item
      <4> HIDE DEF list, seen, Whole
      <4> QED
        BY <1>2, <2>2
    <3>2. OfCategory(list) = {list[n].item : n \in {m \in DOMAIN list :
                                 list[m].form \in FromCategory /\ Whole(m)}}
      BY DEF OfCategory
    <3> HIDE DEF list, seen, Whole
    <3> QED
      BY <2>5, <3>1, <3>2
  <2> QED
    BY <1>3, <2>1, <2>2, <2>4, <2>6
<1>4. CASE ~a.ok
  BY <1>4 DEF ReadCategory, Entries
<1> QED
  BY <1>0, <1>3, <1>4
(* Sources read one after the other bring what each of them offers. *)
LEMMA SourcesAreRead ==
    ASSUME NEW answers \in Seq(Replies), NEW offer,
           NEW read \in [DOMAIN answers -> Seq(Items)],
           \A n \in DOMAIN answers :
               Entries(read[n]) = IF answers[n].ok THEN offer[answers[n]] ELSE {}
    PROVE  /\ FlattenSeq(read) \in Seq(Items)
           /\ Entries(FlattenSeq(read)) = UNION {offer[a] : a \in Answered(answers)}
<1>1. read \in Seq(Seq(Items))
  <2>1. Len(answers) \in Nat /\ DOMAIN answers = 1..Len(answers)
    OBVIOUS
  <2>2. PICK n \in Nat : DOMAIN answers = 1..n
    BY <2>1
  <2>3. read \in [1..n -> Seq(Items)]
    BY <2>2
  <2> QED
    BY ONLY n \in Nat, <2>3, SeqDef
<1>2. /\ FlattenSeq(read) \in Seq(Items)
      /\ Entries(FlattenSeq(read)) = UNION {Entries(read[n]) : n \in DOMAIN read}
  BY ONLY <1>1, FlattenAre
<1>3. Answered(answers) = {a \in {answers[n] : n \in DOMAIN answers} : a.ok}
  BY DEF Answered, ToSet
<1>4. ASSUME NEW x, x \in UNION {Entries(read[n]) : n \in DOMAIN read}
      PROVE  x \in UNION {offer[a] : a \in Answered(answers)}
  <2>1. PICK n \in DOMAIN answers : x \in Entries(read[n])
    BY <1>4
  <2>2. answers[n].ok /\ x \in offer[answers[n]]
    BY <2>1
  <2>3. answers[n] \in Answered(answers)
    BY <1>3, <2>2
  <2> QED
    BY <2>2, <2>3
<1>5. ASSUME NEW x, x \in UNION {offer[a] : a \in Answered(answers)}
      PROVE  x \in UNION {Entries(read[n]) : n \in DOMAIN read}
  <2>1. PICK a \in Answered(answers) : x \in offer[a]
    BY <1>5
  <2>2. PICK n \in DOMAIN answers : a = answers[n] /\ a.ok
    BY <1>3, <2>1
  <2> QED
    BY <2>1, <2>2
<1> QED
  BY <1>2, <1>4, <1>5

LEMMA FeedsAreRead ==
    ASSUME NEW answers \in Seq(Replies)
    PROVE  /\ ReadFeeds(answers) \in Seq(Items)
           /\ Entries(ReadFeeds(answers)) = UNION {OfFeed(a.entries) : a \in Answered(answers)}
<1>1. PICK read, offer : /\ read = [n \in DOMAIN answers |-> ReadFeed(answers[n])]
                         /\ offer = [a \in Replies |-> OfFeed(a.entries)]
  OBVIOUS
<1>2. \A n \in DOMAIN answers : answers[n] \in Replies
  OBVIOUS
<1>3. read \in [DOMAIN answers -> Seq(Items)]
  BY <1>1, <1>2, FeedIsRead
<1>4. \A n \in DOMAIN answers :
         Entries(read[n]) = IF answers[n].ok THEN offer[answers[n]] ELSE {}
  BY <1>1, <1>2, FeedIsRead
<1>5. /\ FlattenSeq(read) \in Seq(Items)
      /\ Entries(FlattenSeq(read)) = UNION {offer[a] : a \in Answered(answers)}
  BY <1>3, <1>4, SourcesAreRead
<1>6. \A a \in Answered(answers) : offer[a] = OfFeed(a.entries)
  BY <1>1, <1>2 DEF Answered, ToSet
<1>7. UNION {offer[a] : a \in Answered(answers)}
        = UNION {OfFeed(a.entries) : a \in Answered(answers)}
  BY <1>6
<1> QED
  BY <1>1, <1>5, <1>7 DEF ReadFeeds

LEMMA CategoriesAreRead ==
    ASSUME NEW answers \in Seq(Replies)
    PROVE  /\ ReadCategories(answers) \in Seq(Items)
           /\ Entries(ReadCategories(answers))
                = UNION {OfCategory(a.entries) : a \in Answered(answers)}
<1>1. PICK read, offer : /\ read = [n \in DOMAIN answers |-> ReadCategory(answers[n])]
                         /\ offer = [a \in Replies |-> OfCategory(a.entries)]
  OBVIOUS
<1>2. \A n \in DOMAIN answers : answers[n] \in Replies
  OBVIOUS
<1>3. read \in [DOMAIN answers -> Seq(Items)]
  BY <1>1, <1>2, CategoryIsRead
<1>4. \A n \in DOMAIN answers :
         Entries(read[n]) = IF answers[n].ok THEN offer[answers[n]] ELSE {}
  BY <1>1, <1>2, CategoryIsRead
<1>5. /\ FlattenSeq(read) \in Seq(Items)
      /\ Entries(FlattenSeq(read)) = UNION {offer[a] : a \in Answered(answers)}
  BY <1>3, <1>4, SourcesAreRead
<1>6. \A a \in Answered(answers) : offer[a] = OfCategory(a.entries)
  BY <1>1, <1>2 DEF Answered, ToSet
<1>7. UNION {offer[a] : a \in Answered(answers)}
        = UNION {OfCategory(a.entries) : a \in Answered(answers)}
  BY <1>6
<1> QED
  BY <1>1, <1>5, <1>7 DEF ReadCategories

(* A round brings what its sources offer, in some order. *)
LEMMA CollectedIsOffered ==
    ASSUME NEW round \in Rounds
    PROVE  Entries(Collected(round)) = Offered(round)
<1>1. round.feeds \in Seq(Replies) /\ round.categories \in Seq(Replies)
  BY RoundsAssumption
<1>2. PICK s, t : s = ReadFeeds(round.feeds) /\ t = ReadCategories(round.categories)
  OBVIOUS
<1>3. s \in Seq(Items)
      /\ Entries(s) = UNION {OfFeed(a.entries) : a \in Answered(round.feeds)}
  BY <1>1, <1>2, FeedsAreRead
<1>4. t \in Seq(Items)
      /\ Entries(t) = UNION {OfCategory(a.entries) : a \in Answered(round.categories)}
  BY <1>1, <1>2, CategoriesAreRead
<1>5. Entries(s \o t) = Entries(s) \cup Entries(t)
  BY <1>3, <1>4, ConcatEntries
<1> QED
  BY <1>2, <1>3, <1>4, <1>5 DEF Collected, Offered

LEMMA StepTroubleStays == Typed /\ TroubleStaysLocal /\ [Next]_vars => TroubleStaysLocal'
<1> SUFFICES ASSUME Typed, TroubleStaysLocal, [Next]_vars,
                    NEW v \in Workers, pc'[v] = "hashes"
             PROVE  fetched'[v] \in Batches
  BY DEF TroubleStaysLocal
<1>1. CASE FetchAndReadUrls(v)
  <2>1. PICK feed \in Feeds : fetched'[v] = Entries(feed)
    BY <1>1 DEF FetchAndReadUrls, Typed, TypeOK
  <2>2. PICK round \in Rounds : feed = Collected(round)
    BY RoundsAssumption
  <2>3. fetched'[v] = Offered(round)
    BY <2>1, <2>2, CollectedIsOffered
  <2> QED
    BY <2>3 DEF Batches
<1>2. CASE ~FetchAndReadUrls(v)
  <2>1. CASE UNCHANGED vars
    BY <2>1 DEF vars, TroubleStaysLocal
  <2>2. ASSUME NEW w \in Workers, ReadFlags(w) \/ Step(w) \/ InsertFails(w) \/ Abort(w)
        PROVE  pc'[v] = pc[v] /\ fetched'[v] = fetched[v]
    BY <1>2, <2>2 DEF ReadFlags, Step, InsertFails, DeadlockVictim, Lose, Abort,
       FetchAndReadUrls, ReadHashes, Drop, Insert, CommitRows, LogFetch, Chain, EndRun, Goto,
       Typed, TypeOK
  <2> QED
    BY <2>1, <2>2 DEF Next, TroubleStaysLocal
<1> QED
  BY <1>1, <1>2

(* Whatever sources refuse and whatever entries raise, for any feeds and   *)
(* categories, a run starts from all that the round's sound sources offer  *)
(* and the sound part of the others, and from nothing else.                *)
THEOREM TroubleStaysLocalHolds == Spec => []TroubleStaysLocal
<1>1. Init => TroubleStaysLocal
  BY DEF Init, TroubleStaysLocal
<1>2. Spec => []Typed
  BY InitTyped, StepTyped, PTL DEF Spec
<1> QED
  BY <1>1, <1>2, StepTroubleStays, PTL DEF Spec
================================================================================
