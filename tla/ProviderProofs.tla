----------------------------- MODULE ProviderProofs -----------------------------
(***************************************************************************)
(* Theorems about the calls to the providers, for any times and retries:   *)
(* types, the bound on the requests that are under way at once, and what   *)
(* is published for an answer.                                             *)
(*                                                                         *)
(* A thread is as old as its requests and pauses allow, so none outlives   *)
(* Life; and as a call starts only when the one before has ended or has    *)
(* been given up after ArticleTime, any two threads are that far apart.    *)
(* So their ages, divided by ArticleTime, are all different.               *)
(***************************************************************************)
EXTENDS Provider, FiniteSetTheorems, SequenceTheorems, TLAPS

LEMMA DivGrows ==
    ASSUME NEW a \in Nat, NEW b \in Nat \ {0}, NEW c \in Nat, a <= c
    PROVE  a \div b \in Nat /\ c \div b \in Nat /\ a \div b <= c \div b
  OBVIOUS

LEMMA DivApart ==
    ASSUME NEW a \in Nat, NEW b \in Nat \ {0}, NEW c \in Nat, a + b <= c
    PROVE  a \div b # c \div b
  OBVIOUS

(* What n requests and the pauses after them take.                         *)
Spent(p, n) == n * (RequestTime[p] + PauseTime[p])

LEMMA SpentProps ==
    ASSUME NEW p \in Providers, NEW n \in Nat, NEW m \in Nat, n <= m
    PROVE  /\ Spent(p, n) \in Nat
           /\ Spent(p, n + 1) = Spent(p, n) + RequestTime[p] + PauseTime[p]
           /\ Spent(p, n) <= Spent(p, m)
           /\ Spent(p, 0) = 0
<1> DEFINE s == RequestTime[p] + PauseTime[p]
<1>1. s \in Nat /\ RequestTime[p] \in Nat /\ PauseTime[p] \in Nat
  BY TimesAssumption
<1> HIDE DEF s
<1>2. n * s \in Nat /\ (n + 1) * s = n * s + s /\ n * s <= m * s /\ 0 * s = 0
  BY <1>1
<1> QED
  BY <1>1, <1>2 DEF Spent, s

LEMMA LifeProps ==
    ASSUME NEW p \in Providers
    PROVE  /\ Life(p) \in Nat
           /\ Life(p) = Spent(p, Requests[p] - 1) + RequestTime[p]
<1> DEFINE r == RequestTime[p]
           w == PauseTime[p]
           k == Requests[p]
<1>1. r \in Nat /\ w \in Nat /\ k \in Nat \ {0}
  BY TimesAssumption
<1> HIDE DEF r, w, k
<1>2. k * r + (k - 1) * w = (k - 1) * (r + w) + r
  BY <1>1
<1>3. k * r \in Nat /\ (k - 1) * w \in Nat
  BY <1>1
<1> QED
  BY <1>1, <1>2, <1>3 DEF Life, Spent, r, w, k

-----------------------------------------------------------------------------
(* The books of a thread: its age is what its requests and pauses took.    *)
Booked(t) ==
    /\ t \in Thread
    /\ t.request \in 1..Requests[provider]
    /\ t.asking => /\ t.since <= RequestTime[provider]
                   /\ t.age <= Spent(provider, t.request - 1) + t.since
    /\ ~t.asking => /\ t.request < Requests[provider]
                    /\ t.since <= PauseTime[provider]
                    /\ t.age <= Spent(provider, t.request - 1) + RequestTime[provider] + t.since

Apart(t, u) == t.age + ArticleTime <= u.age

Spaced == \A t, u \in Running : t = u \/ Apart(t, u) \/ Apart(u, t)

IInv ==
    /\ provider \in Providers
    /\ \A t, u \in waited : t = u
    /\ \A t \in Running : Booked(t)
    /\ \A t \in waited : t.age <= ArticleTime
    /\ \A t \in abandoned : t.age >= ArticleTime
    /\ Spaced
    /\ said \in Answers(provider)
    /\ outcome \in Published \cup {"none", "failed", "timeout"}

LEMMA BookedAge ==
    ASSUME provider \in Providers, NEW t, Booked(t)
    PROVE  t.age \in 0..Life(provider)
<1> DEFINE k == Requests[provider]
           n == t.request - 1
<1>1. /\ k \in Nat \ {0} /\ RequestTime[provider] \in Nat /\ PauseTime[provider] \in Nat
      /\ n \in Nat /\ n <= k - 1 /\ k - 1 \in Nat /\ n + 1 = t.request
      /\ t.age \in Nat /\ t.since \in Nat /\ t.asking \in BOOLEAN
  BY TimesAssumption DEF Booked, Thread
<1>2. /\ Life(provider) \in Nat
      /\ Life(provider) = Spent(provider, k - 1) + RequestTime[provider]
  BY LifeProps
<1>3. /\ Spent(provider, n) \in Nat /\ Spent(provider, k - 1) \in Nat
      /\ Spent(provider, n) <= Spent(provider, k - 1)
  <2> HIDE DEF n, k
  <2> QED BY <1>1, SpentProps
<1>4. CASE t.asking
  BY <1>1, <1>2, <1>3, <1>4 DEF Booked
<1>5. CASE ~t.asking
  <2>1. n + 1 \in Nat /\ n + 1 <= k - 1
    BY <1>1, <1>5 DEF Booked
  <2>2. /\ Spent(provider, n + 1) = Spent(provider, n) + RequestTime[provider] + PauseTime[provider]
        /\ Spent(provider, n + 1) <= Spent(provider, k - 1)
    <3> HIDE DEF n, k
    <3> QED BY <1>1, <2>1, SpentProps
  <2> QED
    BY <1>1, <1>2, <1>3, <1>5, <2>2 DEF Booked
<1> QED
  BY <1>1, <1>4, <1>5

(* A fresh thread, an older one, and one that turned to a pause or to its  *)
(* next request, keep the books.                                           *)
LEMMA BookedFresh ==
    ASSUME provider \in Providers
    PROVE  Booked(Fresh) /\ Fresh.age = 0
<1>1. Spent(provider, 0) = 0
  BY SpentProps
<1> QED
  BY <1>1, TimesAssumption DEF Booked, Fresh, Thread

LEMMA BookedOlder ==
    ASSUME provider \in Providers, NEW t, Booked(t), ~Due(t)
    PROVE  Booked(Older(t)) /\ Older(t).age = t.age + 1
<1>1. /\ t \in Thread /\ t.asking \in BOOLEAN
      /\ RequestTime[provider] \in Nat /\ PauseTime[provider] \in Nat
      /\ Requests[provider] \in Nat
  BY TimesAssumption DEF Booked, Thread
<1>2. /\ Older(t) \in Thread /\ Older(t).age = t.age + 1 /\ Older(t).since = t.since + 1
      /\ Older(t).request = t.request /\ Older(t).asking = t.asking
  BY <1>1 DEF Older, Thread
<1>3. t.age \in Nat /\ t.since \in Nat /\ t.request \in Nat
  BY <1>1 DEF Thread
<1>4. t.request - 1 \in Nat
  BY <1>3 DEF Booked
<1>5. Spent(provider, t.request - 1) \in Nat
  BY <1>4, SpentProps
<1>6. CASE t.asking
  BY <1>1, <1>2, <1>3, <1>5, <1>6 DEF Booked, Due
<1>7. CASE ~t.asking
  BY <1>1, <1>2, <1>3, <1>5, <1>7 DEF Booked, Due
<1> QED
  BY <1>1, <1>6, <1>7

LEMMA BookedTurn ==
    ASSUME provider \in Providers, NEW t, Booked(t), NEW u, Turns(t, u)
    PROVE  Booked(u) /\ u.age = t.age
<1>1. /\ t \in Thread /\ t.asking \in BOOLEAN /\ t.age \in Nat /\ t.since \in Nat
      /\ t.request \in Nat \ {0} /\ t.request - 1 \in Nat
      /\ RequestTime[provider] \in Nat /\ PauseTime[provider] \in Nat
      /\ Requests[provider] \in Nat
  BY TimesAssumption DEF Booked, Thread
<1>2. /\ Spent(provider, t.request - 1) \in Nat
      /\ Spent(provider, (t.request - 1) + 1)
           = Spent(provider, t.request - 1) + RequestTime[provider] + PauseTime[provider]
  BY <1>1, SpentProps
<1>3. CASE t.asking
  <2>1. u = Paused(t) /\ t.request < Requests[provider]
    BY <1>3 DEF Turns, TriesLeft
  <2>2. /\ u \in Thread /\ u.age = t.age /\ u.since = 0 /\ u.asking = FALSE
        /\ u.request = t.request
    BY <1>1, <2>1 DEF Paused, Thread
  <2> QED
    BY <1>1, <1>2, <1>3, <2>1, <2>2 DEF Booked
<1>4. CASE ~t.asking
  <2>1. u = Resumed(t)
    BY <1>4 DEF Turns
  <2>2. /\ u \in Thread /\ u.age = t.age /\ u.since = 0 /\ u.asking = TRUE
        /\ u.request = t.request + 1
    BY <1>1, <2>1 DEF Resumed, Thread
  <2>3. u.request - 1 = (t.request - 1) + 1
    BY <1>1, <2>2
  <2> QED
    BY <1>1, <1>2, <1>4, <2>2, <2>3 DEF Booked
<1> QED
  BY <1>1, <1>3, <1>4

-----------------------------------------------------------------------------
LEMMA ReadRange ==
    ASSUME NEW a PROVE Read(a) \in Published \cup {"none", "failed", "timeout"}
<1>1. ReadGroq(a) \in {"summary", "failed"}
  BY DEF ReadGroq
<1>2. ReadBedrock(a) \in Published
  <2> DEFINE text == Stripped(a)
             mind == Has(text, "thought") \/ Has(text, "open")
             cut == Has(text, "piece")
  <2>1. ReadBedrock(a) = IF text = <<"full">> THEN "summary"
                         ELSE IF text = <<"some">> THEN "part"
                         ELSE IF text = <<"odd">> THEN "literal"
                         ELSE IF text \in {<<>>, <<"hollow">>} THEN "blank"
                         ELSE IF text = <<"other">> THEN "extract"
                         ELSE IF mind THEN "reasoning"
                         ELSE IF cut THEN "syntax" ELSE "prose"
    BY DEF ReadBedrock
  <2> HIDE DEF text, mind, cut
  <2> QED
    BY <2>1 DEF Published
<1> QED
  BY <1>1, <1>2 DEF Read, Published

LEMMA InvInit == Init => IInv
  BY DEF Init, IInv, Running, Spaced, Answers, Whole, Published

LEMMA CallKeeps == IInv /\ Call => IInv'
<1> SUFFICES ASSUME IInv, Call PROVE IInv'
  OBVIOUS
<1>1. Booked(Fresh) /\ Fresh.age = 0 /\ ArticleTime \in Nat
  BY BookedFresh, TimesAssumption DEF IInv
<1>2. Booked(Fresh)'
  BY <1>1 DEF Booked, Call, Spent
<1>3. \A t \in Running : Booked(t)'
  BY DEF IInv, Booked, Call, Spent
<1>4. Running' = {Fresh} \cup abandoned /\ Running = abandoned
  BY DEF Running, Call
<1>5. (\A t \in Running : Booked(t))'
  BY <1>2, <1>3, <1>4
<1>6. \A t \in abandoned : t.age \in Nat /\ t.age >= ArticleTime
  BY DEF IInv, Running, Booked, Thread
<1>7. Spaced'
  <2>1. \A t \in abandoned : Apart(Fresh, t)
    BY <1>1, <1>6 DEF Apart
  <2>2. \A t, u \in abandoned : t = u \/ Apart(t, u) \/ Apart(u, t)
    BY <1>4 DEF IInv, Spaced
  <2> QED
    BY <1>4, <2>1, <2>2 DEF Spaced, Apart
<1>8. said' \in Answers(provider)' /\ outcome' \in Published \cup {"none", "failed", "timeout"}
  BY DEF Call, Answers, Whole
<1> QED
  BY <1>1, <1>5, <1>7, <1>8 DEF IInv, Call

(* The steps that only take threads away, or move one.                     *)
LEMMA FewerKeeps ==
    ASSUME IInv, provider' = provider,
           waited' \subseteq waited, abandoned' \subseteq Running,
           \A t \in abandoned' : t.age >= ArticleTime,
           said' \in Answers(provider),
           outcome' \in Published \cup {"none", "failed", "timeout"}
    PROVE  IInv'
<1>1. Running' \subseteq Running
  BY DEF Running
<1>2. \A t \in Running : Booked(t)'
  BY DEF IInv, Booked, Spent
<1>3. Spaced'
  BY <1>1 DEF IInv, Spaced, Apart
<1>4. (said \in Answers(provider))'
  OBVIOUS
<1> QED
  BY <1>1, <1>2, <1>3, <1>4 DEF IInv

LEMMA TakingKeeps == IInv /\ (Answer \/ Fail \/ GiveUp \/ LateEnd) => IInv'
<1> SUFFICES ASSUME IInv, Answer \/ Fail \/ GiveUp \/ LateEnd PROVE IInv'
  OBVIOUS
<1>1. /\ waited \subseteq Running /\ abandoned \subseteq Running
      /\ \A t \in abandoned : t.age >= ArticleTime
      /\ said \in Answers(provider)
      /\ outcome \in Published \cup {"none", "failed", "timeout"}
  BY DEF IInv, Running
<1>2. CASE Answer
  <2>1. PICK a \in Answers(provider) : said' = a /\ Ends(Read(a))
    BY <1>2 DEF Answer
  <2>2. outcome' \in Published \cup {"none", "failed", "timeout"}
    BY <2>1, ReadRange DEF Ends
  <2> QED
    BY <1>1, <2>1, <2>2, FewerKeeps DEF Ends
<1>3. CASE Fail
  BY <1>1, <1>3, FewerKeeps DEF Fail, Ends, Published
<1>4. CASE GiveUp
  <2>1. \A t \in waited : t.age >= ArticleTime
    BY <1>4 DEF GiveUp, Overdue, IInv
  <2> QED
    BY <1>1, <1>4, <2>1, FewerKeeps DEF GiveUp, Published
<1>5. CASE LateEnd
  BY <1>1, <1>5, FewerKeeps DEF LateEnd
<1> QED
  BY <1>2, <1>3, <1>4, <1>5

LEMMA RetryKeeps == IInv /\ Retry => IInv'
<1> SUFFICES ASSUME IInv, Retry PROVE IInv'
  OBVIOUS
<1>1. PICK t \in Running : \E u \in {Paused(t), Resumed(t)} :
          Turns(t, u) /\ waited' = Swapped(waited, t, u) /\ abandoned' = Swapped(abandoned, t, u)
  BY DEF Retry
<1>2. PICK u \in {Paused(t), Resumed(t)} :
          Turns(t, u) /\ waited' = Swapped(waited, t, u) /\ abandoned' = Swapped(abandoned, t, u)
  BY <1>1
<1>3. Booked(u) /\ u.age = t.age
  BY <1>2, BookedTurn DEF IInv
<1>4. /\ provider' = provider /\ said' = said /\ outcome' = outcome
  BY DEF Retry
<1>5. \A v : Booked(v) => Booked(v)'
  BY <1>4 DEF Booked, Spent
<1>6. /\ \A v \in waited' : v = u \/ (v \in waited /\ v # t)
      /\ \A v \in abandoned' : v = u \/ (v \in abandoned /\ v # t)
      /\ u \in waited' => t \in waited \/ u \in waited
      /\ u \in abandoned' => t \in abandoned \/ u \in abandoned
  BY <1>2 DEF Swapped
<1>7. /\ \A v \in waited' : v.age <= ArticleTime
      /\ \A v \in abandoned' : v.age >= ArticleTime
  BY <1>3, <1>6 DEF IInv
<1>8. (\A v, w \in waited : v = w)'
  BY <1>2 DEF Swapped, IInv
<1>9. \A v \in Running' : v = u \/ (v \in Running /\ v # t)
  BY <1>6 DEF Running
<1>10. (\A v \in Running : Booked(v))'
  BY <1>3, <1>5, <1>9 DEF IInv
<1>11. \A v, w \in Running' : v = w \/ Apart(v, w) \/ Apart(w, v)
  <2> SUFFICES ASSUME NEW v \in Running', NEW w \in Running', v # w
               PROVE  Apart(v, w) \/ Apart(w, v)
    OBVIOUS
  <2>1. CASE v = u
    <3>1. w \in Running /\ w # t
      BY <1>9, <2>1
    <3>2. Apart(t, w) \/ Apart(w, t)
      BY <3>1 DEF IInv, Spaced
    <3> QED
      BY <1>3, <2>1, <3>2 DEF Apart
  <2>2. CASE w = u
    <3>1. v \in Running /\ v # t
      BY <1>9, <2>2
    <3>2. Apart(t, v) \/ Apart(v, t)
      BY <3>1 DEF IInv, Spaced
    <3> QED
      BY <1>3, <2>2, <3>2 DEF Apart
  <2>3. CASE v # u /\ w # u
    BY <1>9, <2>3 DEF IInv, Spaced
  <2> QED
    BY <2>1, <2>2, <2>3
<1>12. Spaced'
  BY <1>11 DEF Spaced, Apart
<1> QED
  BY <1>4, <1>7, <1>8, <1>10, <1>12 DEF IInv

LEMMA TickKeeps == IInv /\ Tick => IInv'
<1> SUFFICES ASSUME IInv, Tick PROVE IInv'
  OBVIOUS
<1>1. /\ waited' = {Older(t) : t \in waited} /\ abandoned' = {Older(t) : t \in abandoned}
      /\ provider' = provider /\ said' = said /\ outcome' = outcome
      /\ \A t \in Running : ~Due(t)
  BY DEF Tick
<1>2. \A t \in Running : Booked(Older(t)) /\ Older(t).age = t.age + 1 /\ t.age \in Nat
  BY <1>1, BookedOlder DEF IInv, Booked, Thread
<1>3. \A v : Booked(v) => Booked(v)'
  BY <1>1 DEF Booked, Spent
<1>4. ArticleTime \in Nat
  BY TimesAssumption
<1>5. /\ \A v \in waited' : \E t \in waited : v = Older(t)
      /\ \A v \in abandoned' : \E t \in abandoned : v = Older(t)
      /\ \A v \in Running' : \E t \in Running : v = Older(t)
      /\ waited \subseteq Running /\ abandoned \subseteq Running
  BY <1>1 DEF Running
<1>6. \A v \in waited' : v.age <= ArticleTime
  <2> SUFFICES ASSUME NEW v \in waited' PROVE v.age <= ArticleTime
    OBVIOUS
  <2>1. PICK t \in waited : v = Older(t)
    BY <1>5
  <2>2. ~(t.age >= ArticleTime)
    BY DEF Tick, Overdue
  <2> QED
    BY <1>2, <1>4, <1>5, <2>1, <2>2
<1>7. \A v \in abandoned' : v.age >= ArticleTime
  <2> SUFFICES ASSUME NEW v \in abandoned' PROVE v.age >= ArticleTime
    OBVIOUS
  <2>1. PICK t \in abandoned : v = Older(t)
    BY <1>5
  <2>2. t.age >= ArticleTime
    BY DEF IInv
  <2> QED
    BY <1>2, <1>4, <1>5, <2>1, <2>2
<1>8. (\A v, w \in waited : v = w)'
  BY <1>1 DEF IInv
<1>9. (\A v \in Running : Booked(v))'
  BY <1>2, <1>3, <1>5
<1>10. \A v, w \in Running' : v = w \/ Apart(v, w) \/ Apart(w, v)
  <2> SUFFICES ASSUME NEW v \in Running', NEW w \in Running', v # w
               PROVE  Apart(v, w) \/ Apart(w, v)
    OBVIOUS
  <2>1. PICK t \in Running : v = Older(t)
    BY <1>5
  <2>2. PICK u \in Running : w = Older(u)
    BY <1>5
  <2>3. Apart(t, u) \/ Apart(u, t)
    BY <2>1, <2>2 DEF IInv, Spaced
  <2> QED
    BY <1>2, <1>4, <2>1, <2>2, <2>3 DEF Apart
<1>11. Spaced'
  BY <1>10 DEF Spaced, Apart
<1> QED
  BY <1>1, <1>6, <1>7, <1>8, <1>9, <1>11 DEF IInv

LEMMA StutterKeeps == IInv /\ UNCHANGED vars => IInv'
  BY DEF IInv, vars, Running, Spaced, Apart, Booked, Spent

LEMMA InvHolds == Spec => []IInv
<1>1. IInv /\ [Next]_vars => IInv'
  BY CallKeeps, TakingKeeps, RetryKeeps, TickKeeps, StutterKeeps DEF Next
<1> QED
  BY <1>1, InvInit, PTL DEF Spec

-----------------------------------------------------------------------------
(* Every reachable state is well typed: no thread outlives what its        *)
(* requests and pauses take, and the waited one is within its time.        *)
THEOREM ProviderTyping == Spec => []TypeOK
<1>1. IInv => TypeOK
  <2> SUFFICES ASSUME IInv PROVE TypeOK
    OBVIOUS
  <2>1. \A t \in Running : t \in Thread /\ t.age \in 0..Life(provider)
    BY BookedAge DEF IInv, Booked
  <2>2. /\ \A t \in waited : t.age <= ArticleTime
        /\ \A t \in abandoned : t.age >= ArticleTime
        /\ ArticleTime \in Nat /\ Life(provider) \in Nat
    BY LifeProps, TimesAssumption DEF IInv
  <2>3. \A t \in abandoned : t.age \in ArticleTime..Life(provider)
    BY <2>1, <2>2 DEF Running
  <2> QED
    BY <2>1, <2>2, <2>3 DEF IInv, TypeOK, Running
<1> QED
  BY <1>1, InvHolds, PTL

(* However slow the providers are, and however often a run is repeated, no *)
(* more requests are under way at once than there are timeouts in the life *)
(* of a thread, and one.                                                   *)
THEOREM FewThreads == Spec => []ThreadsBounded
<1>1. IInv => ThreadsBounded
  <2> SUFFICES ASSUME IInv PROVE ThreadsBounded
    OBVIOUS
  <2> DEFINE last == Life(provider) \div ArticleTime
             slot == [t \in Running |-> t.age \div ArticleTime]
  <2>1. ArticleTime \in Nat \ {0} /\ Life(provider) \in Nat
    BY LifeProps, TimesAssumption DEF IInv
  <2>2. \A t \in Running : t.age \in Nat /\ t.age <= Life(provider)
    BY <2>1, BookedAge DEF IInv
  <2>3. \A t \in Running : slot[t] \in 0..last
    <3> SUFFICES ASSUME NEW t \in Running PROVE t.age \div ArticleTime \in 0..last
      OBVIOUS
    <3>1. /\ t.age \div ArticleTime \in Nat /\ last \in Nat
          /\ t.age \div ArticleTime <= last
      BY <2>1, <2>2, DivGrows
    <3> QED
      BY <3>1
  <2>4. \A t, u \in Running : slot[t] = slot[u] => t = u
    <3> SUFFICES ASSUME NEW t \in Running, NEW u \in Running, t # u
                 PROVE  t.age \div ArticleTime # u.age \div ArticleTime
      OBVIOUS
    <3>1. t.age + ArticleTime <= u.age \/ u.age + ArticleTime <= t.age
      BY DEF IInv, Spaced, Apart
    <3>2. CASE t.age + ArticleTime <= u.age
      BY <2>1, <2>2, <3>2, DivApart
    <3>3. CASE u.age + ArticleTime <= t.age
      BY <2>1, <2>2, <3>3, DivApart
    <3> QED
      BY <3>1, <3>2, <3>3
  <2>5. last \in Nat
    BY <2>1, DivGrows
  <2> HIDE DEF last
  <2>6. slot \in [Running -> 0..last]
    BY <2>3
  <2>7. slot \in Injection(Running, 0..last)
    BY <2>4, <2>6 DEF Injection, IsInjective
  <2>8. IsFiniteSet(0..last) /\ Cardinality(0..last) = last + 1
    BY <2>5, FS_Interval
  <2>9. IsFiniteSet(Running) /\ Cardinality(Running) <= Cardinality(0..last)
    <3> HIDE DEF slot
    <3> QED BY <2>7, <2>8, FS_Injection
  <2> QED
    BY <2>8, <2>9 DEF ThreadsBounded, last
<1> QED
  BY <1>1, InvHolds, PTL

-----------------------------------------------------------------------------
(***************************************************************************)
(* What becomes of an answer, by its shape: all the answers are cuts of a  *)
(* body, or of a block of reasoning with a body after it.                  *)
(***************************************************************************)
Parts      == Bodies \cup {"piece"}
Plain(a)   == a = <<>> \/ \E b \in Parts : a = <<b>>
Musing(a)  == a = <<"open">> \/ a = <<"open", "thought">>
Mused(a)   == a = <<"open", "thought", "close">>
Thoughtful(a) == \E b \in Parts : a = <<"open", "thought", "close", b>>

LEMMA CutIs ==
    ASSUME NEW S, NEW s \in Seq(S), NEW n \in 0..Len(s), NEW t \in Seq(S), Len(t) = n,
           \A i \in 1..n : t[i] = s[i]
    PROVE  SubSeq(s, 1, n) = t
<1>1. /\ SubSeq(s, 1, n) \in Seq(S) /\ Len(SubSeq(s, 1, n)) = n
      /\ \A i \in 1..n : SubSeq(s, 1, n)[i] = s[i]
  OBVIOUS
<1> QED
  BY <1>1, SeqEqual

LEMMA CutsOfOne ==
    ASSUME NEW b, NEW n \in 0..Len(<<b>>)
    PROVE  SubSeq(<<b>>, 1, n) \in {<<>>, <<b>>}
<1>1. n = 0 \/ n = 1
  OBVIOUS
<1>2. <<b>> \in Seq({b}) /\ <<>> \in Seq({b}) /\ Len(<<b>>) = 1
  OBVIOUS
<1>3. SubSeq(<<b>>, 1, 0) = <<>>
  <2>1. 0 \in 0..Len(<<b>>) /\ Len(<<>>) = 0 /\ \A i \in 1..0 : <<>>[i] = <<b>>[i]
    OBVIOUS
  <2> QED
    BY ONLY <1>2, <2>1, CutIs
<1>4. SubSeq(<<b>>, 1, 1) = <<b>>
  <2>1. 1 \in 0..Len(<<b>>) /\ \A i \in 1..1 : <<b>>[i] = <<b>>[i]
    OBVIOUS
  <2> QED
    BY ONLY <1>2, <2>1, CutIs
<1> QED
  BY <1>1, <1>3, <1>4

LEMMA CutsOfFour ==
    ASSUME NEW a, NEW b, NEW c, NEW d, NEW n \in 0..Len(<<a, b, c, d>>)
    PROVE  SubSeq(<<a, b, c, d>>, 1, n)
             \in {<<>>, <<a>>, <<a, b>>, <<a, b, c>>, <<a, b, c, d>>}
<1> DEFINE S == {a, b, c, d}
           s == <<a, b, c, d>>
<1>1. n = 0 \/ n = 1 \/ n = 2 \/ n = 3 \/ n = 4
  OBVIOUS
<1>2. s \in Seq(S) /\ Len(s) = 4 /\ s[1] = a /\ s[2] = b /\ s[3] = c /\ s[4] = d
  OBVIOUS
<1>3. /\ <<>> \in Seq(S) /\ <<a>> \in Seq(S) /\ <<a, b>> \in Seq(S)
      /\ <<a, b, c>> \in Seq(S)
  OBVIOUS
<1> HIDE DEF S, s
<1>4. SubSeq(s, 1, 0) = <<>>
  <2>1. 0 \in 0..Len(s) /\ Len(<<>>) = 0 /\ \A i \in 1..0 : <<>>[i] = s[i]
    BY <1>2
  <2> QED
    BY ONLY <1>2, <1>3, <2>1, CutIs
<1>5. SubSeq(s, 1, 1) = <<a>>
  <2>1. 1 \in 0..Len(s) /\ Len(<<a>>) = 1 /\ \A i \in 1..1 : <<a>>[i] = s[i]
    BY <1>2
  <2> QED
    BY ONLY <1>2, <1>3, <2>1, CutIs
<1>6. SubSeq(s, 1, 2) = <<a, b>>
  <2>1. 2 \in 0..Len(s) /\ Len(<<a, b>>) = 2 /\ \A i \in 1..2 : <<a, b>>[i] = s[i]
    BY <1>2
  <2> QED
    BY ONLY <1>2, <1>3, <2>1, CutIs
<1>7. SubSeq(s, 1, 3) = <<a, b, c>>
  <2>1. 3 \in 0..Len(s) /\ Len(<<a, b, c>>) = 3 /\ \A i \in 1..3 : <<a, b, c>>[i] = s[i]
    BY <1>2
  <2> QED
    BY ONLY <1>2, <1>3, <2>1, CutIs
<1>8. SubSeq(s, 1, 4) = s
  <2>1. 4 \in 0..Len(s) /\ \A i \in 1..4 : s[i] = s[i]
    BY <1>2
  <2> QED
    BY ONLY <1>2, <2>1, CutIs
<1> QED
  BY <1>1, <1>4, <1>5, <1>6, <1>7, <1>8 DEF s

LEMMA Shapes ==
    ASSUME NEW p \in Providers, NEW a \in Answers(p)
    PROVE  Plain(a) \/ (p = "bedrock" /\ (Musing(a) \/ Mused(a) \/ Thoughtful(a)))
<1>1. ASSUME NEW x \in Whole(p)
      PROVE  Plain(x) \/ (p = "bedrock" /\ Thoughtful(x))
  BY <1>1 DEF Whole, Plain, Thoughtful, Parts
<1>2. ASSUME NEW x \in Whole(p), NEW n \in 0..Len(x), a = SubSeq(x, 1, n)
      PROVE  Plain(a) \/ (p = "bedrock" /\ (Musing(a) \/ Mused(a) \/ Thoughtful(a)))
  <2>1. CASE x = <<>>
    <3>1. n = 0
      BY <2>1
    <3> QED
      BY <1>2, <2>1, <3>1 DEF Plain
  <2>2. ASSUME NEW b \in Parts, x = <<b>>
        PROVE  Plain(a)
    BY <1>2, <2>2, CutsOfOne DEF Plain
  <2>3. ASSUME NEW b \in Parts, x = <<"open", "thought", "close", b>>
        PROVE  Plain(a) \/ Musing(a) \/ Mused(a) \/ Thoughtful(a)
    <3>1. a \in {<<>>, <<"open">>, <<"open", "thought">>, <<"open", "thought", "close">>,
                 <<"open", "thought", "close", b>>}
      BY <1>2, <2>3, CutsOfFour
    <3> QED
      BY <3>1 DEF Plain, Musing, Mused, Thoughtful
  <2> QED
    BY <1>1, <2>1, <2>2, <2>3 DEF Plain, Thoughtful
<1>3. CASE a = <<"piece">>
  BY <1>3 DEF Plain, Parts
<1>4. CASE p = "bedrock" /\ a = <<"open", "thought", "close", "piece">>
  BY <1>4 DEF Thoughtful, Parts
<1>5. \/ a \in Whole(p)
      \/ \E x \in Whole(p) : \E n \in 0..Len(x) : a = SubSeq(x, 1, n)
      \/ a = <<"piece">>
      \/ p = "bedrock" /\ a = <<"open", "thought", "close", "piece">>
  BY DEF Answers, CutOff
<1> QED
  BY <1>1, <1>2, <1>3, <1>4, <1>5

LEMMA HasOne ==
    ASSUME NEW b, NEW x
    PROVE  Has(<<b>>, x) <=> x = b
BY DEF Has

LEMMA HasMany ==
    ASSUME NEW x
    PROVE  /\ ~Has(<<>>, x)
           /\ Has(<<"open", "thought">>, x) <=> x \in {"open", "thought"}
           /\ Has(<<"open", "thought", "close">>, x) <=> x \in {"open", "thought", "close"}
           /\ \A b : Has(<<"open", "thought", "close", b>>, x)
                       <=> x \in {"open", "thought", "close", b}
<1>1. ASSUME NEW s, NEW n \in Nat, DOMAIN s = 1..n
      PROVE  Has(s, x) <=> \E i \in 1..n : s[i] = x
  BY <1>1 DEF Has
<1> QED
  BY <1>1 DEF Has

LEMMA BodiesDiffer ==
    ASSUME NEW b \in Parts
    PROVE  b \notin {"open", "thought", "close"}
BY DEF Parts, Bodies

(* What the block that opens the answer leaves.                            *)
LEMMA StrippedIs ==
    ASSUME NEW a
    PROVE  /\ Plain(a) \/ Musing(a) => Stripped(a) = a
           /\ Mused(a) => Stripped(a) = <<>>
           /\ \A b \in Parts : a = <<"open", "thought", "close", b>> => Stripped(a) = <<b>>
<1>1. ASSUME Plain(a) \/ Musing(a)
      PROVE  Stripped(a) = a
  <2>1. ~Has(a, "close")
    BY <1>1, HasOne, HasMany, BodiesDiffer DEF Plain, Musing
  <2> QED
    BY <2>1 DEF Stripped
<1>2. ASSUME Mused(a)
      PROVE  Stripped(a) = <<>>
  <2>1. Has(a, "open") /\ Has(a, "close")
    BY <1>2, HasMany DEF Mused
  <2>2. PICK end \in DOMAIN a : end = CHOOSE n \in DOMAIN a : a[n] = "close"
    BY <2>1 DEF Has
  <2>3. end \in DOMAIN a /\ a[end] = "close"
    BY <2>1, <2>2 DEF Has
  <2>4. end = 3
    BY <1>2, <2>3 DEF Mused
  <2>5. Stripped(a) = SubSeq(a, 4, 3)
    BY <1>2, <2>1, <2>2, <2>4 DEF Stripped, Mused
  <2> QED
    BY <2>5, SubSeqEmpty
<1>3. ASSUME NEW b \in Parts, a = <<"open", "thought", "close", b>>
      PROVE  Stripped(a) = <<b>>
  <2>1. Has(a, "open") /\ Has(a, "close")
    BY <1>3, HasMany
  <2>2. PICK end \in DOMAIN a : end = CHOOSE n \in DOMAIN a : a[n] = "close"
    BY <2>1 DEF Has
  <2>3. end \in DOMAIN a /\ a[end] = "close"
    BY <2>1, <2>2 DEF Has
  <2>4. end = 3
    BY <1>3, <2>3, BodiesDiffer
  <2>5. Stripped(a) = SubSeq(a, 4, 4)
    <3>1. Len(a) = 4
      BY <1>3
    <3>2. Stripped(a) = SubSeq(a, end + 1, Len(a))
      BY <2>1, <2>2, Zenon DEF Stripped
    <3> QED
      BY <2>4, <3>1, <3>2
  <2>6. /\ SubSeq(a, 4, 4) \in Seq({b}) /\ Len(SubSeq(a, 4, 4)) = 1
        /\ SubSeq(a, 4, 4)[1] = b
    BY <1>3
  <2>7. <<b>> \in Seq({b}) /\ Len(<<b>>) = 1 /\ <<b>>[1] = b
    OBVIOUS
  <2>8. \A i \in 1..1 : SubSeq(a, 4, 4)[i] = <<b>>[i]
    BY <2>6, <2>7
  <2> QED
    BY ONLY <2>5, <2>6, <2>7, <2>8, SeqEqual
<1> QED
  BY <1>1, <1>2, <1>3

(* A full answer is read as a summary, and the other outcomes have their   *)
(* causes in the answer.                                                   *)
Fits(a, result) ==
    /\ provider = "groq" => result \in {"none", "summary", "failed", "timeout"}
    /\ result = "summary" <=> Has(a, "full")
    /\ result = "reasoning" => ~Has(a, "close") /\ a \notin Whole(provider)
    /\ result = "syntax" => Has(a, "piece")
    /\ result = "part" => Has(a, "some")
    /\ result = "literal" => Has(a, "odd")
    /\ result = "blank" => ~\E body \in {"full", "some", "odd", "prose"} : Has(a, body)

LEMMA GroqFits ==
    ASSUME provider = "groq", NEW a \in Answers(provider)
    PROVE  Fits(a, Read(a))
<1>1. Plain(a)
  BY Shapes DEF Providers
<1>2. Has(a, "full") <=> a = <<"full">>
  <2>1. CASE a = <<>>
    BY <2>1, HasMany
  <2>2. ASSUME NEW b \in Parts, a = <<b>>
        PROVE  Has(a, "full") <=> a = <<"full">>
    BY <2>2, HasOne
  <2> QED
    BY <1>1, <2>1, <2>2 DEF Plain
<1>3. Read(a) = IF a = <<"full">> THEN "summary" ELSE "failed"
  BY DEF Read, ReadGroq
<1> QED
  BY <1>2, <1>3 DEF Fits

LEMMA BedrockPlain ==
    ASSUME NEW b \in Parts, NEW a, Stripped(a) = <<b>>
    PROVE  ReadBedrock(a) = CASE b = "full" -> "summary" [] b = "hollow" -> "blank"
                              [] b = "other" -> "extract" [] b = "prose" -> "prose"
                              [] b = "piece" -> "syntax"
                              [] b = "some" -> "part" [] b = "odd" -> "literal"
<1>1. /\ ~Has(<<b>>, "thought") /\ ~Has(<<b>>, "open")
      /\ Has(<<b>>, "piece") <=> b = "piece"
  BY HasOne, BodiesDiffer
<1>2. b \in {"full", "some", "hollow", "odd", "other", "prose", "piece"}
  BY DEF Parts, Bodies
<1>3. \A c : <<b>> = <<c>> <=> b = c
  OBVIOUS
<1>4. <<b>> # <<>>
  OBVIOUS
<1> QED
  BY <1>1, <1>2, <1>3, <1>4 DEF ReadBedrock

LEMMA BedrockFits ==
    ASSUME provider = "bedrock", NEW a \in Answers(provider)
    PROVE  Fits(a, Read(a))
<1>1. Read(a) = ReadBedrock(a)
  BY DEF Read
<1>2. CASE a = <<>> \/ Mused(a)
  <2>1. Stripped(a) = <<>>
    BY <1>2, StrippedIs DEF Plain
  <2>2. ReadBedrock(a) = "blank"
    BY <2>1 DEF ReadBedrock
  <2>3. ~\E body \in {"full", "some", "odd", "prose"} : Has(a, body)
    BY <1>2, HasMany DEF Mused
  <2> QED
    BY <1>1, <2>2, <2>3 DEF Fits
<1>3. CASE Musing(a)
  <2>1. Stripped(a) = a
    BY <1>3, StrippedIs
  <2>2. Has(a, "open") /\ ~Has(a, "close") /\ ~Has(a, "full")
    BY <1>3, HasOne, HasMany DEF Musing
  <2>3. a \notin Whole(provider)
    BY <1>3 DEF Musing, Whole, Bodies
  <2>4. a # <<>> /\ \A b \in Parts : a # <<b>>
    BY <1>3, BodiesDiffer DEF Musing
  <2>5. ReadBedrock(a) = "reasoning"
    BY <2>1, <2>2, <2>4 DEF ReadBedrock, Parts, Bodies
  <2> QED
    BY <1>1, <2>2, <2>3, <2>5 DEF Fits
<1>4. ASSUME NEW b \in Parts, a = <<b>> \/ a = <<"open", "thought", "close", b>>
      PROVE  Fits(a, Read(a))
  <2>1. Stripped(a) = <<b>>
    BY <1>4, StrippedIs DEF Plain
  <2>2. ASSUME NEW x \in Parts
        PROVE  Has(a, x) <=> x = b
    <3>1. CASE a = <<b>>
      BY <3>1, HasOne
    <3>2. CASE a = <<"open", "thought", "close", b>>
      <4>1. Has(a, x) <=> x \in {"open", "thought", "close", b}
        BY <3>2, HasMany
      <4> QED
        BY <4>1, BodiesDiffer
    <3> QED
      BY <1>4, <3>1, <3>2
  <2>3. Read(a) = CASE b = "full" -> "summary" [] b = "hollow" -> "blank"
                    [] b = "other" -> "extract" [] b = "prose" -> "prose"
                    [] b = "piece" -> "syntax"
                    [] b = "some" -> "part" [] b = "odd" -> "literal"
    BY <1>1, <2>1, BedrockPlain
  <2> QED
    BY <2>2, <2>3 DEF Fits, Parts, Bodies
<1> QED
  BY <1>2, <1>3, <1>4, Shapes DEF Plain, Thoughtful, Providers

(* While a call is under way nothing has been said or published.           *)
FaithInv == /\ Fits(said, outcome)
            /\ waited # {} => said = <<>> /\ outcome = "none"

LEMMA FaithStep == IInv /\ FaithInv /\ [Next]_vars => FaithInv'
<1> SUFFICES ASSUME IInv, FaithInv, [Next]_vars PROVE FaithInv'
  OBVIOUS
<1>1. CASE Call
  BY <1>1, HasMany DEF Call, FaithInv, Fits
<1>2. CASE Answer
  <2>1. PICK a \in Answers(provider) : said' = a /\ Ends(Read(a))
    BY <1>2 DEF Answer
  <2>2. Fits(a, Read(a))
    BY GroqFits, BedrockFits DEF IInv, Providers
  <2> QED
    BY <2>1, <2>2 DEF Ends, FaithInv, Fits, Whole, Bodies
<1>3. CASE Fail \/ GiveUp
  <2>1. waited # {} /\ waited' = {} /\ said' = <<>> /\ UNCHANGED provider
    BY <1>3 DEF Fail, Ends, GiveUp, Overdue, FaithInv
  <2>2. \/ provider = "groq" /\ outcome' = "failed"
        \/ provider # "groq" /\ outcome' = "extract"
        \/ outcome' = "timeout"
    BY <1>3 DEF Fail, Ends, GiveUp
  <2> QED
    BY <2>1, <2>2, HasMany DEF FaithInv, Fits
<1>4. CASE LateEnd \/ Retry \/ Tick \/ UNCHANGED vars
  <2>1. UNCHANGED <<provider, said, outcome>>
    BY <1>4 DEF LateEnd, Retry, Tick, vars
  <2>2. waited = {} => waited' = {}
    BY <1>4 DEF LateEnd, Retry, Tick, vars, Swapped
  <2> QED
    BY <2>1, <2>2 DEF FaithInv, Fits, Whole
<1> QED
  BY <1>1, <1>2, <1>3, <1>4 DEF Next

(* Whatever the model answers and wherever max_tokens cuts it, Groq        *)
(* publishes three sentences or nothing; what Bedrock publishes has its    *)
(* cause in the answer, and reasoning comes only from one that was cut.    *)
THEOREM FaithfulToAnswerHolds == Spec => []FaithfulToAnswer
<1>1. Init => FaithInv
  BY HasMany DEF Init, FaithInv, Fits
<1>2. FaithInv => FaithfulToAnswer
  BY DEF FaithInv, Fits, FaithfulToAnswer
<1> QED
  BY <1>1, <1>2, FaithStep, InvHolds, PTL DEF Spec
================================================================================
