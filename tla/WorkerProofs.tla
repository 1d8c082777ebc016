------------------------------ MODULE WorkerProofs ------------------------------
(***************************************************************************)
(* Theorems about Worker for any number of processes, messages, articles   *)
(* of a run and deaths.                                                    *)
(***************************************************************************)
EXTENDS Worker, SequenceTheorems, TLAPS

NoLive(p) == \A i \in 1..Len(p) : p[i] # "live"

(* The checkouts it takes to drop every dead connection of a pool, and     *)
(* whether that of Redis is one.                                           *)
Depth(p) ==
    IF Len(p) = 2 /\ p[2] = "dead" THEN 2
    ELSE IF Len(p) > 0 /\ p[1] = "dead" THEN 1 ELSE 0
Cold(r) == IF r = "dead" THEN 1 ELSE 0

(* Each failed attempt drops one connection, and costs at most that of     *)
(* Redis, which it had to open anew: so Depth counts twice.                *)
Credit(w) == streak[w] + 2 * Depth(pool[w]) + Cold(redis[w]) <= 5

Closed(w) ==
    pc[w] \in {"idle", "begin", "chain", "ack"} =>
        NoLive(pool[w]) /\ redis[w] # "live" /\ Credit(w)
Selecting(w) ==
    pc[w] = "select" => NoLive(pool[w]) /\ redis[w] = "live" /\ Credit(w)
Logging(w) ==
    pc[w] = "log" =>
        /\ redis[w] # "live" /\ streak[w] <= 5
        /\ Len(pool[w]) > 0 /\ pool[w][Len(pool[w])] = "live"
        /\ Len(pool[w]) = 2 => pool[w][1] # "live"
        /\ pool[w][1] = "dead" => streak[w] + 4 + Cold(redis[w]) <= 5
Processing(w) ==
    IF pc[w] = "articles"
    THEN streak[w] <= 5 /\ stale[w] <= 1 /\ (stale[w] = 1 => Usable(pool[w]))
    ELSE stale[w] = 0

Heal(w) == Closed(w) /\ Selecting(w) /\ Logging(w) /\ Processing(w)
IInv == TypeOK /\ \A w \in Workers : Heal(w)

AgedPool(p) == [i \in DOMAIN p |-> Aged(p[i])]
-----------------------------------------------------------------------------
LEMMA PoolLen ==
    ASSUME NEW p \in Pools
    PROVE  /\ p \in Seq(Connections) /\ Len(p) \in 0..2 /\ DOMAIN p = 1..Len(p)
           /\ p = <<>> <=> Len(p) = 0
<1>1. p \in Seq(Connections) /\ Len(p) <= 2
  BY DEF Pools
<1>2. Len(p) \in Nat /\ DOMAIN p = 1..Len(p)
  BY <1>1
<1> QED
  BY <1>1, <1>2, EmptySeq

(* What closing a loop leaves of a pool.                                   *)
LEMMA AgedPoolType ==
    ASSUME NEW p \in Pools
    PROVE  /\ AgedPool(p) \in Pools /\ NoLive(AgedPool(p))
           /\ Len(AgedPool(p)) = Len(p)
           /\ \A i \in 1..Len(p) : AgedPool(p)[i] = Aged(p[i])
<1>1. p \in Seq(Connections) /\ Len(p) \in Nat /\ DOMAIN p = 1..Len(p) /\ Len(p) <= 2
  BY DEF Pools
<1>2. \A i \in 1..Len(p) : p[i] \in Connections /\ Aged(p[i]) \in Connections
                           /\ Aged(p[i]) # "live"
  BY <1>1 DEF Connections, Aged
<1>3. AgedPool(p) = [i \in 1..Len(p) |-> Aged(p[i])]
  BY <1>1 DEF AgedPool
<1>4. AgedPool(p) \in Seq(Connections) /\ Len(AgedPool(p)) = Len(p)
  BY <1>1, <1>2, <1>3
<1> QED
  BY <1>1, <1>2, <1>3, <1>4 DEF Pools, NoLive

(* An empty connection in place of each.                                   *)
LEMMA VoidPoolType ==
    ASSUME NEW p \in Pools
    PROVE  [i \in DOMAIN p |-> "void"] \in Pools
<1>1. p \in Seq(Connections) /\ Len(p) \in Nat /\ DOMAIN p = 1..Len(p) /\ Len(p) <= 2
  BY DEF Pools
<1>2. [i \in 1..Len(p) |-> "void"] \in Seq(Connections)
      /\ Len([i \in 1..Len(p) |-> "void"]) = Len(p)
  BY <1>1 DEF Connections
<1> QED
  BY <1>1, <1>2 DEF Pools

(* Taking from the head and putting at the tail.                           *)
LEMMA RestType ==
    ASSUME NEW p \in Pools
    PROVE  /\ Rest(p) \in Pools /\ Len(Rest(p)) <= 1
           /\ Len(p) = 0 => Len(Rest(p)) = 0
           /\ Len(p) = 1 => Len(Rest(p)) = 0
           /\ Len(p) = 2 => Len(Rest(p)) = 1 /\ Rest(p)[1] = p[2]
  BY DEF Rest, Pools, Connections

LEMMA GivenBackType ==
    ASSUME NEW p \in Pools, Len(p) <= 1
    PROVE  /\ GivenBack(p) \in Pools /\ Len(GivenBack(p)) = Len(p) + 1
           /\ GivenBack(p)[Len(p) + 1] = "live"
           /\ Len(p) = 1 => GivenBack(p)[1] = p[1]
<1>1. p \in Seq(Connections) /\ Len(p) \in Nat /\ "live" \in Connections
  BY DEF Pools, Connections
<1> QED
  BY <1>1 DEF GivenBack, Pools

LEMMA PassedType ==
    ASSUME NEW p \in Pools
    PROVE  /\ Passed(p) \in Pools /\ Len(Passed(p)) > 0
           /\ Passed(p)[Len(Passed(p))] = "live"
           /\ Len(p) < 2 => Len(Passed(p)) = 1
           /\ Len(p) = 2 => Len(Passed(p)) = 2 /\ Passed(p)[1] = p[2]
<1>1. Len(p) \in 0..2
  BY PoolLen
<1>2. PICK q : q = Rest(p)
  OBVIOUS
<1>3. /\ q \in Pools /\ Len(q) <= 1
      /\ Len(p) < 2 => Len(q) = 0
      /\ Len(p) = 2 => Len(q) = 1 /\ q[1] = p[2]
  BY <1>1, <1>2, RestType
<1>4. Len(q) \in 0..1
  BY <1>3, PoolLen
<1>5. /\ GivenBack(q) \in Pools /\ Len(GivenBack(q)) = Len(q) + 1
      /\ GivenBack(q)[Len(q) + 1] = "live"
      /\ Len(q) = 1 => GivenBack(q)[1] = q[1]
  BY <1>3, GivenBackType
<1>6. Passed(p) = GivenBack(q)
  BY <1>2 DEF Passed
<1> QED
  BY <1>1, <1>3, <1>4, <1>5, <1>6

LEMMA InvalidatedType ==
    ASSUME NEW p \in Pools, ~Usable(p)
    PROVE  /\ Invalidated(p) \in Pools /\ Len(p) > 0 /\ p[1] = "dead"
           /\ Len(Invalidated(p)) = Len(p)
           /\ Invalidated(p)[Len(p)] = "void"
           /\ Len(p) = 2 => Invalidated(p)[1] = p[2]
<1>1. p # <<>> /\ Head(p) = "dead" /\ "void" \in Connections
  BY DEF Usable, Connections
<1>2. p \in Seq(Connections) /\ Len(p) \in 1..2
  BY <1>1, PoolLen
<1>3. Head(p) = p[1] /\ Tail(p) \in Seq(Connections)
      /\ Len(Tail(p)) = Len(p) - 1 /\ (Len(p) = 2 => Tail(p)[1] = p[2])
  BY <1>1, <1>2
<1> QED
  BY <1>1, <1>2, <1>3 DEF Invalidated, Pools
-----------------------------------------------------------------------------
(* The state of one process and of the messages apart.                     *)
MailOK ==
    /\ task \in [Messages -> Tasks]
    /\ place \in [Messages -> {"free", "queued", "running", "countdown"}]
    /\ tries \in [Messages -> 0..3]
    /\ blamed \in [Messages -> BOOLEAN]
RunOK ==
    /\ job \in [Workers -> Messages \cup {NoMessage}]
    /\ pc \in [Workers -> {"idle", "begin", "select", "articles", "log", "chain", "ack"}]
    /\ redis \in [Workers -> Connections]
    /\ pool \in [Workers -> Pools]
    /\ left \in [Workers -> 0..MaxBatch]
    /\ served \in [Workers -> BOOLEAN]
    /\ streak \in [Workers -> Nat]
    /\ stale \in [Workers -> Nat]
    /\ deaths \in 0..MaxDeaths
Works(w) ==
    /\ job[w] # NoMessage <=> pc[w] # "idle"
    /\ job[w] # NoMessage => place[job[w]] = "running"
    /\ \A v \in Workers : job[w] = job[v] => w = v \/ job[w] = NoMessage
    /\ pc[w] = "articles" => Len(pool[w]) < 2

LEMMA TypeParts == TypeOK <=> MailOK /\ RunOK /\ \A w \in Workers : Works(w)
  BY DEF TypeOK, MailOK, RunOK, Works

(* A process that works has a message.                                     *)
LEMMA JobOf ==
    ASSUME TypeOK, NEW w \in Workers, pc[w] # "idle"
    PROVE  job[w] \in Messages /\ place[job[w]] = "running"
  BY DEF TypeOK

LEMMA TriesBound ==
    ASSUME TypeOK, NEW m \in Messages
    PROVE  MayRetry(m) => tries[m] + 1 \in 0..3
<1>1. task[m] \in Tasks /\ tries[m] \in 0..3
  BY DEF TypeOK
<1>2. Limit[task[m]] \in 0..3
  BY <1>1 DEF Limit
<1> QED
  BY <1>1, <1>2 DEF MayRetry

(* What another process has is not touched.                                *)
LEMMA HealOther ==
    ASSUME NEW v \in Workers, Heal(v),
           pc'[v] = pc[v], redis'[v] = redis[v], pool'[v] = pool[v],
           streak'[v] = streak[v], stale'[v] = stale[v]
    PROVE  Heal(v)'
  BY DEF Heal, Closed, Selecting, Logging, Processing, Credit

LEMMA Measures ==
    ASSUME NEW p \in Pools, NEW r \in Connections
    PROVE  Depth(p) \in 0..2 /\ Cold(r) \in 0..1
  BY DEF Depth, Cold

(* A coroutine returns, on a loop that is then closed.                     *)
LEMMA SucceedStep ==
    ASSUME IInv, NEW w \in Workers, pc[w] # "idle",
           NEW p \in Pools, NEW r \in Connections, Succeed(w, p, r)
    PROVE  IInv'
<1> USE DEF IInv
<1>1. job[w] \in Messages /\ place[job[w]] = "running"
  BY JobOf
<1>2. /\ AgedPool(p) \in Pools /\ NoLive(AgedPool(p)) /\ Aged(r) \in Connections
      /\ Aged(r) # "live"
  BY AgedPoolType DEF Aged, Connections
<1>3. /\ pool' = [pool EXCEPT ![w] = AgedPool(p)] /\ redis' = [redis EXCEPT ![w] = Aged(r)]
      /\ left' = [left EXCEPT ![w] = 0] /\ served' = [served EXCEPT ![w] = FALSE]
      /\ stale' = [stale EXCEPT ![w] = 0] /\ streak' = [streak EXCEPT ![w] = 0]
      /\ UNCHANGED <<task, place, tries, blamed, job, deaths>>
  BY DEF Succeed, CloseLoop, AgedPool, mail
<1>4. PICK l \in {"chain", "ack"} : pc' = [pc EXCEPT ![w] = l]
  BY DEF Succeed, Goto
<1>5. MailOK'
  BY <1>3, TypeParts DEF MailOK
<1>6. RunOK'
  BY <1>2, <1>3, <1>4, TypeParts, BoundsAssumption DEF RunOK
<1>7. ASSUME NEW v \in Workers PROVE Works(v)'
  BY <1>1, <1>3, <1>4, TypeParts DEF Works, RunOK
<1>8. Depth(AgedPool(p)) \in 0..2 /\ Cold(Aged(r)) \in 0..1
  BY <1>2, Measures
<1>9. Heal(w)'
  BY <1>2, <1>3, <1>4, <1>8, TypeParts
     DEF Heal, Closed, Selecting, Logging, Processing, Credit, RunOK
<1>10. ASSUME NEW v \in Workers, v # w PROVE Heal(v)'
  BY <1>3, <1>4, <1>10, HealOther, TypeParts DEF RunOK
<1> QED
  BY <1>5, <1>6, <1>7, <1>9, <1>10, TypeParts DEF TypeOK, MailOK, RunOK, Works

(* It raises.                                                              *)
LEMMA RaiseStep ==
    ASSUME IInv, NEW w \in Workers, pc[w] # "idle",
           NEW p \in Pools, NEW r \in Connections, NEW failures \in Nat,
           NEW again, again => MayRetry(job[w]),
           NEW excuse \in BOOLEAN,
           failures + 2 * Depth(AgedPool(p)) + Cold(Aged(r)) <= 5,
           Raise(w, p, r, failures, again, excuse)
    PROVE  IInv'
<1> USE DEF IInv
<1>1. job[w] \in Messages /\ place[job[w]] = "running"
  BY JobOf
<1>2. /\ AgedPool(p) \in Pools /\ NoLive(AgedPool(p)) /\ Aged(r) \in Connections
      /\ Aged(r) # "live"
  BY AgedPoolType DEF Aged, Connections
<1>3. /\ pool' = [pool EXCEPT ![w] = AgedPool(p)] /\ redis' = [redis EXCEPT ![w] = Aged(r)]
      /\ left' = [left EXCEPT ![w] = 0] /\ served' = [served EXCEPT ![w] = FALSE]
      /\ stale' = [stale EXCEPT ![w] = 0] /\ streak' = [streak EXCEPT ![w] = failures]
      /\ pc' = [pc EXCEPT ![w] = "idle"] /\ job' = [job EXCEPT ![w] = NoMessage]
      /\ UNCHANGED <<task, deaths>>
  BY DEF Raise, CloseLoop, AgedPool, Goto
<1>4. /\ place' = [place EXCEPT ![job[w]] = IF again THEN "countdown" ELSE "free"]
      /\ tries' = [tries EXCEPT ![job[w]] = IF again THEN @ + 1 ELSE @]
      /\ blamed' = [blamed EXCEPT ![job[w]] = @ \/ excuse]
  BY DEF Raise, Retried
<1>5. MailOK'
  <2>1. place' \in [Messages -> {"free", "queued", "running", "countdown"}]
    BY <1>1, <1>4, TypeParts DEF MailOK
  <2>2. tries' \in [Messages -> 0..3]
    BY <1>1, <1>4, TypeParts, TriesBound DEF MailOK
  <2>3. blamed' \in [Messages -> BOOLEAN]
    <3>1. blamed \in [Messages -> BOOLEAN]
      BY TypeParts DEF MailOK
    <3> QED BY <1>1, <1>4, <3>1
  <2> QED BY <1>3, <2>1, <2>2, <2>3, TypeParts DEF MailOK
<1>6. RunOK'
  BY <1>2, <1>3, TypeParts, BoundsAssumption DEF RunOK
<1>7. ASSUME NEW v \in Workers PROVE Works(v)'
  <2>1. CASE v = w
    BY <1>1, <1>3, <2>1, TypeParts, MessagesAssumption DEF Works, RunOK
  <2>2. CASE v # w
    <3>1. job'[v] = job[v] /\ pc'[v] = pc[v] /\ pool'[v] = pool[v]
      BY <1>3, <2>2, TypeParts DEF RunOK
    <3>2. job[v] # NoMessage => job[v] # job[w] /\ job[v] \in Messages
      BY <1>1, <2>2, TypeParts, MessagesAssumption DEF Works, RunOK
    <3>3. job'[v] # NoMessage => place'[job'[v]] = "running"
      BY <1>1, <1>4, <3>1, <3>2, TypeParts DEF Works, MailOK
    <3>4. \A u \in Workers : job'[v] = job'[u] => v = u \/ job'[v] = NoMessage
      BY <1>3, <3>1, TypeParts DEF Works, RunOK
    <3> QED BY <3>1, <3>3, <3>4, TypeParts DEF Works
  <2> QED BY <2>1, <2>2
<1>9. Heal(w)'
  BY <1>2, <1>3, TypeParts
     DEF Heal, Closed, Selecting, Logging, Processing, Credit, RunOK
<1>10. ASSUME NEW v \in Workers, v # w PROVE Heal(v)'
  BY <1>3, <1>10, HealOther, TypeParts DEF RunOK
<1> QED
  BY <1>5, <1>6, <1>7, <1>9, <1>10, TypeParts DEF TypeOK, MailOK, RunOK, Works
-----------------------------------------------------------------------------
(* What the end of an attempt costs.                                       *)
LEMMA AgedDepth ==
    ASSUME NEW p \in Pools, NoLive(p), NEW r \in Connections
    PROVE  /\ Depth(AgedPool(p)) = Depth(p)
           /\ r # "live" => Cold(Aged(r)) = Cold(r)
           /\ Cold(Aged(r)) <= 1 /\ Cold(Aged(r)) \in 0..1
<1>1. Len(p) \in 0..2
  BY PoolLen
<1>2. Len(AgedPool(p)) = Len(p) /\ \A i \in 1..Len(p) : AgedPool(p)[i] = p[i]
  BY AgedPoolType, <1>1 DEF NoLive, Aged
<1> QED
  BY <1>1, <1>2 DEF Depth, Cold, Aged

LEMMA InvalidatedDepth ==
    ASSUME NEW p \in Pools, NoLive(p), ~Usable(p)
    PROVE  /\ Invalidated(p) \in Pools /\ NoLive(Invalidated(p))
           /\ Depth(AgedPool(Invalidated(p))) + 1 <= Depth(p)
           /\ Depth(AgedPool(Invalidated(p))) \in Nat
<1>1. Len(p) \in 0..2
  BY PoolLen
<1>2. PICK q : q = Invalidated(p)
  OBVIOUS
<1>3. /\ q \in Pools /\ Len(p) > 0 /\ p[1] = "dead" /\ Len(q) = Len(p)
      /\ q[Len(p)] = "void" /\ (Len(p) = 2 => q[1] = p[2])
  BY <1>2, InvalidatedType
<1>4. NoLive(q)
  BY <1>1, <1>3 DEF NoLive
<1>5. Depth(q) + 1 <= Depth(p) /\ Depth(q) \in Nat
  BY <1>1, <1>3 DEF Depth
<1>6. Depth(AgedPool(q)) = Depth(q)
  BY <1>3, <1>4, AgedDepth DEF Connections
<1> QED
  BY <1>2, <1>3, <1>4, <1>5, <1>6

(* An attempt that goes on changes nothing of the others.                  *)
LEMMA GoesOn ==
    ASSUME IInv, NEW w \in Workers, pc[w] # "idle",
           UNCHANGED <<task, place, tries, job, deaths, streak>>,
           blamed' \in [Messages -> BOOLEAN],
           NEW l \in {"begin", "select", "articles", "log", "chain", "ack"},
           pc' = [pc EXCEPT ![w] = l],
           NEW p \in Pools, pool' = [pool EXCEPT ![w] = p],
           NEW r \in Connections, redis' = [redis EXCEPT ![w] = r],
           NEW n \in 0..MaxBatch, left' = [left EXCEPT ![w] = n],
           NEW s \in BOOLEAN, served' = [served EXCEPT ![w] = s],
           NEW t \in Nat, stale' = [stale EXCEPT ![w] = t],
           l = "articles" => Len(p) < 2,
           Heal(w)'
    PROVE  IInv'
<1> USE DEF IInv
<1>1. MailOK' /\ RunOK'
  BY TypeParts DEF MailOK, RunOK
<1>2. ASSUME NEW v \in Workers PROVE Works(v)'
  <2>1. (pc'[v] = "idle" <=> pc[v] = "idle") /\ (pc'[v] = "articles" => Len(pool'[v]) < 2)
    BY TypeParts DEF Works, RunOK
  <2> QED BY <2>1, TypeParts DEF Works
<1>3. ASSUME NEW v \in Workers, v # w PROVE Heal(v)'
  BY <1>3, HealOther, TypeParts DEF RunOK
<1> QED
  BY <1>1, <1>2, <1>3, TypeParts DEF TypeOK, MailOK, RunOK, Works

(* It fails on a dead connection.                                          *)
LEMMA StaleStep ==
    ASSUME IInv, NEW w \in Workers, pc[w] # "idle",
           NEW p \in Pools, NEW r \in Connections,
           streak[w] + 1 + 2 * Depth(AgedPool(p)) + Cold(Aged(r)) <= 5,
           RaiseStale(w, p, r)
    PROVE  IInv'
<1>1. PICK n \in Nat : n = streak[w] + 1
  BY DEF IInv, TypeOK
<1>2. PICK again : again = MayRetry(job[w])
  OBVIOUS
<1>3. PICK excuse \in BOOLEAN : excuse = FALSE
  OBVIOUS
<1>4. Raise(w, p, r, n, again, excuse)
  BY <1>1, <1>2, <1>3, Zenon DEF RaiseStale
<1>5. n + 2 * Depth(AgedPool(p)) + Cold(Aged(r)) <= 5
  BY <1>1
<1>6. again => MayRetry(job[w])
  BY <1>2, Zenon
<1> QED
  BY <1>4, <1>5, <1>6, RaiseStep, Zenon

LEMMA ReadBudgetStep ==
    ASSUME IInv, NEW w \in Workers, ReadBudget(w)
    PROVE  IInv'
<1>1. /\ pc[w] = "begin" /\ pool[w] \in Pools /\ redis[w] \in Connections
      /\ streak[w] \in Nat /\ NoLive(pool[w]) /\ redis[w] # "live" /\ Credit(w)
      /\ left[w] \in 0..MaxBatch /\ served[w] \in BOOLEAN /\ stale[w] = 0
      /\ TypeOK
  BY DEF IInv, ReadBudget, At, TypeOK, Heal, Closed, Processing
<1>2. Depth(pool[w]) \in 0..2 /\ Depth(AgedPool(pool[w])) = Depth(pool[w])
  BY <1>1, Measures, AgedDepth
<1>3. CASE redis[w] = "dead"
  <2>1. streak[w] + 1 + 2 * Depth(AgedPool(pool[w])) + Cold(Aged("void")) <= 5
    BY <1>1, <1>2, <1>3 DEF Credit, Cold, Aged
  <2>2. RaiseStale(w, pool[w], "void")
    BY <1>3 DEF ReadBudget, Dropped
  <2>3. pc[w] # "idle" /\ "void" \in Connections
    BY <1>1 DEF Connections
  <2> QED
    BY <1>1, <2>1, <2>2, <2>3, StaleStep, Zenon
<1>4. CASE Succeed(w, pool[w], "live")
  BY <1>1, <1>4, SucceedStep DEF Connections
<1>5. CASE /\ redis[w] # "dead" /\ redis' = [redis EXCEPT ![w] = "live"]
           /\ Goto(w, "select")
           /\ UNCHANGED <<mail, pool, job, left, served, streak, stale, deaths>>
  <2>1. UNCHANGED <<task, place, tries, blamed, job, deaths, streak>>
        /\ pc' = [pc EXCEPT ![w] = "select"] /\ pool' = [pool EXCEPT ![w] = pool[w]]
        /\ left' = [left EXCEPT ![w] = left[w]] /\ served' = [served EXCEPT ![w] = served[w]]
        /\ stale' = [stale EXCEPT ![w] = 0]
    BY <1>1, <1>5 DEF mail, Goto, TypeOK
  <2>2. Heal(w)'
    BY <1>1, <1>2, <1>5, <2>1
       DEF Heal, Closed, Selecting, Logging, Processing, Credit, Cold, TypeOK
  <2>3. blamed' \in [Messages -> BOOLEAN]
    BY <1>1, <2>1 DEF TypeOK
  <2>4. pc[w] # "idle" /\ "live" \in Connections /\ 0 \in Nat /\ "select" # "articles"
    BY <1>1 DEF Connections
  <2> QED
    BY <1>1, <1>5, <2>1, <2>2, <2>3, <2>4, GoesOn, Zenon
<1> QED
  BY <1>3, <1>4, <1>5 DEF ReadBudget

LEMMA Own ==
    ASSUME IInv, NEW w \in Workers
    PROVE  /\ TypeOK /\ Heal(w) /\ pool[w] \in Pools /\ redis[w] \in Connections
           /\ streak[w] \in Nat /\ stale[w] \in Nat /\ left[w] \in 0..MaxBatch
           /\ served[w] \in BOOLEAN /\ Len(pool[w]) \in 0..2
           /\ blamed \in [Messages -> BOOLEAN]
  BY PoolLen DEF IInv, TypeOK

LEMMA SwitchedOffStep ==
    ASSUME IInv, NEW w \in Workers, SwitchedOff(w)
    PROVE  IInv'
<1>1. pc[w] # "idle" /\ Succeed(w, pool[w], redis[w])
  BY DEF SwitchedOff, At
<1> QED
  BY <1>1, Own, SucceedStep, Zenon

(* A pool in which nothing is live is used or found dead.                  *)
LEMMA ClosedCheckout ==
    ASSUME IInv, NEW w \in Workers, ~Usable(pool[w]), NoLive(pool[w]),
           NEW r \in {redis[w]}, streak[w] + 2 * Depth(pool[w]) <= 5,
           pc[w] # "idle", RaiseStale(w, Invalidated(pool[w]), r)
    PROVE  IInv'
<1>1. PICK p : p = Invalidated(pool[w])
  OBVIOUS
<1>2. p \in Pools /\ Depth(AgedPool(p)) + 1 <= Depth(pool[w]) /\ Depth(AgedPool(p)) \in Nat
  BY <1>1, Own, InvalidatedDepth
<1>3. Cold(Aged(r)) \in 0..1 /\ r \in Connections /\ Depth(pool[w]) \in 0..2
      /\ streak[w] \in Nat
  BY Own, Measures DEF Cold
<1>4. streak[w] + 1 + 2 * Depth(AgedPool(p)) + Cold(Aged(r)) <= 5
  BY <1>2, <1>3
<1>5. RaiseStale(w, p, r)
  BY <1>1
<1> QED
  BY <1>2, <1>3, <1>4, <1>5, StaleStep, Zenon

LEMMA SelectStep ==
    ASSUME IInv, NEW w \in Workers, Select(w)
    PROVE  IInv'
<1>1. /\ pc[w] = "select" /\ pc[w] # "idle" /\ NoLive(pool[w]) /\ redis[w] = "live"
      /\ Credit(w) /\ stale[w] = 0
  BY Own DEF Select, Heal, Selecting, Processing
<1>2. Depth(pool[w]) \in 0..2 /\ streak[w] \in Nat /\ Cold(redis[w]) = 0
  BY <1>1, Own, Measures DEF Cold
<1>3. CASE Usable(pool[w]) /\ Succeed(w, Passed(pool[w]), redis[w])
  <2>1. Passed(pool[w]) \in Pools
    BY Own, PassedType
  <2> QED BY <1>1, <1>3, <2>1, Own, SucceedStep, Zenon
<1>4. CASE /\ Usable(pool[w]) /\ pool' = [pool EXCEPT ![w] = Rest(@)]
           /\ \E n \in 1..MaxBatch : left' = [left EXCEPT ![w] = n]
           /\ Goto(w, "articles")
           /\ UNCHANGED <<mail, redis, job, served, streak, stale, deaths>>
  <2>1. PICK p : p = Rest(pool[w])
    OBVIOUS
  <2>2. p \in Pools /\ Len(p) < 2
    BY <2>1, Own, RestType, PoolLen
  <2>3. PICK n \in 1..MaxBatch : left' = [left EXCEPT ![w] = n]
    BY <1>4
  <2>4. /\ UNCHANGED <<task, place, tries, blamed, job, deaths, streak>>
        /\ pc' = [pc EXCEPT ![w] = "articles"] /\ pool' = [pool EXCEPT ![w] = p]
        /\ redis' = [redis EXCEPT ![w] = redis[w]]
        /\ served' = [served EXCEPT ![w] = served[w]] /\ stale' = [stale EXCEPT ![w] = 0]
    BY <1>1, <1>4, <2>1, Own DEF mail, Goto, TypeOK
  <2>5. Heal(w)'
    BY <1>1, <1>2, <2>4, Own
       DEF Heal, Closed, Selecting, Logging, Processing, Credit, TypeOK
  <2>6. blamed' \in [Messages -> BOOLEAN] /\ 0 \in Nat /\ n \in 0..MaxBatch
    BY <2>4, Own, BoundsAssumption
  <2> QED BY <1>1, <2>2, <2>3, <2>4, <2>5, <2>6, Own, GoesOn, Zenon
<1>5. CASE ~Usable(pool[w]) /\ RaiseStale(w, Invalidated(pool[w]), redis[w])
  <2>1. streak[w] + 2 * Depth(pool[w]) <= 5
    BY <1>1, <1>2 DEF Credit
  <2> QED BY <1>1, <1>5, <2>1, ClosedCheckout, Zenon
<1> QED
  BY <1>3, <1>4, <1>5 DEF Select

LEMMA ArticleStep ==
    ASSUME IInv, NEW w \in Workers, Article(w)
    PROVE  IInv'
<1>1. /\ pc[w] = "articles" /\ pc[w] # "idle" /\ streak[w] <= 5 /\ Len(pool[w]) < 2
      /\ stale[w] <= 1 /\ (stale[w] = 1 => Usable(pool[w]))
  BY Own DEF Article, Heal, Processing, TypeOK
<1>2. PICK n : n = left[w] - 1
  OBVIOUS
<1>3. /\ n \in 0..MaxBatch /\ left' = [left EXCEPT ![w] = n]
      /\ UNCHANGED <<task, place, tries, job, deaths, streak>>
      /\ pc' = [pc EXCEPT ![w] = "articles"] /\ redis' = [redis EXCEPT ![w] = redis[w]]
  BY <1>1, <1>2, Own, BoundsAssumption DEF Article, TypeOK
<1>4. blamed' \in [Messages -> BOOLEAN]
  <2>1. blamed' = blamed \/ blamed' = [blamed EXCEPT ![job[w]] = TRUE]
    BY DEF Article
  <2> QED BY <2>1, Own
<1>5. PICK s \in BOOLEAN : served' = [served EXCEPT ![w] = s]
  <2>1. served \in [Workers -> BOOLEAN]
    BY Own DEF TypeOK
  <2>2. served' = served \/ served' = [served EXCEPT ![w] = TRUE]
    BY DEF Article
  <2>3. served = [served EXCEPT ![w] = served[w]] /\ served[w] \in BOOLEAN
    BY <2>1
  <2> QED BY <2>2, <2>3
<1>6. PICK q \in Pools, t \in Nat :
        /\ pool' = [pool EXCEPT ![w] = q] /\ stale' = [stale EXCEPT ![w] = t]
        /\ Len(q) < 2 /\ t <= 1 /\ (t = 1 => Usable(q))
  <2>1. CASE Usable(pool[w])
    <3>1. PICK q : q = Passed(pool[w])
      OBVIOUS
    <3>2. q \in Pools /\ Len(q) = 1 /\ q[1] = "live"
      BY <1>1, <3>1, Own, PassedType
    <3>3. Usable(q)
      BY <3>2 DEF Usable, Pools
    <3>4. pool' = [pool EXCEPT ![w] = q] /\ stale' = [stale EXCEPT ![w] = stale[w]]
      BY <2>1, <3>1, Own DEF Article, TypeOK
    <3>5. q \in Pools /\ stale[w] \in Nat /\ Len(q) < 2 /\ stale[w] <= 1
      BY <1>1, <3>2, Own
    <3> QED BY <3>3, <3>4, <3>5, Zenon
  <2>2. CASE ~Usable(pool[w])
    <3>1. PICK q : q = Invalidated(pool[w])
      OBVIOUS
    <3>2. q \in Pools /\ Len(q) = 1 /\ q[1] = "void"
      BY <1>1, <2>2, <3>1, Own, InvalidatedType
    <3>3. Usable(q)
      BY <3>2 DEF Usable, Pools
    <3>4. stale[w] = 0
      BY <1>1, <2>2, Own
    <3>5. pool' = [pool EXCEPT ![w] = q] /\ stale' = [stale EXCEPT ![w] = 1]
      BY <2>2, <3>1, <3>4, Own DEF Article, TypeOK
    <3>6. q \in Pools /\ 1 \in Nat /\ Len(q) < 2 /\ 1 <= 1
      BY <3>2
    <3> QED BY <3>3, <3>5, <3>6, Zenon
  <2> QED BY <2>1, <2>2
<1>7. Heal(w)'
  BY <1>1, <1>3, <1>6, Own
     DEF Heal, Closed, Selecting, Logging, Processing, Usable, TypeOK
<1> QED
  BY <1>1, <1>3, <1>4, <1>5, <1>6, <1>7, Own, GoesOn, Zenon

(* An attempt that comes to its end, or that some server ends.             *)
LEMMA RaiseAfresh ==
    ASSUME IInv, NEW w \in Workers, pc[w] # "idle",
           NEW p \in Pools, NEW r \in Connections,
           NEW again, again => MayRetry(job[w]), NEW excuse \in BOOLEAN,
           Raise(w, p, r, 0, again, excuse)
    PROVE  IInv'
<1>1. /\ Depth(AgedPool(p)) \in 0..2 /\ Cold(Aged(r)) \in 0..1
  BY AgedPoolType, Measures DEF Cold
<1>2. 0 + 2 * Depth(AgedPool(p)) + Cold(Aged(r)) <= 5 /\ 0 \in Nat
  BY <1>1
<1> QED
  BY <1>2, RaiseStep, Zenon

LEMMA FinishStep ==
    ASSUME IInv, NEW w \in Workers, Finish(w)
    PROVE  IInv'
<1>1. pc[w] = "articles" /\ pc[w] # "idle" /\ Len(pool[w]) <= 1
  BY Own DEF Finish, TypeOK
<1>2. GivenBack(pool[w]) \in Pools
  BY <1>1, Own, GivenBackType
<1>3. CASE Succeed(w, GivenBack(pool[w]), redis[w])
  BY <1>1, <1>2, <1>3, Own, SucceedStep, Zenon
<1>4. CASE Raise(w, GivenBack(pool[w]), redis[w], 0, MayRetry(job[w]), FALSE)
  <2>1. PICK again : again = MayRetry(job[w])
    OBVIOUS
  <2>2. PICK excuse \in BOOLEAN : excuse = FALSE
    OBVIOUS
  <2>3. Raise(w, GivenBack(pool[w]), redis[w], 0, again, excuse) /\ (again => MayRetry(job[w]))
    BY <1>4, <2>1, <2>2, Zenon
  <2> QED BY <1>1, <1>2, <2>3, Own, RaiseAfresh, Zenon
<1> QED
  BY <1>3, <1>4 DEF Finish

LEMMA StoreStep ==
    ASSUME IInv, NEW w \in Workers, Store(w)
    PROVE  IInv'
<1>1. /\ pc[w] = "begin" /\ pc[w] # "idle" /\ NoLive(pool[w]) /\ redis[w] # "live"
      /\ Credit(w) /\ stale[w] = 0
  BY Own DEF Store, At, Heal, Closed, Processing
<1>2. Depth(pool[w]) \in 0..2 /\ streak[w] \in Nat /\ Cold(redis[w]) \in 0..1
  BY Own, Measures
<1>3. CASE Usable(pool[w])
  <2>1. PICK p : p = Passed(pool[w])
    OBVIOUS
  <2>2. /\ p \in Pools /\ Len(p) \in 1..2 /\ p[Len(p)] = "live"
        /\ Len(pool[w]) < 2 => Len(p) = 1
        /\ Len(pool[w]) = 2 => p[1] = pool[w][2]
    BY <2>1, Own, PassedType, PoolLen
  <2>3. /\ UNCHANGED <<task, place, tries, blamed, job, deaths, streak>>
        /\ pc' = [pc EXCEPT ![w] = "log"] /\ pool' = [pool EXCEPT ![w] = p]
        /\ redis' = [redis EXCEPT ![w] = redis[w]] /\ left' = [left EXCEPT ![w] = left[w]]
        /\ served' = [served EXCEPT ![w] = served[w]] /\ stale' = [stale EXCEPT ![w] = 0]
    BY <1>1, <1>3, <2>1, Own DEF Store, mail, Goto, TypeOK
  <2>4. Len(p) = 2 => p[1] # "live"
    BY <1>1, <2>2, Own DEF NoLive
  <2>5. p[1] = "dead" => streak[w] + 4 + Cold(redis[w]) <= 5
    <3>1. Len(pool[w]) < 2 \/ Len(pool[w]) = 2
      <4>1. PICK n \in 0..2 : n = Len(pool[w])
        BY Own, Zenon
      <4>2. n < 2 \/ n = 2
        OBVIOUS
      <4> QED BY <4>1, <4>2, Zenon
    <3>2. Len(p) = 1 => p[1] = "live"
      BY <2>2
    <3>3. Len(pool[w]) < 2 => p[1] # "dead"
      BY <2>2, <3>2
    <3>4. p[1] = "dead" => Len(pool[w]) = 2 /\ pool[w][2] = "dead"
      BY <2>2, <3>1, <3>3, Zenon
    <3>5. p[1] = "dead" => Depth(pool[w]) = 2
      BY <3>4 DEF Depth
    <3> QED BY <1>1, <1>2, <3>5 DEF Credit
  <2>6. streak[w] <= 5
    BY <1>1, <1>2 DEF Credit
  <2>7. Heal(w)'
    BY <1>1, <2>2, <2>3, <2>4, <2>5, <2>6, Own
       DEF Heal, Closed, Selecting, Logging, Processing, TypeOK
  <2>8. blamed' \in [Messages -> BOOLEAN] /\ 0 \in Nat /\ "log" # "articles"
    BY <2>3, Own
  <2> QED BY <1>1, <2>2, <2>3, <2>7, <2>8, Own, GoesOn, Zenon
<1>4. CASE ~Usable(pool[w])
  <2>1. RaiseStale(w, Invalidated(pool[w]), redis[w])
    BY <1>4 DEF Store
  <2>2. streak[w] + 2 * Depth(pool[w]) <= 5
    BY <1>1, <1>2 DEF Credit
  <2> QED BY <1>1, <1>4, <2>1, <2>2, ClosedCheckout, Zenon
<1> QED
  BY <1>3, <1>4

LEMMA LogStep ==
    ASSUME IInv, NEW w \in Workers, Log(w)
    PROVE  IInv'
<1>1. /\ pc[w] = "log" /\ pc[w] # "idle" /\ redis[w] # "live"
      /\ Len(pool[w]) > 0 /\ pool[w][Len(pool[w])] = "live"
      /\ pool[w][1] = "dead" => streak[w] + 4 + Cold(redis[w]) <= 5
  BY Own DEF Log, Heal, Logging
<1>2. CASE Usable(pool[w])
  <2>1. Succeed(w, Passed(pool[w]), redis[w]) /\ Passed(pool[w]) \in Pools
    BY <1>2, Own, PassedType DEF Log
  <2> QED BY <1>1, <2>1, Own, SucceedStep, Zenon
<1>3. CASE ~Usable(pool[w])
  <2>1. PICK p : p = Invalidated(pool[w])
    OBVIOUS
  <2>2. /\ p \in Pools /\ pool[w][1] = "dead" /\ Len(p) = Len(pool[w])
        /\ p[Len(pool[w])] = "void"
        /\ Len(pool[w]) = 2 => p[1] = pool[w][2]
    BY <1>3, <2>1, Own, InvalidatedType
  <2>3. Len(pool[w]) = 2 /\ Len(p) = 2 /\ p[1] = "live" /\ p[2] = "void"
    BY <1>1, <2>2, Own
  <2>4. Len(AgedPool(p)) = 2 /\ AgedPool(p)[2] = "void"
    BY <2>2, <2>3, AgedPoolType DEF Aged
  <2>5. Depth(AgedPool(p)) \in 0..1
    BY <2>4 DEF Depth
  <2>6. Cold(Aged(redis[w])) = Cold(redis[w]) /\ Cold(redis[w]) \in 0..1
    BY <1>1 DEF Cold, Aged
  <2>7. streak[w] + 1 + 2 * Depth(AgedPool(p)) + Cold(Aged(redis[w])) <= 5
    BY <1>1, <2>2, <2>5, <2>6, Own
  <2>8. RaiseStale(w, p, redis[w])
    BY <1>3, <2>1 DEF Log
  <2> QED BY <1>1, <2>2, <2>7, <2>8, Own, StaleStep, Zenon
<1> QED
  BY <1>2, <1>3

LEMMA CleanupStep ==
    ASSUME IInv, NEW w \in Workers, Cleanup(w)
    PROVE  IInv'
<1>1. /\ pc[w] # "idle" /\ NoLive(pool[w]) /\ Credit(w)
  BY Own DEF Cleanup, At, Heal, Closed
<1>2. Depth(pool[w]) \in 0..2 /\ streak[w] \in Nat /\ Cold(redis[w]) \in 0..1
  BY Own, Measures
<1>3. CASE Usable(pool[w])
  <2>1. Succeed(w, Passed(pool[w]), redis[w]) /\ Passed(pool[w]) \in Pools
    BY <1>3, Own, PassedType DEF Cleanup
  <2> QED BY <1>1, <2>1, Own, SucceedStep, Zenon
<1>4. CASE ~Usable(pool[w])
  <2>1. RaiseStale(w, Invalidated(pool[w]), redis[w])
    BY <1>4 DEF Cleanup
  <2>2. streak[w] + 2 * Depth(pool[w]) <= 5
    BY <1>1, <1>2 DEF Credit
  <2> QED BY <1>1, <1>4, <2>1, <2>2, ClosedCheckout, Zenon
<1> QED
  BY <1>3, <1>4
-----------------------------------------------------------------------------
(* Messages move, and an attempt begins or is acknowledged.                *)

LEMMA DeliverStep ==
    ASSUME IInv, NEW m \in Messages, NEW t \in Tasks, Deliver(m, t),
           UNCHANGED <<redis, pool, job, left, served, streak, stale, deaths>>,
           pc' = pc \/ \E w \in Workers : pc[w] = "chain" /\ pc' = [pc EXCEPT ![w] = "ack"]
    PROVE  IInv'
<1>1. /\ place[m] = "free" /\ place' = [place EXCEPT ![m] = "queued"]
      /\ task' = [task EXCEPT ![m] = t] /\ tries' = [tries EXCEPT ![m] = 0]
      /\ blamed' = [blamed EXCEPT ![m] = FALSE]
  BY DEF Deliver, Free
<1>2. MailOK' /\ RunOK'
  BY <1>1, TypeParts DEF IInv, MailOK, RunOK
<1>3. ASSUME NEW v \in Workers
      PROVE  /\ pc'[v] = "idle" <=> pc[v] = "idle"
             /\ pc'[v] = pc[v] \/ (pc[v] = "chain" /\ pc'[v] = "ack")
  BY TypeParts DEF IInv, RunOK
<1>4. ASSUME NEW v \in Workers PROVE Works(v)'
  BY <1>1, <1>3, TypeParts DEF IInv, Works, MailOK, RunOK
<1>5. ASSUME NEW v \in Workers PROVE Heal(v)'
  BY <1>3, TypeParts DEF IInv, Heal, Closed, Selecting, Logging, Processing, Credit, RunOK
<1> QED
  BY <1>2, <1>4, <1>5, TypeParts DEF IInv, TypeOK, MailOK, RunOK, Works

LEMMA SendStep ==
    ASSUME IInv, Beat \/ Trigger
    PROVE  IInv'
<1>1. PICK m \in Messages, t \in Tasks : Send(m, t)
  BY SentAssumption DEF Beat, Trigger, Tasks
<1>2. Deliver(m, t) /\ pc' = pc
      /\ UNCHANGED <<redis, pool, job, left, served, streak, stale, deaths>>
  BY <1>1 DEF Send, conns, run
<1> QED
  BY <1>2, DeliverStep

LEMMA ChainStep ==
    ASSUME IInv, NEW w \in Workers, Chain(w)
    PROVE  IInv'
<1>1. PICK m \in Messages : Deliver(m, "summarize")
  BY DEF Chain
<1>2. /\ UNCHANGED <<redis, pool, job, left, served, streak, stale, deaths>>
      /\ pc[w] = "chain" /\ pc' = [pc EXCEPT ![w] = "ack"] /\ "summarize" \in Tasks
  BY DEF Chain, conns, Goto, Tasks
<1> QED
  BY <1>1, <1>2, DeliverStep

LEMMA DueStep ==
    ASSUME IInv, NEW m \in Messages, Due(m)
    PROVE  IInv'
<1>1. /\ place[m] = "countdown" /\ place' = [place EXCEPT ![m] = "queued"]
      /\ UNCHANGED <<task, tries, blamed, redis, pool, job, pc, left, served, streak, stale, deaths>>
  BY DEF Due, conns, run
<1>2. MailOK' /\ RunOK'
  BY <1>1, TypeParts DEF IInv, MailOK, RunOK
<1>3. ASSUME NEW v \in Workers PROVE Works(v)'
  BY <1>1, TypeParts DEF IInv, Works, MailOK, RunOK
<1>4. ASSUME NEW v \in Workers PROVE Heal(v)'
  BY <1>1, HealOther DEF IInv
<1> QED
  BY <1>2, <1>3, <1>4, TypeParts DEF IInv, TypeOK, MailOK, RunOK, Works

LEMMA TakeStep ==
    ASSUME IInv, NEW w \in Workers, NEW m \in Messages, Take(w, m)
    PROVE  IInv'
<1>1. /\ pc[w] = "idle" /\ pc' = [pc EXCEPT ![w] = "begin"] /\ place[m] = "queued"
      /\ place' = [place EXCEPT ![m] = "running"] /\ job' = [job EXCEPT ![w] = m]
      /\ UNCHANGED <<task, tries, blamed, redis, pool, left, served, streak, stale, deaths>>
  BY DEF Take, conns, Goto
<1>2. MailOK' /\ RunOK'
  BY <1>1, TypeParts DEF IInv, MailOK, RunOK
<1>3. ASSUME NEW v \in Workers PROVE Works(v)'
  <2>1. \A u \in Workers : job[u] # m
    BY <1>1, TypeParts, MessagesAssumption DEF IInv, Works
  <2>2. CASE v = w
    BY <1>1, <2>1, <2>2, TypeParts, MessagesAssumption DEF IInv, Works, MailOK, RunOK
  <2>3. CASE v # w
    BY <1>1, <2>1, <2>3, TypeParts, MessagesAssumption DEF IInv, Works, MailOK, RunOK
  <2> QED BY <2>2, <2>3
<1>4. ASSUME NEW v \in Workers PROVE Heal(v)'
  BY <1>1, TypeParts DEF IInv, Heal, Closed, Selecting, Logging, Processing, Credit, RunOK
<1> QED
  BY <1>2, <1>3, <1>4, TypeParts DEF IInv, TypeOK, MailOK, RunOK, Works

LEMMA AckStep ==
    ASSUME IInv, NEW w \in Workers, Ack(w)
    PROVE  IInv'
<1>1. /\ pc[w] = "ack" /\ pc' = [pc EXCEPT ![w] = "idle"] /\ job[w] \in Messages
      /\ place' = [place EXCEPT ![job[w]] = "free"] /\ job' = [job EXCEPT ![w] = NoMessage]
      /\ UNCHANGED <<task, tries, blamed, redis, pool, left, served, streak, stale, deaths>>
  BY JobOf DEF IInv, Ack, conns, Goto
<1>2. MailOK' /\ RunOK'
  BY <1>1, TypeParts DEF IInv, MailOK, RunOK
<1>3. ASSUME NEW v \in Workers PROVE Works(v)'
  BY <1>1, TypeParts, MessagesAssumption DEF IInv, Works, MailOK, RunOK
<1>4. ASSUME NEW v \in Workers PROVE Heal(v)'
  BY <1>1, TypeParts DEF IInv, Heal, Closed, Selecting, Logging, Processing, Credit, RunOK
<1> QED
  BY <1>2, <1>3, <1>4, TypeParts DEF IInv, TypeOK, MailOK, RunOK, Works

LEMMA OutageStep ==
    ASSUME IInv, NEW w \in Workers, Outage(w)
    PROVE  IInv'
<1>1. PICK p : p = IF pc[w] = "articles" THEN GivenBack(pool[w]) ELSE pool[w]
  OBVIOUS
<1>2. pc[w] # "idle" /\ (pc[w] = "articles" => Len(pool[w]) <= 1)
  BY Own DEF Outage, TypeOK
<1>3. p \in Pools
  BY <1>1, <1>2, Own, GivenBackType
<1>4. PICK q : q = [i \in DOMAIN p |-> "void"]
  OBVIOUS
<1>5. q \in Pools /\ "void" \in Connections
  BY <1>3, <1>4, VoidPoolType DEF Connections
<1>6. PICK again \in {MayRetry(job[w]), FALSE} :
         \/ Raise(w, p, redis[w], 0, again, TRUE)
         \/ Raise(w, q, "void", 0, again, TRUE)
  BY <1>1, <1>4, Zenon DEF Outage
<1>7. again => MayRetry(job[w])
  BY Zenon
<1>8. PICK excuse \in BOOLEAN : excuse = TRUE
  OBVIOUS
<1>9. Raise(w, p, redis[w], 0, again, excuse) \/ Raise(w, q, "void", 0, again, excuse)
  BY <1>6, <1>8, Zenon
<1> QED
  BY <1>2, <1>3, <1>5, <1>7, <1>9, Own, RaiseAfresh, Zenon

LEMMA DieStep ==
    ASSUME IInv, NEW w \in Workers, Die(w)
    PROVE  IInv'
<1>1. /\ deaths < MaxDeaths /\ deaths' = deaths + 1
      /\ pool' = [pool EXCEPT ![w] = <<>>] /\ redis' = [redis EXCEPT ![w] = "void"]
      /\ left' = [left EXCEPT ![w] = 0] /\ served' = [served EXCEPT ![w] = FALSE]
      /\ stale' = [stale EXCEPT ![w] = 0] /\ streak' = [streak EXCEPT ![w] = 0]
      /\ job' = [job EXCEPT ![w] = NoMessage] /\ pc' = [pc EXCEPT ![w] = "idle"]
      /\ UNCHANGED <<task, tries>>
  BY DEF Die, Goto
<1>2. \/ UNCHANGED <<place, blamed>>
      \/ /\ job[w] \in Messages
         /\ place' = [place EXCEPT ![job[w]] = "queued"]
         /\ blamed' = [blamed EXCEPT ![job[w]] = TRUE]
  BY JobOf DEF IInv, Die
<1>3. MailOK'
  BY <1>1, <1>2, TypeParts DEF IInv, MailOK
<1>4. <<>> \in Pools /\ "void" \in Connections /\ deaths' \in 0..MaxDeaths /\ Len(<<>>) = 0
  <2>1. <<>> \in Pools /\ "void" \in Connections /\ Len(<<>>) = 0
    BY EmptySeq DEF Pools, Connections
  <2>2. deaths \in 0..MaxDeaths
    BY TypeParts DEF IInv, RunOK
  <2> QED BY <1>1, <2>1, <2>2, BoundsAssumption
<1>5. RunOK'
  BY <1>1, <1>4, TypeParts, BoundsAssumption DEF IInv, RunOK
<1>6. ASSUME NEW v \in Workers PROVE Works(v)'
  <2>1. CASE v = w
    BY <1>1, <2>1, TypeParts, MessagesAssumption DEF IInv, Works, RunOK
  <2>2. CASE v # w
    <3>1. job'[v] = job[v] /\ pc'[v] = pc[v] /\ pool'[v] = pool[v]
      BY <1>1, <2>2, TypeParts DEF IInv, RunOK
    <3>2. job[v] # NoMessage => job[v] # job[w] /\ job[v] \in Messages
      BY <2>2, TypeParts, MessagesAssumption DEF IInv, Works, RunOK
    <3>3. job'[v] # NoMessage => place'[job'[v]] = "running"
      BY <1>2, <3>1, <3>2, TypeParts DEF IInv, Works, MailOK
    <3>4. \A u \in Workers : job'[v] = job'[u] => v = u \/ job'[v] = NoMessage
      BY <1>1, <3>1, TypeParts DEF IInv, Works, RunOK
    <3> QED BY <3>1, <3>3, <3>4, TypeParts DEF IInv, Works
  <2> QED BY <2>1, <2>2
<1>7. Heal(w)'
  BY <1>1, <1>4, TypeParts
     DEF IInv, Heal, Closed, Selecting, Logging, Processing, Credit, Depth, Cold, NoLive, RunOK
<1>8. ASSUME NEW v \in Workers, v # w PROVE Heal(v)'
  BY <1>1, <1>8, HealOther, TypeParts DEF IInv, RunOK
<1> QED
  BY <1>3, <1>5, <1>6, <1>7, <1>8, TypeParts DEF IInv, TypeOK, MailOK, RunOK, Works

LEMMA InitInv == Init => IInv
<1> SUFFICES ASSUME Init PROVE IInv
  OBVIOUS
<1>1. <<>> \in Pools /\ Len(<<>>) = 0
  BY EmptySeq DEF Pools
<1>2. TypeOK
  BY <1>1, BoundsAssumption DEF Init, TypeOK, Tasks, Connections
<1>3. ASSUME NEW w \in Workers PROVE Heal(w)
  BY <1>1 DEF Init, Heal, Closed, Selecting, Logging, Processing, Credit, Depth, Cold, NoLive
<1> QED
  BY <1>2, <1>3 DEF IInv

LEMMA NextInv == IInv /\ [Next]_vars => IInv'
<1> SUFFICES ASSUME IInv, [Next]_vars PROVE IInv'
  OBVIOUS
<1>1. CASE Beat \/ Trigger
  BY <1>1, SendStep
<1>2. CASE \E m \in Messages : Due(m) \/ \E w \in Workers : Take(w, m)
  BY <1>2, DueStep, TakeStep
<1>3. CASE \E w \in Workers : Attempt(w)
  BY <1>3, SwitchedOffStep, ReadBudgetStep, SelectStep, ArticleStep, FinishStep, StoreStep,
     LogStep, ChainStep, CleanupStep, AckStep DEF Attempt
<1>4. CASE \E w \in Workers : Outage(w) \/ Die(w)
  BY <1>4, OutageStep, DieStep
<1>5. CASE UNCHANGED vars
  <2>1. UNCHANGED <<task, place, tries, blamed, redis, pool, job, pc, left, served,
                    streak, stale, deaths>>
    BY <1>5 DEF vars, mail, conns, run
  <2>2. TypeOK'
    BY <2>1 DEF IInv, TypeOK
  <2>3. ASSUME NEW w \in Workers PROVE Heal(w)'
    BY <2>1, HealOther DEF IInv
  <2> QED BY <2>2, <2>3 DEF IInv
<1> QED
  BY <1>1, <1>2, <1>3, <1>4, <1>5 DEF Next

LEMMA Invariance == Spec => []IInv
  BY InitInv, NextInv, PTL DEF Spec
-----------------------------------------------------------------------------
(* A message is worked on by one process at a time, and a process keeps at  *)
(* most two connections to the database (TypeOK).                          *)
THEOREM WorkerTyping == Spec => []TypeOK
<1>1. IInv => TypeOK
  BY DEF IInv
<1> QED
  BY <1>1, Invariance, PTL

(* However messages, outages and deaths come, a process that has kept dead *)
(* connections fails at most five times in a row for their sake.           *)
THEOREM Healing == Spec => []HealsWithin
<1>1. IInv => HealsWithin
  <2> SUFFICES ASSUME IInv, NEW w \in Workers PROVE streak[w] <= 5
    BY DEF HealsWithin
  <2>1. Depth(pool[w]) \in 0..2 /\ Cold(redis[w]) \in 0..1
    BY Own, Measures
  <2>2. /\ Heal(w) /\ streak[w] \in Nat
        /\ pc[w] \in {"idle", "begin", "select", "articles", "log", "chain", "ack"}
    BY Own DEF TypeOK
  <2> QED
    BY <2>1, <2>2 DEF Heal, Closed, Selecting, Logging, Processing, Credit
<1> QED
  BY <1>1, Invariance, PTL

(* A run loses one article at most to a dead connection.                   *)
THEOREM OneArticle == Spec => []OneArticleStale
<1>1. IInv => OneArticleStale
  BY Own DEF IInv, OneArticleStale, Heal, Processing
<1> QED
  BY <1>1, Invariance, PTL
================================================================================
