-------------------------------- MODULE Provider --------------------------------
(***************************************************************************)
(* The two LLM clients of the worker (services/groq_summarizer.py and      *)
(* services/bedrock_summarizer.py) under the timeout that process_one puts *)
(* on a call (tasks.py, ARTICLE_TO).                                       *)
(*                                                                         *)
(* A call is a request in a thread, which the client library repeats when  *)
(* it fails or takes too long.  wait_for gives up the wait, not the        *)
(* thread: it lives on, in this run or the next, until its library gives   *)
(* up, and what it brings is ignored.  The libraries limit each connect,   *)
(* write and read of a request, not the request: that these are few, and   *)
(* RequestTime finite, is an assumption about the servers.                 *)
(*                                                                         *)
(* What the model answers is a sequence of parts: <think> opens, a thought, *)
(* </think> closes, then a body; max_tokens may cut it anywhere.           *)
(***************************************************************************)
EXTENDS Naturals, Sequences, FiniteSets

CONSTANTS
    ArticleTime,   \* ARTICLE_TO: what a call may take, in ticks of the clock
    RequestTime,   \* RequestTime[p]: what a request takes at most with p, in all
    Requests,      \* Requests[p]: requests the library of p makes for a call
    PauseTime      \* PauseTime[p]: the longest pause between two of them

Providers == {"groq", "bedrock"}

ASSUME TimesAssumption ==
    /\ ArticleTime \in Nat \ {0}
    /\ RequestTime \in [Providers -> Nat \ {0}]
    /\ Requests \in [Providers -> Nat \ {0}]
    /\ PauseTime \in [Providers -> Nat]

VARIABLES
    provider,      \* settings.ai_provider
    waited,        \* the thread process_one waits for: a set of at most one
    abandoned,     \* the threads nobody waits for any more
    said,          \* the answer to the last call, if it brought one
    outcome        \* what came of it: what is published, or why nothing is

vars == <<provider, waited, abandoned, said, outcome>>

(* A thread: its age, the number of its request, how long this request, or *)
(* the pause after it, has taken.                                          *)
Thread == [age : Nat, request : Nat, asking : BOOLEAN, since : Nat]
Fresh  == [age |-> 0, request |-> 1, asking |-> TRUE, since |-> 0]

Running == waited \cup abandoned
-----------------------------------------------------------------------------
(* Answers *)

(* A body: JSON with the three sentences, with some of them (others are    *)
(* missing or empty), with none, with a field that is no string (null);    *)
(* JSON that is no object; a text.  "piece" is JSON that was cut.          *)
Bodies == {"full", "some", "hollow", "odd", "other", "prose"}
Whole(p) ==
    {<<>>} \cup {<<b>> : b \in Bodies}
    \cup (IF p = "bedrock" THEN {<<"open", "thought", "close", b>> : b \in Bodies} ELSE {})
CutOff(p) ==
    (UNION {{SubSeq(a, 1, n) : n \in 0..Len(a)} : a \in Whole(p)})
    \cup {<<"piece">>}
    \cup (IF p = "bedrock" THEN {<<"open", "thought", "close", "piece">>} ELSE {})
Answers(p) == Whole(p) \cup CutOff(p)

Has(a, part) == \E i \in DOMAIN a : a[i] = part

(* _strip_think removes a block that is closed; an answer has none but the *)
(* one it begins with.  Faulty variant: it removes the tags alone.         *)
StrippedTags(a) == SelectSeq(a, LAMBDA part : part \notin {"open", "close"})
Stripped(a) ==
    IF Has(a, "open") /\ Has(a, "close")
    THEN LET end == CHOOSE n \in DOMAIN a : a[n] = "close" IN SubSeq(a, end + 1, Len(a))
    ELSE a

(* Groq: JSON with exactly three sentences, none empty, or an error.       *)
ReadGroq(a) == IF a = <<"full">> THEN "summary" ELSE "failed"

(* Bedrock: each field for itself, "" where it is missing, while null is   *)
(* published as "None"; JSON that is no object raises, and summarize falls *)
(* back to sentences of the article; what is not JSON is taken for the     *)
(* summary, first sentences first.                                         *)
ReadBedrock(a) ==
    LET text == Stripped(a) IN
    IF text = <<"full">> THEN "summary"
    ELSE IF text = <<"some">> THEN "part"
    ELSE IF text = <<"odd">> THEN "literal"
    ELSE IF text \in {<<>>, <<"hollow">>} THEN "blank"
    ELSE IF text = <<"other">> THEN "extract"
    ELSE IF Has(text, "thought") \/ Has(text, "open") THEN "reasoning"
    ELSE IF Has(text, "piece") THEN "syntax" ELSE "prose"

Read(a) == IF provider = "groq" THEN ReadGroq(a) ELSE ReadBedrock(a)
-----------------------------------------------------------------------------
Init ==
    /\ provider \in Providers
    /\ waited = {}
    /\ abandoned = {}
    /\ said = <<>>
    /\ outcome = "none"

(* process_one calls one article at a time (CONCURRENCY).                  *)
Call ==
    /\ waited = {}
    /\ waited' = {Fresh}
    /\ said' = <<>> /\ outcome' = "none"
    /\ UNCHANGED <<provider, abandoned>>

Ends(result) ==
    /\ \E t \in waited : t.asking
    /\ waited' = {}
    /\ outcome' = result
    /\ UNCHANGED <<provider, abandoned>>

(* The answer comes in time: _parse_summary.                               *)
Answer == \E a \in Answers(provider) : said' = a /\ Ends(Read(a))

(* The library gives up, or does not try again: Groq's error fails the     *)
(* article, Bedrock's is made into an extract of the article.              *)
Fail ==
    /\ Ends(IF provider = "groq" THEN "failed" ELSE "extract")
    /\ UNCHANGED said

Overdue == \E t \in waited : t.age >= ArticleTime

(* wait_for *)
GiveUp ==
    /\ Overdue
    /\ abandoned' = abandoned \cup waited
    /\ waited' = {}
    /\ outcome' = "timeout"
    /\ UNCHANGED <<provider, said>>

(* An abandoned thread ends, with an answer nobody reads or an error.      *)
LateEnd ==
    /\ \E t \in abandoned : t.asking /\ abandoned' = abandoned \ {t}
    /\ UNCHANGED <<provider, waited, said, outcome>>

(* A request fails, or is too long, and is made again after a pause.       *)
(* Faulty variant: the retries are counted without the first request.      *)
TriesLeftOneMore(t) == t.request <= Requests[provider]
TriesLeft(t) == t.request < Requests[provider]
Paused(t)  == [age |-> t.age, request |-> t.request, asking |-> FALSE, since |-> 0]
Resumed(t) == [age |-> t.age, request |-> t.request + 1, asking |-> TRUE, since |-> 0]

Swapped(threads, t, u) == IF t \in threads THEN (threads \ {t}) \cup {u} ELSE threads

Turns(t, u) == (t.asking /\ TriesLeft(t) /\ u = Paused(t)) \/ (~t.asking /\ u = Resumed(t))

Retry ==
    /\ \E t \in Running : \E u \in {Paused(t), Resumed(t)} :
          /\ Turns(t, u)
          /\ waited' = Swapped(waited, t, u)
          /\ abandoned' = Swapped(abandoned, t, u)
    /\ UNCHANGED <<provider, said, outcome>>

(* Time passes while nothing is due.                                       *)
Due(t) == t.since >= (IF t.asking THEN RequestTime[provider] ELSE PauseTime[provider])
Older(t) ==
    [age |-> t.age + 1, request |-> t.request, asking |-> t.asking, since |-> t.since + 1]

Tick ==
    /\ Running # {} /\ ~Overdue
    /\ \A t \in Running : ~Due(t)
    /\ waited' = {Older(t) : t \in waited}
    /\ abandoned' = {Older(t) : t \in abandoned}
    /\ UNCHANGED <<provider, said, outcome>>

Next == Call \/ Answer \/ Fail \/ GiveUp \/ LateEnd \/ Retry \/ Tick

Spec == Init /\ [][Next]_vars
-----------------------------------------------------------------------------
(* The longest life of a thread.                                           *)
Life(p) == Requests[p] * RequestTime[p] + (Requests[p] - 1) * PauseTime[p]

Published == {"summary", "part", "literal", "extract", "blank", "reasoning", "syntax", "prose"}

TypeOK ==
    /\ provider \in Providers
    /\ \A t \in waited : t \in Thread /\ t.age <= ArticleTime
    /\ \A t \in abandoned : t \in Thread /\ t.age \in ArticleTime..Life(provider)
    /\ said \in Answers(provider)
    /\ outcome \in Published \cup {"none", "failed", "timeout"}

(* CONCURRENCY = 1 "coroutine at a time" (tasks.py:322) bounds the calls    *)
(* that are waited for, not the requests: these are as many as the life of *)
(* a thread has room for timeouts, and no more.                            *)
ThreadsBounded ==
    IsFiniteSet(Running)
    /\ Cardinality(Running) <= Life(provider) \div ArticleTime + 1

(* Groq publishes three sentences or nothing.  Bedrock publishes something *)
(* whatever comes.  "<think> tags are the model's internal reasoning -- we  *)
(* strip them from output" (bedrock_summarizer.py:35): the reasoning is    *)
(* published all the same, but only from an answer that was cut before it  *)
(* was closed; syntax only from a cut body; a blank only from an answer    *)
(* without a sentence, a part and "None" only where the answer has just    *)
(* that; a full one is published as it is.                                 *)
FaithfulToAnswer ==
    /\ provider = "groq" => outcome \in {"none", "summary", "failed", "timeout"}
    /\ outcome = "summary" <=> Has(said, "full")
    /\ outcome = "reasoning" => ~Has(said, "close") /\ said \notin Whole(provider)
    /\ outcome = "syntax" => Has(said, "piece")
    /\ outcome = "part" => Has(said, "some")
    /\ outcome = "literal" => Has(said, "odd")
    /\ outcome = "blank" => ~\E body \in {"full", "some", "odd", "prose"} : Has(said, body)
================================================================================
