----------------------------- MODULE SummaryLedger -----------------------------
(***************************************************************************)
(* What summarisation promises, without workers, transactions or caches:   *)
(* an article's summary is published once and never rewritten, it is the   *)
(* article's own text or one already published, and the number of          *)
(* generated summaries charged to a day stays within a configured budget.  *)
(***************************************************************************)
EXTENDS Integers

CONSTANTS Articles,    \* the rows of table articles
          Text,        \* summary texts
          Own,         \* Own[a]: the texts article a itself can give rise to
          NoText,      \* the article has no published summary
          Days,        \* the calendar days of the horizon
          Limits       \* the values max_daily_summaries can be set to

VARIABLES published,   \* published[a]: the summary readers see, or NoText
          spent        \* spent[d]: generated summaries charged to day d

vars == <<published, spent>>

Init == /\ published = [a \in Articles |-> NoText]
        /\ spent = [d \in Days |-> 0]

(* The first and only publication of a's summary. *)
Publish(a) ==
    /\ published[a] = NoText
    /\ \E t \in Own[a] \cup {published[b] : b \in Articles} :
         /\ t # NoText
         /\ published' = [published EXCEPT ![a] = t]
    /\ UNCHANGED spent

(* One more generated summary on day d, allowed only below some limit. *)
Charge(d) ==
    /\ \E n \in Limits : spent[d] < n
    /\ spent' = [spent EXCEPT ![d] = @ + 1]
    /\ UNCHANGED published

Next == (\E a \in Articles : Publish(a)) \/ (\E d \in Days : Charge(d))

Spec == Init /\ [][Next]_vars
================================================================================
