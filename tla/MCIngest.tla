-------------------------------- MODULE MCIngest --------------------------------
(***************************************************************************)
(* Instances of Ingest for TLC: p and q are one headline under two URLs, r *)
(* is p's page under a new headline, s another story.                      *)
(***************************************************************************)
EXTENDS FetchRounds, TLC

MCItems  == {"p", "q", "r", "s"}
MCUrls   == {"u1", "u2", "u3"}
MCHashes == {"h1", "h2", "h3"}
MCUrlOf  == [i \in MCItems |-> CASE i \in {"p", "r"} -> "u1" [] i = "q" -> "u2"
                                 [] i = "s" -> "u3"]
MCHashOf == [i \in MCItems |-> CASE i \in {"p", "q"} -> "h1" [] i = "r" -> "h2"
                                 [] i = "s" -> "h3"]

(* Every answer of up to Len(names) entries, in the order of names.        *)
Answers(names) ==
    {Refused} \cup UNION {{Answer([i \in 1..k |-> [item |-> names[i], form |-> forms[i]]]) :
                              forms \in [1..k -> Forms]} : k \in 0..Len(names)}

(* All the rounds, whatever is refused, unusable or broken in them, that   *)
(* should bring one of two batches: p and s from a feed and q from the     *)
(* second category, or s from a feed and r from the first category.  The   *)
(* two list p's page and s in opposite orders.                             *)
Round(feeds, first, second) ==
    {[feeds |-> <<Refused, a>>, categories |-> <<b, c>>] :
        a \in Answers(feeds), b \in Answers(first), c \in Answers(second)}
MCRounds ==
    {round \in Round(<<"p", "s", "r">>, <<"r">>, <<"q", "r">>) : Offered(round) = {"p", "q", "s"}}
    \cup
    {round \in Round(<<"q", "s", "p">>, <<"r", "q">>, <<"p">>) : Offered(round) = {"r", "s"}}
Brought == {Collected(round) : round \in MCRounds}
MCFeeds == Brought
================================================================================
