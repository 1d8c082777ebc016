--------------------------------- MODULE Fetchers ---------------------------------
(***************************************************************************)
(* RSSFetcher and NewsAPIFetcher (app/services/ingestion.py): what a round *)
(* over all feeds and categories brings the fetch task, as a function of   *)
(* what the sources answer.  One source after the other is asked; an error *)
(* of one is logged and passed over.                                       *)
(*                                                                         *)
(* An answer is ok or not, and has a sequence of entries:                  *)
(*   good      has all that is needed;                                     *)
(*   unusable  has no link, was removed, or has no title a feed may have;  *)
(*   stranger  is from a publisher that NewsAPI is not trusted with;       *)
(*   broken    has a value of an unexpected type, which raises.            *)
(***************************************************************************)
EXTENDS Naturals, SequencesExt

CONSTANTS
    FeedLimit,   \* entries of a feed that are looked at
    Rounds       \* what the sources can answer in one round

Forms   == {"good", "unusable", "stranger", "broken"}
Answer(entries) == [ok |-> TRUE, entries |-> entries]
Refused == [ok |-> FALSE, entries |-> <<>>]

ASSUME FetchersAssumption == FeedLimit \in Nat

(* The entries that are made into a RawArticle: the list of trusted        *)
(* publishers is for NewsAPI alone.                                        *)
FromFeed     == {"good", "stranger"}
FromCategory == {"good"}

(* A loop over entries that appends what it makes of the wanted ones.      *)
Kept(entries, wanted) ==
    LET kept[n \in 0..Len(entries)] ==
            IF n = 0 THEN <<>>
            ELSE IF entries[n].form \in wanted THEN Append(kept[n - 1], entries[n].item)
            ELSE kept[n - 1]
    IN  kept[Len(entries)]

(* _fetch_feed: an entry that raises is passed over.                       *)
Looked(feed) == IF Len(feed) < FeedLimit THEN feed ELSE SubSeq(feed, 1, FeedLimit)
ReadFeed(answer) == IF answer.ok THEN Kept(Looked(answer.entries), FromFeed) ELSE <<>>

(* fetch_top_headlines: an entry that raises ends its category, but what   *)
(* was taken before it is kept.  Faulty variant: it ends all that follow.  *)
Breaks(entries) == {n \in DOMAIN entries : entries[n].form = "broken"}
Sound(entries) ==
    IF Breaks(entries) = {} THEN entries ELSE SubSeq(entries, 1, Min(Breaks(entries)) - 1)
ReadCategory(answer) == IF answer.ok THEN Kept(Sound(answer.entries), FromCategory) ELSE <<>>
ReadCategoriesInOne(answers) ==
    Kept(Sound(FlattenSeq([n \in DOMAIN answers |->
                              IF answers[n].ok THEN answers[n].entries ELSE <<>>])),
         FromCategory)
ReadCategories(answers) == FlattenSeq([n \in DOMAIN answers |-> ReadCategory(answers[n])])

(* _fetch_and_process: rss + api.                                          *)
ReadFeeds(answers) == FlattenSeq([n \in DOMAIN answers |-> ReadFeed(answers[n])])
Collected(round) == ReadFeeds(round.feeds) \o ReadCategories(round.categories)
-----------------------------------------------------------------------------
(* What a round should bring: an entry is collected unless its own source  *)
(* refused, its feed had FeedLimit entries before it, or an entry broke the *)
(* rest of its category ("a.get('title', '')" is None when NewsAPI sends   *)
(* null).  Batches: for all the rounds together.                           *)
Answered(answers) == {a \in ToSet(answers) : a.ok}
OfFeed(feed) ==
    {feed[n].item : n \in {m \in DOMAIN feed : m <= FeedLimit /\ feed[m].form \in FromFeed}}
OfCategory(list) ==
    {list[n].item : n \in {m \in DOMAIN list : /\ list[m].form \in FromCategory
                                               /\ \A k \in 1..m : list[k].form # "broken"}}
Offered(round) ==
    (UNION {OfFeed(a.entries) : a \in Answered(round.feeds)})
    \cup (UNION {OfCategory(a.entries) : a \in Answered(round.categories)})
Batches == {Offered(round) : round \in Rounds}
================================================================================
