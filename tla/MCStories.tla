-------------------------------- MODULE MCStories --------------------------------
(***************************************************************************)
(* Instances of Stories for TLC: two search terms of one slug, and the     *)
(* requests of each run.                                                   *)
(***************************************************************************)
EXTENDS Stories, TLC

MCQueries == {1, 2}
MCSlugOf  == [q \in MCQueries |-> 1]
MCMatches == [q \in MCQueries |-> IF q = 1 THEN Stories ELSE {1}]

Request(kind, lang, page, query, id, limit) ==
    [kind |-> kind, lang |-> lang, page |-> page, query |-> query, id |-> id, limit |-> limit]
List(lang, page, limit) == Request("stories", lang, page, 1, 1, limit)
Search(query, limit)    == Request("search", "en", 1, query, 1, limit)
Detail(lang, id)        == Request("story", lang, 1, 1, id, 1)
Translate(lang, id)     == Request("translate", lang, 1, 1, id, 1)

(* Two pages of one story each, and a longer first page under the same key. *)
PageRequests == {List("en", 1, 1), List("en", 2, 1), List("en", 1, 2)}
(* One reader searches, lists and opens a story, in a language it can be    *)
(* translated to.                                                          *)
SettleRequests == {List("fr", 1, 1), Detail("fr", 1), Search(2, 1), Translate("fr", 1)}
(* A list and a translation, for several readers.                          *)
TranslateRequests == {List("en", 1, 1), Translate("fr", 1)}

ClientSymmetry == Permutations(Clients)
================================================================================
