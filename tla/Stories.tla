--------------------------------- MODULE Stories ---------------------------------
(***************************************************************************)
(* The story endpoints (app/api/v1/endpoints/routes.py) over the table of  *)
(* articles and the Redis response cache, while workers publish summaries  *)
(* and sweep the cached lists, the cleanup task retires old articles, and  *)
(* readers have summaries translated.                                      *)
(*                                                                         *)
(* A story is the number of its place in the order of published_at.        *)
(***************************************************************************)
EXTENDS Integers, FiniteSets

CONSTANTS
    Clients,     \* requests that can be served at once
    Workers,     \* Celery workers that run the summarisation task
    Stories,     \* articles, the newer the greater
    Langs,       \* "en" and the other languages
    Queries,     \* search terms
    SlugOf,      \* SlugOf[q]: a term with the same slug in search_key
    Matches,     \* Matches[q]: the articles a term is found in
    Requests     \* the requests readers make

Kinds    == {"stories", "search", "story", "translate"}
ListKind == {"stories", "search"}

ASSUME RequestsAssumption ==
    /\ Stories \subseteq Nat /\ IsFiniteSet(Stories)
    /\ SlugOf \in [Queries -> Queries]
    /\ Matches \in [Queries -> SUBSET Stories]
    /\ Requests \subseteq [kind : Kinds, lang : Langs, page : Nat \ {0},
                           query : Queries, id : Stories, limit : Nat \ {0}]

VARIABLES
    published,   \* articles with is_summarized
    retired,     \* articles without is_active
    translation, \* translation[<<s, l>>]: the stored row of article_translations
    cache,       \* Redis: a function on the keys that are set
    known,       \* ids that readers have been given
    pc,          \* pc[c]: place of c in its handler
    req,         \* req[c]: the request of c
    total,       \* total[c]: the count of get_top_stories
    items,       \* items[c]: what c has read or translated
    upto,        \* ghost: published, when c began to read
    run,         \* run[w]: place of w in the end of _summarize_pending
    found,       \* found[w]: the answer to KEYS in delete_pattern
    upon,        \* ghost: published, when w asked for the keys
    listed,      \* ghost: articles published before some KEYS
    swept        \* ghost: articles published before a KEYS whose DELETE is done

tables  == <<published, retired, translation>>
clients == <<pc, req, total, items, upto>>
workers == <<run, found, upon, listed, swept>>
vars    == <<published, retired, translation, cache, known, pc, req, total, items, upto,
             run, found, upon, listed, swept>>

None   == "none"
Absent == [kind |-> None]

(* CacheClient.stories_key, search_key and story_key: no key has the limit, *)
(* and a search key has only the slug of the term.                          *)
Key(r) == [kind |-> r.kind, lang |-> r.lang,
           of |-> CASE r.kind = "stories" -> <<r.page>>
                    [] r.kind = "search"  -> <<SlugOf[r.query]>>
                    [] OTHER              -> <<r.id>>]
Cached(r)   == Key(r) \in DOMAIN cache

(* delete_pattern("stories:*").  Faulty variant: "story:*". *)
SweptDetails(keys) == {k \in keys : k.kind = "story"}
Swept(keys) == {k \in keys : k.kind = "stories"}

-----------------------------------------------------------------------------
(* ArticleRepository: what the queries return. *)

(* localize: a story in language l, as the set of its id and its text. *)
Localized(s, l) ==
    [id |-> s,
     text |-> IF l # "en" /\ translation[<<s, l>>] # None THEN translation[<<s, l>>]
              ELSE IF s \in published THEN "summary" ELSE "raw"]

\* Faulty variant: the condition on is_summarized is dropped.
VisibleRaw == Stories \ retired
Visible == published \ retired

Rank(s, set) == Cardinality({t \in set : t >= s})
Slice(set, first, last) == {s \in set : Rank(s, set) \in first..last}

\* Faulty variant: what is left after the page.
CountedRest(r) == Cardinality(Visible) - r.page * r.limit
Counted(r) == Cardinality(Visible)

(* The rows of get_top_stories, search or get_by_id. *)
Rows(r) ==
    CASE r.kind = "stories" -> Slice(Visible, (r.page - 1) * r.limit + 1, r.page * r.limit)
      [] r.kind = "search"  -> Slice(Visible \cap Matches[r.query], 1, r.limit)
      [] OTHER              -> {r.id}
Answer(r) == {Localized(s, r.lang) : s \in Rows(r)}
Ids(set)  == {i.id : i \in set}

-----------------------------------------------------------------------------
Init ==
    /\ published = {} /\ retired = {}
    /\ translation = [p \in Stories \X Langs |-> None]
    /\ cache = [k \in {} |-> None]
    /\ known = {}
    /\ pc = [c \in Clients |-> "idle"]
    /\ req = [c \in Clients |-> Absent]
    /\ total = [c \in Clients |-> 0]
    /\ items = [c \in Clients |-> {}]
    /\ upto = [c \in Clients |-> {}]
    /\ run = [w \in Workers |-> "idle"]
    /\ found = [w \in Workers |-> {}]
    /\ upon = [w \in Workers |-> {}]
    /\ listed = {} /\ swept = {}

(* The handler returns or raises. *)
Leave(c) ==
    /\ pc' = [pc EXCEPT ![c] = "idle"]
    /\ req' = [req EXCEPT ![c] = Absent]
    /\ total' = [total EXCEPT ![c] = 0]
    /\ items' = [items EXCEPT ![c] = {}]
    /\ upto' = [upto EXCEPT ![c] = {}]

Goto(c, place) == pc' = [pc EXCEPT ![c] = place]

(* A reader names articles by ids it has been given: the ids are random.   *)
Asks(c, r) == pc[c] = "idle" /\ (r.kind \in ListKind \/ r.id \in known)

(* get_json finds the key: the answer is what is stored under it. *)
Hit(c, r) ==
    /\ Asks(c, r) /\ r.kind # "translate" /\ Cached(r)
    /\ known' = known \cup Ids(cache[Key(r)].items)
    /\ UNCHANGED <<tables, cache, clients, workers>>

Miss(c, r) ==
    /\ Asks(c, r) /\ r.kind # "translate" /\ ~Cached(r)
    /\ req' = [req EXCEPT ![c] = r]
    /\ Goto(c, IF r.kind = "stories" THEN "count" ELSE "read")
    /\ UNCHANGED <<tables, cache, known, total, items, upto, workers>>

(* The first statement of get_top_stories. *)
Count(c) ==
    /\ pc[c] = "count"
    /\ total' = [total EXCEPT ![c] = Counted(req[c])]
    /\ upto' = [upto EXCEPT ![c] = published]
    /\ Goto(c, "read")
    /\ UNCHANGED <<tables, cache, known, req, items, workers>>

Read(c) ==
    /\ pc[c] = "read"
    /\ items' = [items EXCEPT ![c] = Answer(req[c])]
    /\ Goto(c, "store")
    /\ UNCHANGED <<tables, cache, known, req, total, upto, workers>>

(* set_json is SETEX.  Faulty variant: SET. *)
NoTtl  == FALSE
HasTtl == TRUE

(* What set_json writes.  Ghost `late`: a sweep has asked for its keys      *)
(* since the handler read, and after a publication it did not see.          *)
Entry(c) == [req |-> req[c], items |-> items[c],
             more |-> req[c].page * req[c].limit < total[c],
             late |-> req[c].kind = "stories" /\ ~(listed \subseteq upto[c]),
             expires |-> HasTtl]

Store(c) ==
    /\ pc[c] = "store"
    /\ cache' = [k \in DOMAIN cache \cup {Key(req[c])} |->
                    IF k = Key(req[c]) THEN Entry(c) ELSE cache[k]]
    /\ known' = known \cup Ids(items[c])
    /\ Leave(c)
    /\ UNCHANGED <<tables, workers>>

-----------------------------------------------------------------------------
(* POST /stories/{id}/translate. *)
Ask(c, r) ==
    /\ Asks(c, r) /\ r.kind = "translate"
    /\ req' = [req EXCEPT ![c] = r]
    /\ Goto(c, "lookup")
    /\ UNCHANGED <<tables, cache, known, total, items, upto, workers>>

Stored(c) == translation[<<req[c].id, req[c].lang>>]

Lookup(c) ==
    /\ pc[c] = "lookup"
    /\ IF Stored(c) # None
       THEN Leave(c)
       ELSE Goto(c, "provider") /\ UNCHANGED <<req, total, items, upto>>
    /\ UNCHANGED <<tables, cache, known, workers>>

(* translate_pair: DeepL or Google, or the English text when both fail. *)
Provider(c) ==
    /\ pc[c] = "provider"
    /\ \E text \in {"foreign", "english"} :
         items' = [items EXCEPT ![c] = {[id |-> req[c].id, text |-> text]}]
    /\ Goto(c, "upsert")
    /\ UNCHANGED <<tables, cache, known, req, total, upto, workers>>

(* upsert_translation looks once more, then updates or inserts. *)
Upsert(c) ==
    /\ pc[c] = "upsert"
    /\ Goto(c, IF Stored(c) = None THEN "insert" ELSE "update")
    /\ UNCHANGED <<tables, cache, known, req, total, items, upto, workers>>

(* An insert that meets the row of another request violates uq_article_lang *)
(* and the request ends with an error.                                      *)
Write(c) ==
    /\ pc[c] \in {"insert", "update"}
    /\ translation' =
         IF pc[c] = "insert" /\ Stored(c) # None THEN translation
         ELSE [translation EXCEPT ![<<req[c].id, req[c].lang>>] =
                  CHOOSE t \in {i.text : i \in items[c]} : TRUE]
    /\ Leave(c)
    /\ UNCHANGED <<published, retired, cache, known, workers>>

(* The client goes away, or a store or the provider raises. *)
Fail(c) ==
    /\ pc[c] # "idle"
    /\ Leave(c)
    /\ UNCHANGED <<tables, cache, known, workers>>

-----------------------------------------------------------------------------
(* The end of _summarize_pending, and what else changes the two stores. *)
StartRun(w) ==
    /\ run[w] = "idle"
    /\ run' = [run EXCEPT ![w] = "publishing"]
    /\ UNCHANGED <<tables, cache, known, clients, found, upon, listed, swept>>

Publish(w, s) ==
    /\ run[w] = "publishing" /\ s \notin published
    /\ published' = published \cup {s}
    /\ UNCHANGED <<retired, translation, cache, known, clients, workers>>

AskKeys(w) ==
    /\ run[w] = "publishing"
    /\ found' = [found EXCEPT ![w] = Swept(DOMAIN cache)]
    /\ upon' = [upon EXCEPT ![w] = published]
    /\ listed' = listed \cup published
    /\ run' = [run EXCEPT ![w] = "delete"]
    /\ UNCHANGED <<tables, cache, known, clients, swept>>

EndRun(w) ==
    /\ run' = [run EXCEPT ![w] = "idle"]
    /\ found' = [found EXCEPT ![w] = {}]
    /\ upon' = [upon EXCEPT ![w] = {}]

Delete(w) ==
    /\ run[w] = "delete"
    /\ cache' = [k \in DOMAIN cache \ found[w] |-> cache[k]]
    /\ swept' = swept \cup upon[w]
    /\ EndRun(w)
    /\ UNCHANGED <<tables, known, clients, listed>>

(* The run returns early, raises or is killed, or Redis refuses. *)
CutOff(w) ==
    /\ run[w] # "idle"
    /\ EndRun(w)
    /\ UNCHANGED <<tables, cache, known, clients, listed, swept>>

(* _cleanup: the cutoff has moved on to s. *)
Retire(s) ==
    /\ s \notin retired
    /\ retired' = retired \cup {t \in Stories : t <= s}
    /\ UNCHANGED <<published, translation, cache, known, clients, workers>>

Expire(k) ==
    /\ k \in DOMAIN cache /\ cache[k].expires
    /\ cache' = [j \in DOMAIN cache \ {k} |-> cache[j]]
    /\ UNCHANGED <<tables, known, clients, workers>>

-----------------------------------------------------------------------------
Keys == {Key(r) : r \in Requests}

Handle(c) == Count(c) \/ Read(c) \/ Store(c) \/ Lookup(c) \/ Provider(c) \/ Upsert(c)
             \/ Write(c)

Next ==
    \/ \E c \in Clients : \/ \E r \in Requests : Hit(c, r) \/ Miss(c, r) \/ Ask(c, r)
                          \/ Handle(c) \/ Fail(c)
    \/ \E w \in Workers : \/ StartRun(w) \/ AskKeys(w) \/ Delete(w) \/ CutOff(w)
                          \/ \E s \in Stories : Publish(w, s)
    \/ \E s \in Stories : Retire(s)
    \/ \E k \in Keys : Expire(k)

Spec == Init /\ [][Next]_vars

(* Handlers run to their end, and Redis removes a key when its time is up. *)
FairSpec == Spec /\ (\A c \in Clients : WF_vars(Handle(c)))
                 /\ (\A k \in Keys : WF_vars(Expire(k)))
-----------------------------------------------------------------------------
Items == [id : Stories, text : {"raw", "summary", "english", "foreign"}]
Pages == [req : Requests, items : SUBSET Items, more : BOOLEAN, late : BOOLEAN,
          expires : BOOLEAN]

TypeOK ==
    /\ published \subseteq Stories /\ retired \subseteq Stories /\ known \subseteq Stories
    /\ translation \in [Stories \X Langs -> {None, "english", "foreign"}]
    /\ DOMAIN cache \subseteq Keys /\ \A k \in DOMAIN cache : cache[k] \in Pages
    /\ pc \in [Clients -> {"idle", "count", "read", "store", "lookup", "provider", "upsert",
                           "insert", "update"}]
    /\ req \in [Clients -> Requests \cup {Absent}]
    /\ total \in [Clients -> Nat]
    /\ items \in [Clients -> SUBSET Items]
    /\ upto \in [Clients -> SUBSET Stories]
    /\ run \in [Workers -> {"idle", "publishing", "delete"}]
    /\ found \in [Workers -> SUBSET Keys]
    /\ upon \in [Workers -> SUBSET Stories]
    /\ listed \subseteq Stories /\ swept \subseteq Stories

(* No reader is given, and nothing is cached or translated from, the text  *)
(* of an article that was not summarised: get_by_id looks up any article,  *)
(* but the ids come from lists.                                            *)
SummariesOnly ==
    /\ known \subseteq published
    /\ \A k \in DOMAIN cache : \A i \in cache[k].items : i.text # "raw"
    /\ \A s \in Stories, l \in Langs : translation[<<s, l>>] # None => s \in published

(* The pages 1 to r.page a reader walks through with one limit, when all   *)
(* are cached and none was filled late, by a handler that began to read    *)
(* before a publication and stored after a sweep had asked for its keys.   *)
PageKey(r, i) == [kind |-> "stories", lang |-> r.lang, of |-> <<i>>]
Walked(r) ==
    /\ r.kind = "stories"
    /\ \A i \in 1..r.page : LET k == PageKey(r, i)
                           IN  k \in DOMAIN cache /\ ~cache[k].late /\ cache[k].req.limit = r.limit
OnPage(r, i) == Ids(cache[PageKey(r, i)].items)

(* What these pages owe their reader: every visible story that is newer    *)
(* than one on the last of them, or that it has room for; none of them     *)
(* twice; and the news that there is more.                                 *)
Complete(r) ==
    LET last == cache[PageKey(r, r.page)]
    IN  /\ \A s \in Visible : \/ \E i \in 1..r.page : s \in OnPage(r, i)
                              \/ /\ Cardinality(last.items) = r.limit
                                 /\ \A i \in last.items : i.id > s
        /\ \A i, j \in 1..r.page : i # j => OnPage(r, i) \cap OnPage(r, j) \cap Visible = {}
        /\ Cardinality(Visible) > r.page * r.limit => last.more

(* Once every publication is swept, a reader who walks through pages       *)
(* misses stories, or meets one twice, only by a page that was filled late *)
(* or for another limit.                                                   *)
OnlyLateFillsMiss == swept = published => \A r \in Requests : Walked(r) => Complete(r)

(* "Result is persisted in the DB so subsequent calls are instant"         *)
(* (routes.py:254): a translation that was stored is not undone.           *)
TranslationKept ==
    [][\A s \in Stories, l \in Langs :
          translation[<<s, l>>] = "foreign" => translation'[<<s, l>>] = "foreign"]_vars

(* When publishing, translating and retiring have come to their end, every *)
(* answer in the cache comes to be the answer of the tables, whatever late *)
(* fills there were.                                                       *)
CachesSettle ==
    <>[](\A k \in DOMAIN cache : cache[k].items = Answer(cache[k].req))
================================================================================
