------------------------------ MODULE StoriesProofs ------------------------------
(***************************************************************************)
(* Theorems about Stories, for any readers, workers, stories and requests. *)
(***************************************************************************)
EXTENDS Stories, FiniteSetTheorems, TLAPS

Sound(set) == \A i \in set : i.id \in published /\ i.text # "raw"

Domains ==
    /\ DOMAIN pc = Clients /\ DOMAIN req = Clients /\ DOMAIN items = Clients
    /\ DOMAIN translation = Stories \X Langs

Reading    == {"count", "read", "store"}
Drafted    == {"upsert", "insert", "update"}
Addressing == {"lookup", "provider"} \cup Drafted

(* A handler that was given an id got it from a reader who was given it;   *)
(* what it has read or translated is a summary.                            *)
Handler(c) ==
    /\ Sound(items[c])
    /\ pc[c] \in Reading => req[c] \in Requests
    /\ pc[c] \in Reading => req[c].kind \in ListKind \/ req[c].id \in published
    /\ pc[c] \in Addressing => req[c] \in Requests /\ req[c].id \in published
    /\ pc[c] \in Drafted => items[c] # {}
    /\ pc[c] \in Reading \cup Addressing \cup {"idle"}

Translated == \A s \in Stories, l \in Langs :
                  translation[<<s, l>>] # None => s \in published /\ translation[<<s, l>>] # "raw"
CacheSound == \A k \in DOMAIN cache : Sound(cache[k].items)

Inv == /\ Domains
       /\ published \subseteq Stories /\ known \subseteq published
       /\ CacheSound
       /\ Translated
       /\ \A c \in Clients : Handler(c)

-----------------------------------------------------------------------------
LEMMA RequestFields ==
    ASSUME NEW r \in Requests
    PROVE  r.kind \in Kinds /\ r.lang \in Langs /\ r.id \in Stories
BY RequestsAssumption

(* The queries return published stories and their summaries. *)
LEMMA AnswersAreSound ==
    ASSUME Inv, NEW r \in Requests, r.kind \in ListKind \/ r.id \in published
    PROVE  Sound(Answer(r))
<1>1. \A s \in Rows(r) : s \in published
  BY DEF Rows, Slice, Visible, ListKind
<1>2. \A s \in Rows(r) : s \in Stories
  BY <1>1, RequestFields, RequestsAssumption DEF Rows, Slice, Visible, ListKind, Inv
<1>3. ASSUME NEW s \in Rows(r)
      PROVE  Localized(s, r.lang).id = s /\ Localized(s, r.lang).text # "raw"
  <2>1. s \in published /\ s \in Stories /\ r.lang \in Langs
    BY <1>1, <1>2, <1>3, RequestFields
  <2>2. translation[<<s, r.lang>>] # None => translation[<<s, r.lang>>] # "raw"
    BY <2>1 DEF Inv, Translated
  <2> QED
    BY <2>1, <2>2 DEF Localized
<1> QED
  BY <1>1, <1>3 DEF Answer, Sound

(* Published stays published, so what was sound stays sound. *)
LEMMA SoundStays ==
    ASSUME NEW set, published \subseteq published', Sound(set)
    PROVE  Sound(set)'
BY DEF Sound

(* The step of a handler disturbs no other one. *)
LEMMA OtherHandlers ==
    ASSUME Inv, NEW c \in Clients, published' = published,
           \A d \in Clients \ {c} : pc'[d] = pc[d] /\ req'[d] = req[d] /\ items'[d] = items[d],
           Handler(c)'
    PROVE  \A d \in Clients : Handler(d)'
BY DEF Inv, Handler, Sound

LEMMA LeaveKeeps ==
    ASSUME Inv, NEW c \in Clients, Leave(c), published' = published
    PROVE  (\A d \in Clients : Handler(d)') /\ DOMAIN pc' = Clients
           /\ DOMAIN req' = Clients /\ DOMAIN items' = Clients
<1>1. pc'[c] = "idle" /\ items'[c] = {}
  BY DEF Leave, Inv, Domains
<1>2. Handler(c)'
  BY <1>1 DEF Handler, Sound, Reading, Addressing, Drafted
<1> QED
  BY <1>2, OtherHandlers DEF Leave, Inv, Domains

LEMMA InitInv == Init => Inv
BY DEF Init, Inv, Domains, CacheSound, Translated, Handler, Sound, Reading, Addressing, Drafted

LEMMA StepInv == Inv /\ [Next]_vars => Inv'
<1> SUFFICES ASSUME Inv, [Next]_vars PROVE Inv'
  OBVIOUS
<1>1. CASE UNCHANGED <<tables, cache, known, pc, req, items>>
  BY <1>1 DEF tables, Inv, Domains, CacheSound, Translated, Handler, Sound
<1>2. ASSUME NEW c \in Clients, NEW r \in Requests, Hit(c, r)
      PROVE  Inv'
  <2>1. Sound(cache[Key(r)].items)
    BY <1>2 DEF Hit, Cached, Inv, CacheSound
  <2>2. known' \subseteq published
    BY <1>2, <2>1 DEF Hit, Ids, Sound, Inv
  <2> QED
    BY <1>2, <2>2 DEF Hit, tables, clients, Inv, Domains, CacheSound, Translated, Handler, Sound
<1>3. ASSUME NEW c \in Clients, NEW r \in Requests, Miss(c, r) \/ Ask(c, r)
      PROVE  Inv'
  <2>1. /\ req' = [req EXCEPT ![c] = r] /\ UNCHANGED <<tables, cache, known, items>>
        /\ \/ pc' = [pc EXCEPT ![c] = "count"] /\ r.kind \in ListKind
           \/ pc' = [pc EXCEPT ![c] = "read"]
           \/ pc' = [pc EXCEPT ![c] = "lookup"] /\ r.kind = "translate"
        /\ r.kind \in ListKind \/ r.id \in published
    BY <1>3 DEF Miss, Ask, Asks, Goto, Inv, ListKind
  <2>2. Handler(c)'
    BY <2>1 DEF Handler, Inv, Domains, Sound, Reading, Addressing, Drafted, tables, ListKind
  <2>3. \A d \in Clients : Handler(d)'
    BY <2>1, <2>2, OtherHandlers DEF tables, Inv, Domains
  <2> QED
    BY <2>1, <2>3 DEF tables, Inv, Domains, CacheSound, Translated, Sound
<1>4. ASSUME NEW c \in Clients, Count(c)
      PROVE  Inv'
  <2>1. Handler(c)'
    BY <1>4 DEF Count, Goto, Handler, Inv, Domains, Sound, Reading, Addressing, Drafted, tables
  <2>2. \A d \in Clients : Handler(d)'
    BY <1>4, <2>1, OtherHandlers DEF Count, Goto, tables, Inv, Domains
  <2> QED
    BY <1>4, <2>2 DEF Count, Goto, tables, Inv, Domains, CacheSound, Translated, Sound
<1>5. ASSUME NEW c \in Clients, Read(c)
      PROVE  Inv'
  <2>1. Sound(Answer(req[c])) /\ items'[c] = Answer(req[c]) /\ pc'[c] = "store"
    BY <1>5, AnswersAreSound DEF Read, Goto, Inv, Domains, Handler, Reading
  <2>2. Sound(items'[c]) /\ UNCHANGED <<tables, cache, known, req>>
    BY <1>5, <2>1 DEF Read
  <2>3. Handler(c)'
    BY <1>5, <2>1, <2>2 DEF Read, Handler, Inv, Sound, Reading, Addressing, Drafted, tables
  <2>4. \A d \in Clients : Handler(d)'
    BY <1>5, <2>3, OtherHandlers DEF Read, Goto, tables, Inv, Domains
  <2> QED
    BY <1>5, <2>4 DEF Read, Goto, tables, Inv, Domains, CacheSound, Translated, Sound
<1>6. ASSUME NEW c \in Clients, Store(c)
      PROVE  Inv'
  <2>1. Sound(items[c]) /\ known' = known \cup Ids(items[c]) /\ UNCHANGED tables
    BY <1>6 DEF Store, Inv, Handler
  <2>2. \A k \in DOMAIN cache' : \/ cache'[k].items = items[c]
                                 \/ k \in DOMAIN cache /\ cache'[k] = cache[k]
    <3>1. Entry(c).items = items[c]
      BY DEF Entry
    <3>2. cache' = [k \in DOMAIN cache \cup {Key(req[c])} |->
                       IF k = Key(req[c]) THEN Entry(c) ELSE cache[k]]
      BY <1>6 DEF Store
    <3> QED
      BY <3>1, <3>2
  <2>3. CacheSound'
    BY <2>1, <2>2 DEF CacheSound, Inv, Sound, tables
  <2>4. known' \subseteq published
    BY <2>1 DEF Ids, Sound, Inv
  <2>5. (\A d \in Clients : Handler(d)') /\ Domains'
    BY <1>6, <2>1, LeaveKeeps DEF Store, tables, Inv, Domains
  <2> QED
    BY <2>1, <2>3, <2>4, <2>5 DEF tables, Inv, Translated
<1>7. ASSUME NEW c \in Clients, Lookup(c), Stored(c) = None
      PROVE  Inv'
  <2>1. pc[c] = "lookup" /\ pc' = [pc EXCEPT ![c] = "provider"]
        /\ UNCHANGED <<tables, cache, known, req, items>>
    BY <1>7 DEF Lookup, Goto
  <2>2. Handler(c)'
    BY <2>1 DEF Handler, Inv, Domains, Sound, Reading, Addressing, Drafted, tables
  <2>3. \A d \in Clients : Handler(d)'
    BY <2>1, <2>2, OtherHandlers DEF tables, Inv, Domains
  <2> QED
    BY <2>1, <2>3 DEF tables, Inv, Domains, CacheSound, Translated, Sound
<1>8. ASSUME NEW c \in Clients, Provider(c)
      PROVE  Inv'
  <2>1. PICK text \in {"foreign", "english"} :
            items' = [items EXCEPT ![c] = {[id |-> req[c].id, text |-> text]}]
    BY <1>8 DEF Provider
  <2>2. pc[c] = "provider" /\ pc'[c] = "upsert" /\ UNCHANGED <<tables, cache, known, req>>
    BY <1>8 DEF Provider, Goto, Inv, Domains
  <2>3. Handler(c)'
    <3>1. items'[c] = {[id |-> req[c].id, text |-> text]} /\ req'[c] = req[c]
          /\ published' = published
      BY <2>1, <2>2 DEF Inv, Domains, tables
    <3>2. req[c] \in Requests /\ req[c].id \in published
      BY <2>2 DEF Inv, Handler, Addressing
    <3>3. items'[c] # {} /\ Sound(items[c])'
      BY <3>1, <3>2 DEF Sound
    <3> QED
      BY <2>2, <3>1, <3>2, <3>3 DEF Handler, Reading, Addressing, Drafted
  <2>4. \A d \in Clients : Handler(d)'
    BY <1>8, <2>1, <2>2, <2>3, OtherHandlers DEF Provider, Goto, tables, Inv, Domains
  <2> QED
    BY <1>8, <2>1, <2>2, <2>4
    DEF Provider, Goto, tables, Inv, Domains, CacheSound, Translated, Sound
<1>9. ASSUME NEW c \in Clients, Upsert(c)
      PROVE  Inv'
  <2>1. /\ pc[c] = "upsert" /\ UNCHANGED <<tables, cache, known, req, items>>
        /\ pc' = [pc EXCEPT ![c] = "insert"] \/ pc' = [pc EXCEPT ![c] = "update"]
    BY <1>9 DEF Upsert, Goto
  <2>2. Handler(c)'
    BY <2>1 DEF Handler, Inv, Domains, Sound, Reading, Addressing, Drafted, tables
  <2>3. \A d \in Clients : Handler(d)'
    BY <2>1, <2>2, OtherHandlers DEF tables, Inv, Domains
  <2> QED
    BY <2>1, <2>3 DEF tables, Inv, Domains, CacheSound, Translated, Sound
<1>10. ASSUME NEW c \in Clients, Write(c)
       PROVE  Inv'
  <2>1. /\ req[c].id \in published /\ req[c].id \in Stories /\ req[c].lang \in Langs
        /\ items[c] # {} /\ Sound(items[c])
    BY <1>10, RequestFields DEF Write, Inv, Handler, Addressing, Drafted
  <2> DEFINE text == CHOOSE t \in {i.text : i \in items[c]} : TRUE
  <2>2. text # "raw"
    <3>1. text \in {i.text : i \in items[c]}
      BY <2>1
    <3> QED
      BY <2>1, <3>1 DEF Sound
  <2>3. \/ translation' = translation
        \/ translation' = [translation EXCEPT ![<<req[c].id, req[c].lang>>] = text]
    BY <1>10 DEF Write
  <2> HIDE DEF text
  <2>4. DOMAIN translation' = Stories \X Langs /\ Translated'
    <3>1. UNCHANGED published
      BY <1>10 DEF Write
    <3> QED
      BY <2>1, <2>2, <2>3, <3>1 DEF Inv, Domains, Translated
  <2>5. (\A d \in Clients : Handler(d)') /\ UNCHANGED <<published, cache, known>>
    BY <1>10, LeaveKeeps DEF Write
  <2>6. DOMAIN pc' = Clients /\ DOMAIN req' = Clients /\ DOMAIN items' = Clients
    BY <1>10, LeaveKeeps DEF Write
  <2> QED
    BY <2>4, <2>5, <2>6 DEF Inv, Domains, CacheSound, Sound
<1>11. ASSUME NEW c \in Clients, Leave(c), UNCHANGED <<tables, cache, known>>
       PROVE  Inv'
  <2>1. (\A d \in Clients : Handler(d)') /\ Domains'
    BY <1>11, LeaveKeeps DEF tables, Inv, Domains
  <2> QED
    BY <1>11, <2>1 DEF tables, Inv, CacheSound, Translated, Sound
<1>12. ASSUME NEW w \in Workers, NEW s \in Stories, Publish(w, s)
       PROVE  Inv'
  <2>1. published' = published \cup {s} /\ UNCHANGED <<translation, cache, known, pc, req, items>>
    BY <1>12 DEF Publish, clients
  <2>2. \A d \in Clients : Handler(d)'
    BY <2>1 DEF Inv, Handler, Sound
  <2> QED
    BY <2>1, <2>2 DEF Inv, Domains, CacheSound, Translated, Sound
<1>13. ASSUME UNCHANGED <<published, translation, known, pc, req, items>>,
              DOMAIN cache' \subseteq DOMAIN cache,
              \A k \in DOMAIN cache' : cache'[k] = cache[k]
       PROVE  Inv'
  BY <1>13 DEF Inv, Domains, CacheSound, Translated, Handler, Sound
<1>14. ASSUME NEW w \in Workers, Delete(w)
       PROVE  Inv'
  BY <1>13, <1>14 DEF Delete, tables, clients
<1>15. ASSUME NEW s \in Stories, Retire(s)
       PROVE  Inv'
  BY <1>13, <1>15 DEF Retire, clients
<1>16. ASSUME NEW k \in Keys, Expire(k)
       PROVE  Inv'
  BY <1>13, <1>16 DEF Expire, tables, clients
<1>17. ASSUME NEW w \in Workers, StartRun(w) \/ AskKeys(w) \/ CutOff(w)
       PROVE  Inv'
  BY <1>1, <1>17 DEF StartRun, AskKeys, CutOff, clients
<1>18. ASSUME NEW c \in Clients, Handle(c)
       PROVE  Inv'
  BY <1>4, <1>5, <1>6, <1>7, <1>8, <1>9, <1>10, <1>11, <1>18 DEF Handle, Lookup
<1>19. ASSUME NEW c \in Clients, Fail(c)
       PROVE  Inv'
  BY <1>11, <1>19 DEF Fail
<1>20. CASE UNCHANGED vars
  BY <1>1, <1>20 DEF vars, tables
<1> QED
  BY <1>2, <1>3, <1>12, <1>14, <1>15, <1>16, <1>17, <1>18, <1>19, <1>20 DEF Next

(* No reader is ever given, has cached or has translated the text of an    *)
(* article that was not summarised, although neither get_by_id nor the     *)
(* translation endpoint looks at is_summarized: ids come from lists only.  *)
THEOREM OnlySummariesLeave == Spec => []SummariesOnly
<1>1. Inv => SummariesOnly
  BY DEF Inv, SummariesOnly, CacheSound, Translated, Sound
<1> QED
  BY <1>1, InitInv, StepInv, PTL DEF Spec

-----------------------------------------------------------------------------
(***************************************************************************)
(* Types.  A translation under way is not the text of the feed.            *)
(***************************************************************************)
Texts == {"english", "foreign"}
TypeInv ==
    /\ TypeOK
    /\ \A c \in Clients : pc[c] \in Drafted => \A i \in items[c] : i.text \in Texts

LEMMA AnswerType ==
    ASSUME TypeOK, NEW r \in Requests
    PROVE  Answer(r) \in SUBSET Items
<1>1. Rows(r) \subseteq Stories
  BY RequestFields DEF Rows, Slice, Visible, TypeOK, ListKind
<1>2. ASSUME NEW s \in Stories
      PROVE  Localized(s, r.lang) \in Items
  <2>1. <<s, r.lang>> \in Stories \X Langs
    BY <1>2, RequestFields
  <2>2. translation[<<s, r.lang>>] \in {None} \cup Texts
    BY <2>1 DEF TypeOK, Texts
  <2> QED
    BY <1>2, <2>2 DEF Localized, Items, Texts
<1> QED
  BY <1>1, <1>2 DEF Answer

LEMMA EntryType ==
    ASSUME TypeOK, NEW c \in Clients, req[c] \in Requests
    PROVE  Entry(c) \in Pages
<1>1. items[c] \in SUBSET Items
  BY DEF TypeOK
<1>2. /\ (req[c].page * req[c].limit < total[c]) \in BOOLEAN
      /\ (req[c].kind = "stories" /\ ~(listed \subseteq upto[c])) \in BOOLEAN
      /\ HasTtl \in BOOLEAN
  BY DEF HasTtl
<1> QED
  BY <1>1, <1>2 DEF Entry, Pages

LEMMA InitType == Init => TypeInv
BY DEF Init, TypeInv, TypeOK, Drafted

(* What the workers and the clock change.                                  *)
LEMMA WorkerType ==
    ASSUME TypeInv, UNCHANGED <<translation, known, clients>>,
           published' \subseteq Stories, retired' \subseteq Stories,
           DOMAIN cache' \subseteq DOMAIN cache, \A k \in DOMAIN cache' : cache'[k] = cache[k],
           run' \in [Workers -> {"idle", "publishing", "delete"}],
           found' \in [Workers -> SUBSET Keys], upon' \in [Workers -> SUBSET Stories],
           listed' \subseteq Stories, swept' \subseteq Stories
    PROVE  TypeInv'
BY DEF TypeInv, TypeOK, clients

(* What a handler changes.                                                 *)
LEMMA ClientType ==
    ASSUME TypeInv, NEW c \in Clients, UNCHANGED <<published, retired, workers>>,
           translation' \in [Stories \X Langs -> {None} \cup Texts],
           known' \subseteq Stories,
           DOMAIN cache' \subseteq Keys, \A k \in DOMAIN cache' : cache'[k] \in Pages,
           NEW p \in {"idle", "count", "read", "store", "lookup", "provider", "upsert",
                      "insert", "update"},
           NEW r \in Requests \cup {Absent}, NEW n \in Nat, NEW e \in SUBSET Items,
           NEW u \in SUBSET Stories,
           pc' = [pc EXCEPT ![c] = p], req' = [req EXCEPT ![c] = r],
           total' = [total EXCEPT ![c] = n], items' = [items EXCEPT ![c] = e],
           upto' = [upto EXCEPT ![c] = u],
           p \in Drafted => \A i \in e : i.text \in Texts
    PROVE  TypeInv'
<1>1. TypeOK'
  BY DEF TypeInv, TypeOK, workers, Texts
<1>2. ASSUME NEW d \in Clients, pc'[d] \in Drafted
      PROVE  \A i \in items'[d] : i.text \in Texts
  BY <1>2 DEF TypeInv, TypeOK
<1> QED
  BY <1>1, <1>2 DEF TypeInv

LEMMA Own ==
    ASSUME TypeInv, NEW c \in Clients
    PROVE  /\ req[c] \in Requests \cup {Absent} /\ total[c] \in Nat
           /\ items[c] \in SUBSET Items /\ upto[c] \in SUBSET Stories
           /\ pc = [pc EXCEPT ![c] = pc[c]] /\ req = [req EXCEPT ![c] = req[c]]
           /\ total = [total EXCEPT ![c] = total[c]] /\ items = [items EXCEPT ![c] = items[c]]
           /\ upto = [upto EXCEPT ![c] = upto[c]]
BY DEF TypeInv, TypeOK

(* A handler goes on without touching the stores.                          *)
LEMMA GoesOnType ==
    ASSUME TypeInv, NEW c \in Clients, UNCHANGED <<tables, cache, known, workers>>,
           NEW p \in {"idle", "count", "read", "store", "lookup", "provider", "upsert",
                      "insert", "update"},
           NEW r \in Requests \cup {Absent}, NEW n \in Nat, NEW e \in SUBSET Items,
           NEW u \in SUBSET Stories,
           pc' = [pc EXCEPT ![c] = p], req' = [req EXCEPT ![c] = r],
           total' = [total EXCEPT ![c] = n], items' = [items EXCEPT ![c] = e],
           upto' = [upto EXCEPT ![c] = u],
           p \in Drafted => \A i \in e : i.text \in Texts
    PROVE  TypeInv'
<1>1. /\ UNCHANGED <<published, retired, workers>> /\ known' \subseteq Stories
      /\ translation' \in [Stories \X Langs -> {None} \cup Texts]
      /\ DOMAIN cache' \subseteq Keys /\ \A k \in DOMAIN cache' : cache'[k] \in Pages
  BY DEF TypeInv, TypeOK, tables, Texts
<1> QED
  BY <1>1, ClientType

LEMMA MovesType ==
    ASSUME TypeInv, NEW c \in Clients,
           UNCHANGED <<tables, cache, known, workers, total, items, upto>>,
           NEW p \in {"count", "read", "lookup", "provider", "insert", "update"},
           NEW r \in Requests \cup {Absent},
           pc' = [pc EXCEPT ![c] = p], req' = [req EXCEPT ![c] = r],
           p \in Drafted => pc[c] \in Drafted
    PROVE  TypeInv'
<1>1. total[c] \in Nat /\ items[c] \in SUBSET Items /\ upto[c] \in SUBSET Stories
  BY Own
<1>2. PICK n \in Nat, e \in SUBSET Items, u \in SUBSET Stories :
          n = total[c] /\ e = items[c] /\ u = upto[c]
  BY <1>1
<1>3. /\ total' = [total EXCEPT ![c] = n] /\ items' = [items EXCEPT ![c] = e]
      /\ upto' = [upto EXCEPT ![c] = u]
  BY <1>2, Own
<1>4. p \in Drafted => \A i \in e : i.text \in Texts
  BY <1>2 DEF TypeInv
<1>5. UNCHANGED <<tables, cache, known, workers>>
  OBVIOUS
<1>6. p \in {"idle", "count", "read", "store", "lookup", "provider", "upsert", "insert", "update"}
  OBVIOUS
<1>7. pc' = [pc EXCEPT ![c] = p] /\ req' = [req EXCEPT ![c] = r]
  OBVIOUS
<1> QED
  BY ONLY TypeInv, <1>3, <1>4, <1>5, <1>6, <1>7, GoesOnType

LEMMA StepType == Inv /\ TypeInv /\ [Next]_vars => TypeInv'
<1> SUFFICES ASSUME Inv, TypeInv, [Next]_vars PROVE TypeInv'
  OBVIOUS
<1>0. TypeOK
  BY DEF TypeInv
<1>1. CASE UNCHANGED vars
  <2>1. UNCHANGED <<published, retired, translation, known, clients, cache, workers>>
    BY <1>1 DEF vars, clients, workers
  <2> QED
    BY <2>1, <1>0, WorkerType DEF TypeOK, workers
<1>2. ASSUME NEW c \in Clients, NEW r \in Requests, Hit(c, r)
      PROVE  TypeInv'
  <2>1. known' \subseteq Stories
    BY <1>0, <1>2 DEF Hit, Cached, Ids, TypeOK, Pages, Items
  <2> QED
    BY <1>2, <2>1 DEF Hit, tables, clients, workers, TypeInv, TypeOK
<1>3. ASSUME NEW c \in Clients, NEW r \in Requests, Miss(c, r) \/ Ask(c, r)
      PROVE  TypeInv'
  <2>1. PICK p \in {"count", "read", "lookup"} : pc' = [pc EXCEPT ![c] = p]
    BY <1>3 DEF Miss, Ask, Goto
  <2>2. /\ req' = [req EXCEPT ![c] = r]
        /\ UNCHANGED <<tables, cache, known, workers, total, items, upto>>
    BY <1>3 DEF Miss, Ask
  <2>3. p \notin Drafted
    BY DEF Drafted
  <2> QED
    BY <2>1, <2>2, <2>3, MovesType
<1>4. ASSUME NEW c \in Clients, Count(c)
      PROVE  TypeInv'
  <2>1. req[c] \in Requests /\ Counted(req[c]) \in Nat
    <3>1. Visible \subseteq Stories
      BY <1>0 DEF Visible, TypeOK
    <3> QED
      BY <1>0, <1>4, <3>1, RequestsAssumption, FS_Subset, FS_CardinalityType
      DEF Counted, Inv, Handler, Reading, Count
  <2>2. /\ pc' = [pc EXCEPT ![c] = "read"] /\ total' = [total EXCEPT ![c] = Counted(req[c])]
        /\ req' = [req EXCEPT ![c] = req[c]]
        /\ items' = [items EXCEPT ![c] = items[c]] /\ upto' = [upto EXCEPT ![c] = published]
        /\ UNCHANGED <<tables, cache, known, workers>>
    BY <1>0, <1>4 DEF Count, Goto, TypeOK
  <2>3. "read" \notin Drafted /\ published \in SUBSET Stories
    BY <1>0 DEF Drafted, TypeOK
  <2>4. PICK n \in Nat, u \in SUBSET Stories : n = Counted(req[c]) /\ u = published
    BY <2>1, <2>3
  <2>5. total' = [total EXCEPT ![c] = n] /\ upto' = [upto EXCEPT ![c] = u]
    BY <2>2, <2>4
  <2>6. items[c] \in SUBSET Items
    BY Own
  <2> QED
    BY <2>1, <2>2, <2>3, <2>5, <2>6, GoesOnType
<1>5. ASSUME NEW c \in Clients, Read(c)
      PROVE  TypeInv'
  <2>1. req[c] \in Requests /\ Answer(req[c]) \in SUBSET Items
    BY <1>0, <1>5, AnswerType DEF Inv, Handler, Reading, Read
  <2>2. /\ pc' = [pc EXCEPT ![c] = "store"] /\ total' = [total EXCEPT ![c] = total[c]]
        /\ req' = [req EXCEPT ![c] = req[c]]
        /\ items' = [items EXCEPT ![c] = Answer(req[c])]
        /\ upto' = [upto EXCEPT ![c] = upto[c]]
        /\ UNCHANGED <<tables, cache, known, workers>>
    BY <1>0, <1>5 DEF Read, Goto, TypeOK
  <2>3. "store" \notin Drafted
    BY DEF Drafted
  <2>4. PICK e \in SUBSET Items : e = Answer(req[c])
    BY <2>1
  <2>5. items' = [items EXCEPT ![c] = e]
    BY <2>2, <2>4
  <2>6. total[c] \in Nat /\ upto[c] \in SUBSET Stories
    BY Own
  <2> QED
    BY <2>1, <2>2, <2>3, <2>5, <2>6, GoesOnType
<1>6. ASSUME NEW c \in Clients, Leave(c), UNCHANGED <<published, retired, workers>>,
             translation' \in [Stories \X Langs -> {None} \cup Texts],
             known' \subseteq Stories,
             DOMAIN cache' \subseteq Keys, \A k \in DOMAIN cache' : cache'[k] \in Pages
      PROVE  TypeInv'
  <2>1. "idle" \notin Drafted
    BY DEF Drafted
  <2> QED
    BY <1>6, <2>1, ClientType DEF Leave
<1>7. ASSUME NEW c \in Clients, Store(c)
      PROVE  TypeInv'
  <2>1. req[c] \in Requests
    BY <1>7 DEF Inv, Handler, Reading, Store
  <2>2. Entry(c) \in Pages /\ Key(req[c]) \in Keys
    BY <1>0, <2>1, EntryType DEF Keys
  <2>3. cache' = [k \in DOMAIN cache \cup {Key(req[c])} |->
                    IF k = Key(req[c]) THEN Entry(c) ELSE cache[k]]
    BY <1>7 DEF Store
  <2>4. DOMAIN cache' \subseteq Keys /\ \A k \in DOMAIN cache' : cache'[k] \in Pages
    BY <1>0, <2>2, <2>3 DEF TypeOK
  <2>5. known' \subseteq Stories
    BY <1>0, <1>7 DEF Store, Ids, TypeOK, Items
  <2> QED
    BY <1>0, <1>6, <1>7, <2>4, <2>5 DEF Store, tables, TypeOK, Texts
<1>8. ASSUME NEW c \in Clients, Leave(c), UNCHANGED <<tables, cache, known, workers>>
      PROVE  TypeInv'
  BY <1>0, <1>6, <1>8 DEF tables, TypeOK, Texts
<1>9. ASSUME NEW c \in Clients, (Lookup(c) /\ Stored(c) = None) \/ Upsert(c)
      PROVE  TypeInv'
  <2>1. PICK p \in {"provider", "insert", "update"} :
            pc' = [pc EXCEPT ![c] = p] /\ (p \in Drafted => pc[c] \in Drafted)
    BY <1>9 DEF Lookup, Upsert, Goto, Drafted
  <2>2. /\ req' = req /\ UNCHANGED <<tables, cache, known, workers, total, items, upto>>
    BY <1>9 DEF Lookup, Upsert
  <2>3. PICK r \in Requests \cup {Absent} : r = req[c]
    BY Own
  <2>4. req' = [req EXCEPT ![c] = r]
    BY <2>2, <2>3, Own
  <2> QED
    BY <2>1, <2>2, <2>4, MovesType
<1>10. ASSUME NEW c \in Clients, Provider(c)
       PROVE  TypeInv'
  <2>1. req[c] \in Requests /\ req[c].id \in Stories
    BY <1>10, RequestFields DEF Inv, Handler, Addressing, Provider
  <2>2. PICK text \in Texts :
            items' = [items EXCEPT ![c] = {[id |-> req[c].id, text |-> text]}]
    BY <1>10 DEF Provider, Texts
  <2>3. /\ pc' = [pc EXCEPT ![c] = "upsert"] /\ total' = [total EXCEPT ![c] = total[c]]
        /\ req' = [req EXCEPT ![c] = req[c]] /\ upto' = [upto EXCEPT ![c] = upto[c]]
        /\ UNCHANGED <<tables, cache, known, workers>>
    BY <1>0, <1>10 DEF Provider, Goto, TypeOK
  <2>4. [id |-> req[c].id, text |-> text] \in Items
    BY <2>1 DEF Items, Texts
  <2>5. PICK e \in SUBSET Items : e = {[id |-> req[c].id, text |-> text]}
    BY <2>4
  <2>6. items' = [items EXCEPT ![c] = e] /\ \A i \in e : i.text \in Texts
    BY <2>2, <2>5
  <2>7. total[c] \in Nat /\ upto[c] \in SUBSET Stories
    BY Own
  <2> QED
    BY <2>1, <2>3, <2>6, <2>7, GoesOnType
<1>11. ASSUME NEW c \in Clients, Write(c)
       PROVE  TypeInv'
  <2> DEFINE text == CHOOSE t \in {i.text : i \in items[c]} : TRUE
  <2>1. text \in Texts
    <3>1. items[c] # {} /\ \A i \in items[c] : i.text \in Texts
      BY <1>11 DEF Write, Inv, Handler, Drafted, TypeInv
    <3>2. text \in {i.text : i \in items[c]}
      BY <3>1
    <3> QED
      BY <3>1, <3>2
  <2>2. \/ translation' = translation
        \/ translation' = [translation EXCEPT ![<<req[c].id, req[c].lang>>] = text]
    BY <1>11 DEF Write
  <2> HIDE DEF text
  <2>3. translation' \in [Stories \X Langs -> {None} \cup Texts]
    BY <1>0, <2>1, <2>2 DEF TypeOK, Texts
  <2> QED
    BY <1>0, <1>6, <1>11, <2>3 DEF Write, TypeOK
<1>12. ASSUME NEW w \in Workers, NEW s \in Stories, Publish(w, s)
       PROVE  TypeInv'
  BY <1>0, <1>12, WorkerType DEF Publish, TypeOK, workers
<1>13. ASSUME NEW s \in Stories, Retire(s)
       PROVE  TypeInv'
  BY <1>0, <1>13, WorkerType DEF Retire, TypeOK, workers
<1>14. ASSUME NEW k \in Keys, Expire(k)
       PROVE  TypeInv'
  <2>1. DOMAIN cache' \subseteq DOMAIN cache /\ \A j \in DOMAIN cache' : cache'[j] = cache[j]
    BY <1>14 DEF Expire
  <2> QED
    BY <1>0, <1>14, <2>1, WorkerType DEF Expire, TypeOK, workers, tables
<1>15. ASSUME NEW w \in Workers, StartRun(w) \/ CutOff(w)
       PROVE  TypeInv'
  BY <1>0, <1>15, WorkerType DEF StartRun, CutOff, EndRun, TypeOK, tables
<1>16. ASSUME NEW w \in Workers, AskKeys(w)
       PROVE  TypeInv'
  <2>1. Swept(DOMAIN cache) \in SUBSET Keys
    BY <1>0 DEF Swept, TypeOK
  <2> QED
    BY <1>0, <1>16, <2>1, WorkerType DEF AskKeys, TypeOK, tables
<1>17. ASSUME NEW w \in Workers, Delete(w)
       PROVE  TypeInv'
  <2>1. DOMAIN cache' \subseteq DOMAIN cache /\ \A j \in DOMAIN cache' : cache'[j] = cache[j]
    BY <1>17 DEF Delete
  <2>2. swept' \subseteq Stories
    BY <1>0, <1>17 DEF Delete, TypeOK
  <2> QED
    BY <1>0, <1>17, <2>1, <2>2, WorkerType DEF Delete, EndRun, TypeOK, tables
<1>18. ASSUME NEW c \in Clients, Handle(c)
       PROVE  TypeInv'
  BY <1>4, <1>5, <1>7, <1>8, <1>9, <1>10, <1>11, <1>18 DEF Handle, Lookup
<1>19. ASSUME NEW c \in Clients, Fail(c)
       PROVE  TypeInv'
  BY <1>8, <1>19 DEF Fail
<1> QED
  BY <1>1, <1>2, <1>3, <1>12, <1>13, <1>14, <1>15, <1>16, <1>17, <1>18, <1>19 DEF Next

LEMMA Typed == Spec => [](Inv /\ TypeInv)
<1>1. Inv /\ TypeInv /\ [Next]_vars => (Inv /\ TypeInv)'
  BY StepInv, StepType
<1>2. Init => Inv /\ TypeInv
  BY InitInv, InitType
<1> QED
  BY <1>1, <1>2, PTL DEF Spec

(* Every variable keeps to its type: what is cached are pages under their  *)
(* keys, what is translated is English or foreign, never the feed's text.  *)
THEOREM StoriesTyping == Spec => []TypeOK
<1>1. TypeInv => TypeOK
  BY DEF TypeInv
<1> QED
  BY <1>1, Typed, PTL

-----------------------------------------------------------------------------
(***************************************************************************)
(* Ranks.  The newest n of a set are n, unless it has fewer.               *)
(***************************************************************************)
UpTo(s, set) == {t \in set : t >= s}

LEMMA RankType ==
    ASSUME NEW set \in SUBSET Nat, IsFiniteSet(set), NEW s \in set
    PROVE  /\ Rank(s, set) \in 1..Cardinality(set)
           /\ IsFiniteSet(UpTo(s, set)) /\ Rank(s, set) = Cardinality(UpTo(s, set))
<1>1. UpTo(s, set) \in SUBSET set /\ s \in UpTo(s, set)
  BY DEF UpTo
<1>2. IsFiniteSet(UpTo(s, set)) /\ Cardinality(UpTo(s, set)) <= Cardinality(set)
  BY <1>1, FS_Subset
<1>3. /\ Cardinality(set) \in Nat /\ Cardinality(UpTo(s, set)) \in Nat
      /\ Cardinality(UpTo(s, set)) # 0
  BY <1>1, <1>2, FS_CardinalityType, FS_EmptySet
<1> QED
  BY <1>2, <1>3 DEF Rank, UpTo

LEMMA RankFalls ==
    ASSUME NEW set \in SUBSET Nat, IsFiniteSet(set), NEW s \in set, NEW t \in set, s < t
    PROVE  Rank(t, set) < Rank(s, set)
<1>1. UpTo(t, set) \in SUBSET UpTo(s, set) /\ s \in UpTo(s, set) /\ s \notin UpTo(t, set)
  <2>1. \A u \in set : u \in Nat
    OBVIOUS
  <2>2. s >= s /\ ~(s >= t) /\ \A u \in set : u >= t => u >= s
    BY <2>1
  <2> QED
    BY <2>2 DEF UpTo
<1>2. /\ Cardinality(UpTo(t, set)) <= Cardinality(UpTo(s, set))
      /\ Cardinality(UpTo(t, set)) # Cardinality(UpTo(s, set))
  BY <1>1, RankType, FS_Subset
<1> QED
  BY <1>2, RankType

LEMMA PageIsFull ==
    ASSUME NEW set \in SUBSET Nat, IsFiniteSet(set), NEW m \in Nat \ {0}, NEW n \in Nat,
           m <= n, NEW s \in set, Rank(s, set) > n
    PROVE  /\ IsFiniteSet(Slice(set, m, n)) /\ Cardinality(Slice(set, m, n)) = n - m + 1
           /\ \A t \in Slice(set, m, n) : t > s
<1> DEFINE f == [t \in set |-> Rank(t, set)]
           top == Slice(set, m, n)
           g == [t \in top |-> Rank(t, set)]
<1>1. /\ Cardinality(set) \in Nat
      /\ \A t \in set : Rank(t, set) \in 1..Cardinality(set)
  BY RankType, FS_CardinalityType
<1>2. \A t, u \in set : Rank(t, set) = Rank(u, set) => t = u
  <2> SUFFICES ASSUME NEW t \in set, NEW u \in set, t # u PROVE Rank(t, set) # Rank(u, set)
    OBVIOUS
  <2>1. t < u \/ u < t
    OBVIOUS
  <2> QED
    BY <2>1, <1>1, RankFalls
<1>3. n < Cardinality(set)
  BY <1>1
<1>4. f \in Injection(set, 1..Cardinality(set))
  BY <1>1, <1>2 DEF Injection, IsInjective
<1>5. Cardinality(1..Cardinality(set)) = Cardinality(set) /\ IsFiniteSet(1..Cardinality(set))
  BY <1>1, FS_Interval
<1>6. f \in Surjection(set, 1..Cardinality(set))
  BY <1>4, <1>5, FS_Injection
<1>7. \A i \in 1..Cardinality(set) : \E t \in set : Rank(t, set) = i
  BY <1>6 DEF Surjection
<1>8. g \in Bijection(top, m..n)
  <2>1. top \subseteq set /\ \A t \in top : Rank(t, set) \in m..n
    BY DEF Slice
  <2>2. g \in Injection(top, m..n)
    BY <2>1, <1>2 DEF Injection, IsInjective
  <2>3. ASSUME NEW i \in m..n
        PROVE  \E t \in top : g[t] = i
    <3>1. PICK t \in set : Rank(t, set) = i
      BY <1>1, <1>3, <1>7
    <3> QED
      BY <3>1 DEF Slice
  <2> QED
    BY <2>2, <2>3 DEF Bijection, Surjection, Injection
<1>9. IsFiniteSet(top) /\ top \subseteq set
  BY FS_Subset DEF Slice
<1>10. Cardinality(m..n) = n - m + 1
  BY FS_Interval
<1>11. Cardinality(top) = n - m + 1
  BY <1>8, <1>9, <1>10, FS_Bijection DEF ExistsBijection
<1>12. ASSUME NEW t \in top
       PROVE  t > s
  <2>1. t \in set /\ Rank(t, set) <= n /\ Rank(t, set) < Rank(s, set)
    BY <1>1 DEF Slice
  <2>2. ~(t < s) /\ t # s
    BY <2>1, <1>1, RankFalls
  <2> QED
    BY <2>1, <2>2
<1> QED
  BY <1>9, <1>11, <1>12

-----------------------------------------------------------------------------
(***************************************************************************)
(* OnlyLateFillsMiss.  A page that was not filled late goes back to two    *)
(* sets of publications: those that were counted, and those the rows were  *)
(* read from.  Both have all that a sweep which spares the page is for, so *)
(* when all are swept, both are all there is, for every page alike.        *)
(*                                                                         *)
(* The cleanup retires the oldest stories, so those that are left keep     *)
(* their ranks, and a page its place among the others.                     *)
(***************************************************************************)
First(r) == (r.page - 1) * r.limit + 1
Last(r)  == r.page * r.limit

(* page is what r would be given of set. *)
Fits(page, r, set) ==
    \A s \in set :
        /\ Rank(s, set) < First(r) => s \notin Ids(page)
        /\ Rank(s, set) \in First(r)..Last(r) => s \in Ids(page)
        /\ Rank(s, set) > Last(r) => Cardinality(page) = r.limit /\ \A i \in page : i.id > s

Lists == {k \in DOMAIN cache : k.kind = "stories"}
Whole(k) ==
    /\ Key(cache[k].req) = k
    /\ \/ cache[k].late
       \/ \E seen, from \in SUBSET published :
             /\ swept \subseteq seen /\ seen \subseteq from
             /\ \A w \in Workers :
                    run[w] = "delete" /\ k \notin found[w] => upon[w] \subseteq seen
             /\ Fits(cache[k].items, cache[k].req, from \ retired)
             /\ Cardinality(seen \ retired) > Last(cache[k].req) => cache[k].more

Listing(r) == r.kind = "stories"
Filling(c) ==
    /\ pc[c] = "count" => Listing(req[c])
    /\ pc[c] \in {"read", "store"} /\ Listing(req[c]) =>
          upto[c] \subseteq published /\ Cardinality(upto[c] \ retired) <= total[c]
    /\ pc[c] = "store" /\ Listing(req[c]) =>
          \E from \in SUBSET published :
              upto[c] \subseteq from /\ Fits(items[c], req[c], from \ retired)

Sweeps ==
    /\ swept \subseteq listed /\ listed \subseteq published
    /\ \A w \in Workers : run[w] = "delete" => upon[w] \subseteq listed

LateInv == Sweeps /\ (\A c \in Clients : Filling(c)) /\ (\A k \in Lists : Whole(k))

LEMMA FiniteStories ==
    ASSUME NEW set \in SUBSET Stories
    PROVE  IsFiniteSet(set) /\ Cardinality(set) \in Nat /\ set \in SUBSET Nat
BY RequestsAssumption, FS_Subset, FS_CardinalityType

LEMMA Places ==
    ASSUME NEW r \in Requests
    PROVE  /\ First(r) \in Nat \ {0} /\ Last(r) \in Nat /\ r.limit \in Nat \ {0}
           /\ Last(r) = First(r) + r.limit - 1 /\ First(r) <= Last(r)
<1>1. PICK p, n \in Nat \ {0} : p = r.page /\ n = r.limit
  BY RequestsAssumption
<1>2. (p - 1) * n \in Nat /\ p * n \in Nat /\ p * n = (p - 1) * n + n
  BY <1>1
<1> QED
  BY <1>1, <1>2 DEF First, Last

(* What is left when the oldest are taken away. *)
Newest(less, set) == less \subseteq set /\ \A s \in less, t \in set : t >= s => t \in less

LEMMA FitsNewest ==
    ASSUME NEW page, NEW r, NEW set, NEW less, Newest(less, set), Fits(page, r, set)
    PROVE  Fits(page, r, less)
<1>1. ASSUME NEW s \in less
      PROVE  s \in set /\ Rank(s, less) = Rank(s, set)
  <2>1. {t \in less : t >= s} = {t \in set : t >= s}
    BY <1>1 DEF Newest
  <2> QED
    BY <1>1, <2>1 DEF Rank, Newest
<1> QED
  BY <1>1 DEF Fits

RetiresOldest ==
    /\ retired \subseteq retired'
    /\ \A t \in retired' \ retired, u \in Stories : u <= t => u \in retired'

LEMMA NewestLeft ==
    ASSUME TypeOK, RetiresOldest, NEW set \in SUBSET published
    PROVE  Newest(set \ retired', set \ retired)
BY RequestsAssumption DEF RetiresOldest, Newest, TypeOK

LEMMA FewerLeft ==
    ASSUME TypeOK, RetiresOldest, NEW set \in SUBSET Stories
    PROVE  /\ Cardinality(set \ retired') <= Cardinality(set \ retired)
           /\ Cardinality(set \ retired') \in Nat /\ Cardinality(set \ retired) \in Nat
<1>1. set \ retired' \in SUBSET (set \ retired) /\ set \ retired \in SUBSET Stories
      /\ set \ retired' \in SUBSET Stories
  BY DEF RetiresOldest
<1> QED
  BY <1>1, FiniteStories, FS_Subset

(* The query of a list.                                                    *)
LEMMA ListRows ==
    ASSUME TypeOK, NEW r \in Requests, Listing(r)
    PROVE  Fits(Answer(r), r, Visible)
<1> DEFINE rows == Slice(Visible, First(r), Last(r))
           l == r.lang
<1>1. Visible \in SUBSET Stories
  BY DEF Visible, TypeOK
<1>2. Rows(r) = rows
  BY DEF Rows, Listing, First, Last
<1>3. \A s : Localized(s, l).id = s
  BY DEF Localized
<1>4. Ids(Answer(r)) = rows /\ \A i \in Answer(r) : i.id \in rows
  BY <1>2, <1>3 DEF Answer, Ids
<1>5. ASSUME NEW s \in Visible, Rank(s, Visible) > Last(r)
      PROVE  Cardinality(Answer(r)) = r.limit /\ \A i \in Answer(r) : i.id > s
  <2>1. PICK m, n : m = First(r) /\ n = Last(r)
    OBVIOUS
  <2>2. m \in Nat \ {0} /\ n \in Nat /\ m <= n /\ n - m + 1 = r.limit
    BY <2>1, Places
  <2>3. PICK set, u : set = Visible /\ u = s
    OBVIOUS
  <2>4. set \in SUBSET Nat /\ IsFiniteSet(set) /\ u \in set /\ Rank(u, set) > n
    BY <1>1, <1>5, <2>1, <2>3, FiniteStories
  <2>5. /\ IsFiniteSet(Slice(set, m, n)) /\ Cardinality(Slice(set, m, n)) = n - m + 1
        /\ \A t \in Slice(set, m, n) : t > u
    BY ONLY <2>2, <2>4, PageIsFull
  <2>6. IsFiniteSet(rows) /\ Cardinality(rows) = r.limit /\ \A t \in rows : t > s
    BY <2>1, <2>2, <2>3, <2>5
  <2> DEFINE g == [t \in rows |-> Localized(t, l)]
  <2>7. g \in Bijection(rows, Answer(r))
    <3>1. Answer(r) = {Localized(t, l) : t \in rows}
      BY <1>2 DEF Answer
    <3>2. \A t, u1 \in rows : g[t] = g[u1] => t = u1
      BY <1>3
    <3> HIDE DEF rows, l
    <3> QED
      BY <3>1, <3>2 DEF Bijection, Injection, Surjection, IsInjective
  <2>8. Cardinality(Answer(r)) = Cardinality(rows)
    BY <2>6, <2>7, FS_Bijection DEF ExistsBijection
  <2> QED
    BY <1>4, <2>6, <2>8
<1>6. ASSUME NEW s \in Visible
      PROVE  s \in Ids(Answer(r)) <=> Rank(s, Visible) \in First(r)..Last(r)
  BY <1>4, <1>6 DEF Slice
<1>7. First(r) \in Nat /\ Last(r) \in Nat /\ \A s \in Visible : Rank(s, Visible) \in Nat
  <2>1. \A s \in Visible : Rank(s, Visible) \in 1..Cardinality(Visible)
    BY <1>1, FiniteStories, RankType
  <2> QED
    BY <1>1, <2>1, Places, FiniteStories
<1> HIDE DEF rows
<1>8. \A s \in Visible : Rank(s, Visible) < First(r) => s \notin Ids(Answer(r))
  BY <1>6, <1>7
<1> QED
  BY <1>5, <1>6, <1>8 DEF Fits

(* A page stays whole when more is published or retired, and when what is   *)
(* swept are publications it has.                                           *)
LEMMA PageKept ==
    ASSUME TypeOK, NEW k \in Lists, Whole(k),
           published \subseteq published', RetiresOldest, cache'[k] = cache[k],
           \A w \in Workers : run'[w] = "delete" /\ k \notin found'[w] =>
               run[w] = "delete" /\ k \notin found[w] /\ upon'[w] = upon[w],
           \A s \in swept' : s \in swept \/ \E w \in Workers :
               run[w] = "delete" /\ k \notin found[w] /\ s \in upon[w]
    PROVE  Whole(k)'
<1>0. Key(cache'[k].req) = k /\ (Key(cache[k].req) = k)' <=> Key(cache'[k].req) = k
  BY DEF Whole, Key
<1>1. CASE cache[k].late
  BY <1>0, <1>1 DEF Whole
<1>2. CASE ~cache[k].late
  <2>1. PICK seen \in SUBSET published, from \in SUBSET published :
            /\ swept \subseteq seen /\ seen \subseteq from
            /\ \A w \in Workers : run[w] = "delete" /\ k \notin found[w] => upon[w] \subseteq seen
            /\ Fits(cache[k].items, cache[k].req, from \ retired)
            /\ Cardinality(seen \ retired) > Last(cache[k].req) => cache[k].more
    BY <1>2 DEF Whole
  <2>2. cache[k].req \in Requests
    BY DEF Lists, TypeOK, Pages
  <2>3. Fits(cache[k].items, cache[k].req, from \ retired')
    BY <2>1, NewestLeft, FitsNewest
  <2>4. Last(cache[k].req) \in Nat /\ seen \in SUBSET Stories
    BY <2>2, Places DEF TypeOK
  <2>5. Cardinality(seen \ retired') > Last(cache[k].req) => cache[k].more
    <3>1. /\ Cardinality(seen \ retired') <= Cardinality(seen \ retired)
          /\ Cardinality(seen \ retired') \in Nat /\ Cardinality(seen \ retired) \in Nat
      BY <2>4, FewerLeft
    <3>2. Cardinality(seen \ retired') > Last(cache[k].req) =>
              Cardinality(seen \ retired) > Last(cache[k].req)
      BY <2>4, <3>1
    <3> QED
      BY <2>1, <3>2
  <2>6. Fits(cache[k].items, cache[k].req, from \ retired)'
    BY <2>3 DEF Fits, Ids, Rank, First, Last
  <2>7. (Cardinality(seen \ retired) > Last(cache[k].req) => cache[k].more)'
    BY <2>5 DEF Last
  <2>8. /\ seen \in SUBSET published' /\ from \in SUBSET published' /\ swept' \subseteq seen
        /\ \A w \in Workers : run'[w] = "delete" /\ k \notin found'[w] => upon'[w] \subseteq seen
    BY <2>1
  <2> QED
    BY <1>0, <2>1, <2>6, <2>7, <2>8 DEF Whole
<1> QED
  BY <1>1, <1>2

(* So does what a handler is about to store.                                *)
LEMMA FillingKept ==
    ASSUME TypeOK, NEW c \in Clients, Filling(c),
           published \subseteq published', RetiresOldest,
           pc'[c] = pc[c], req'[c] = req[c], total'[c] = total[c], items'[c] = items[c],
           upto'[c] = upto[c]
    PROVE  Filling(c)'
<1>1. upto[c] \in SUBSET Stories /\ total[c] \in Nat
  BY DEF TypeOK
<1>2. Cardinality(upto[c] \ retired) <= total[c] => Cardinality(upto[c] \ retired') <= total[c]
  <2>1. /\ Cardinality(upto[c] \ retired') <= Cardinality(upto[c] \ retired)
        /\ Cardinality(upto[c] \ retired') \in Nat /\ Cardinality(upto[c] \ retired) \in Nat
    BY <1>1, FewerLeft
  <2> QED
    BY <1>1, <2>1
<1>3. ASSUME NEW from \in SUBSET published, Fits(items[c], req[c], from \ retired)
      PROVE  Fits(items[c], req[c], from \ retired)'
  <2>1. Fits(items[c], req[c], from \ retired')
    BY <1>3, NewestLeft, FitsNewest
  <2> QED
    BY <2>1 DEF Fits, Ids, Rank, First, Last
<1>4. pc[c] = "store" /\ Listing(req[c]) =>
          \E from \in SUBSET published' :
              upto[c] \subseteq from /\ Fits(items[c], req[c], from \ retired)'
  BY <1>3 DEF Filling
<1> QED
  BY <1>2, <1>4 DEF Filling, Listing

(* What the workers, the cleanup and the clock change.                      *)
LEMMA WorkerLate ==
    ASSUME TypeOK, LateInv, Sweeps', UNCHANGED clients,
           published \subseteq published', RetiresOldest,
           DOMAIN cache' \subseteq DOMAIN cache, \A k \in DOMAIN cache' : cache'[k] = cache[k],
           \A k \in Lists', w \in Workers : run'[w] = "delete" /\ k \notin found'[w] =>
               run[w] = "delete" /\ k \notin found[w] /\ upon'[w] = upon[w],
           \A k \in Lists', s \in swept' : s \in swept \/ \E w \in Workers :
               run[w] = "delete" /\ k \notin found[w] /\ s \in upon[w]
    PROVE  LateInv'
<1>1. ASSUME NEW c \in Clients
      PROVE  Filling(c)'
  BY FillingKept DEF LateInv, clients
<1>2. ASSUME NEW k \in Lists'
      PROVE  Whole(k)'
  <2>1. k \in Lists /\ Whole(k) /\ cache'[k] = cache[k]
    BY <1>2 DEF Lists, LateInv
  <2> QED
    BY <1>2, <2>1, PageKept
<1> QED
  BY <1>1, <1>2 DEF LateInv

(* What a handler changes.                                                  *)
LEMMA ClientLate ==
    ASSUME TypeOK, LateInv, NEW c \in Clients, UNCHANGED <<published, retired, workers>>,
           \A d \in Clients \ {c} : pc'[d] = pc[d] /\ req'[d] = req[d] /\ total'[d] = total[d]
                                    /\ items'[d] = items[d] /\ upto'[d] = upto[d],
           Filling(c)',
           \A k \in Lists' : Whole(k)' \/ (k \in Lists /\ cache'[k] = cache[k])
    PROVE  LateInv'
<1>0. RetiresOldest
  BY DEF RetiresOldest
<1>1. ASSUME NEW d \in Clients
      PROVE  Filling(d)'
  BY <1>0, FillingKept DEF LateInv
<1>2. ASSUME NEW k \in Lists'
      PROVE  Whole(k)'
  <2>1. CASE k \in Lists /\ cache'[k] = cache[k]
    BY <1>0, <2>1, PageKept DEF LateInv, workers
  <2> QED
    BY <1>2, <2>1
<1>3. Sweeps'
  BY DEF LateInv, Sweeps, workers
<1> QED
  BY <1>1, <1>2, <1>3 DEF LateInv

LEMMA InitLate == Init => LateInv
BY DEF Init, LateInv, Sweeps, Filling, Lists

LEMMA StepLate == Inv /\ TypeOK /\ LateInv /\ [Next]_vars => LateInv'
<1> SUFFICES ASSUME Inv, TypeOK, LateInv, [Next]_vars PROVE LateInv'
  OBVIOUS
<1>1. CASE UNCHANGED <<published, retired, cache, clients, workers>>
  <2>1. Sweeps'
    BY <1>1 DEF LateInv, Sweeps, workers
  <2> QED
    BY <1>1, <2>1, WorkerLate DEF workers, RetiresOldest
<1>2. ASSUME NEW c \in Clients, NEW r \in Requests, Hit(c, r)
      PROVE  LateInv'
  BY <1>1, <1>2 DEF Hit, tables
<1>3. ASSUME NEW c \in Clients, UNCHANGED <<published, retired, cache, workers>>,
             \A d \in Clients \ {c} : pc'[d] = pc[d] /\ req'[d] = req[d] /\ total'[d] = total[d]
                                      /\ items'[d] = items[d] /\ upto'[d] = upto[d],
             Filling(c)'
      PROVE  LateInv'
  BY <1>3, ClientLate DEF Lists
<1>4. ASSUME NEW c \in Clients, NEW r \in Requests, Miss(c, r) \/ Ask(c, r)
      PROVE  LateInv'
  <2>1. /\ UNCHANGED <<published, retired, cache, workers, total, items, upto>>
        /\ req' = [req EXCEPT ![c] = r]
        /\ \/ pc' = [pc EXCEPT ![c] = "count"] /\ r.kind = "stories"
           \/ pc' = [pc EXCEPT ![c] = "read"] /\ r.kind # "stories"
           \/ pc' = [pc EXCEPT ![c] = "lookup"]
    BY <1>4 DEF Miss, Ask, Goto, tables
  <2>2. Filling(c)'
    BY <2>1 DEF Filling, Listing, TypeOK
  <2> QED
    BY <1>3, <2>1, <2>2 DEF TypeOK
<1>5. ASSUME NEW c \in Clients, Count(c)
      PROVE  LateInv'
  <2>1. /\ UNCHANGED <<published, retired, cache, workers, items, req>>
        /\ pc' = [pc EXCEPT ![c] = "read"] /\ upto' = [upto EXCEPT ![c] = published]
        /\ total' = [total EXCEPT ![c] = Cardinality(Visible)]
    BY <1>5 DEF Count, Goto, tables, Counted
  <2>2. upto'[c] = published /\ total'[c] = Cardinality(upto'[c] \ retired) /\ pc'[c] = "read"
    BY <2>1 DEF TypeOK, Visible
  <2>3. upto'[c] \ retired \in SUBSET Stories
    BY <2>2 DEF TypeOK
  <2>4. Cardinality(upto'[c] \ retired) <= total'[c]
    BY <2>2, <2>3, FiniteStories
  <2>5. Filling(c)'
    BY <2>1, <2>2, <2>4 DEF Filling
  <2> QED
    BY <1>3, <2>1, <2>5 DEF TypeOK
<1>6. ASSUME NEW c \in Clients, Read(c)
      PROVE  LateInv'
  <2>1. /\ UNCHANGED <<published, retired, cache, workers, total, upto, req>>
        /\ pc' = [pc EXCEPT ![c] = "store"] /\ items' = [items EXCEPT ![c] = Answer(req[c])]
        /\ pc[c] = "read"
    BY <1>6 DEF Read, Goto, tables
  <2>2. req[c] \in Requests
    BY <2>1 DEF Inv, Handler, Reading
  <2>3. ASSUME Listing(req[c])
        PROVE  \E from \in SUBSET published :
                   upto[c] \subseteq from /\ Fits(items'[c], req[c], from \ retired)
    <3>1. upto[c] \subseteq published
      BY <2>1, <2>3 DEF LateInv, Filling
    <3>2. Fits(items'[c], req[c], Visible)
      BY <2>1, <2>2, <2>3, ListRows DEF TypeOK
    <3>3. PICK from \in SUBSET published : from = published /\ from \ retired = Visible
      BY DEF Visible
    <3> QED
      BY <3>1, <3>2, <3>3
  <2>4. Filling(c)
    BY DEF LateInv
  <2>5. pc'[c] = "store" /\ req' = req /\ (Listing(req[c])' <=> Listing(req[c]))
    BY <2>1 DEF Listing, TypeOK
  <2>6. \A from : Fits(items[c], req[c], from \ retired)' <=>
                     Fits(items'[c], req[c], from \ retired)
    BY <2>1 DEF Fits, Ids, Rank, First, Last
  <2>7. Listing(req[c]) => upto[c] \subseteq published /\ Cardinality(upto[c] \ retired) <= total[c]
    BY <2>1, <2>4 DEF Filling
  <2>8. Filling(c)'
    BY <2>1, <2>3, <2>5, <2>6, <2>7 DEF Filling
  <2> QED
    BY <1>3, <2>1, <2>8 DEF TypeOK
<1>7. ASSUME NEW c \in Clients, Store(c)
      PROVE  LateInv'
  <2>1. /\ UNCHANGED <<published, retired, workers>> /\ Leave(c) /\ pc[c] = "store"
        /\ cache' = [k \in DOMAIN cache \cup {Key(req[c])} |->
                       IF k = Key(req[c]) THEN Entry(c) ELSE cache[k]]
    BY <1>7 DEF Store, tables
  <2>2. pc'[c] = "idle" /\ Filling(c)'
    BY <2>1 DEF Leave, Filling, TypeOK
  <2>3. req[c] \in Requests /\ Filling(c) /\ Sweeps
    BY <2>1 DEF Inv, Handler, Reading, LateInv
  <2>4. ASSUME NEW k \in Lists', k = Key(req[c])
        PROVE  Whole(k)'
    <3>1. Listing(req[c])
      BY <2>4 DEF Lists, Key, Listing
    <3>2. cache'[k] = Entry(c)
      BY <2>1, <2>4
    <3>3. /\ cache'[k].items = items[c] /\ cache'[k].req = req[c]
          /\ cache'[k].more = (Last(req[c]) < total[c])
          /\ cache'[k].late = (req[c].kind = "stories" /\ ~(listed \subseteq upto[c]))
      BY <3>2 DEF Entry, Last
    <3>4. (Key(cache[k].req) = k)'
      BY <2>4, <3>3 DEF Key
    <3>5. CASE cache'[k].late
      BY <3>4, <3>5 DEF Whole
    <3>6. CASE ~cache'[k].late
      <4>1. listed \subseteq upto[c]
        BY <3>1, <3>3, <3>6 DEF Listing
      <4>2. upto[c] \subseteq published /\ Cardinality(upto[c] \ retired) <= total[c]
        BY <2>1, <2>3, <3>1 DEF Filling
      <4>3. PICK from \in SUBSET published :
              upto[c] \subseteq from /\ Fits(items[c], req[c], from \ retired)
        BY <2>1, <2>3, <3>1 DEF Filling
      <4>4. swept \subseteq upto[c] /\ \A w \in Workers : run[w] = "delete" => upon[w] \subseteq upto[c]
        BY <2>3, <4>1 DEF Sweeps
      <4>5. /\ Last(req[c]) \in Nat /\ total[c] \in Nat
            /\ upto[c] \ retired \in SUBSET Stories
        BY <2>3, Places DEF TypeOK
      <4>6. Cardinality(upto[c] \ retired) > Last(req[c]) => Last(req[c]) < total[c]
        BY <4>2, <4>5, FiniteStories
      <4>7. PICK seen \in SUBSET published : seen = upto[c]
        BY <4>2
      <4>8. Fits(cache[k].items, cache[k].req, from \ retired)'
        BY <2>1, <3>3, <4>3 DEF Fits, Ids, Rank, First, Last
      <4>9. (Cardinality(seen \ retired) > Last(cache[k].req) => cache[k].more)'
        BY <2>1, <3>3, <4>6, <4>7 DEF Last
      <4> QED
        BY <2>1, <3>4, <4>3, <4>4, <4>7, <4>8, <4>9 DEF Whole, workers
    <3> QED
      BY <3>5, <3>6
  <2>5. ASSUME NEW k \in Lists', k # Key(req[c])
        PROVE  k \in Lists /\ cache'[k] = cache[k]
    BY <2>1, <2>5 DEF Lists
  <2>6. \A d \in Clients \ {c} : pc'[d] = pc[d] /\ req'[d] = req[d] /\ total'[d] = total[d]
                                 /\ items'[d] = items[d] /\ upto'[d] = upto[d]
    BY <2>1 DEF Leave, TypeOK
  <2>7. \A k \in Lists' : Whole(k)' \/ (k \in Lists /\ cache'[k] = cache[k])
    BY <2>4, <2>5
  <2>8. UNCHANGED <<published, retired, workers>>
    BY <2>1
  <2> QED
    BY <2>2, <2>6, <2>7, <2>8, ClientLate
<1>8. ASSUME NEW c \in Clients, Leave(c), UNCHANGED <<published, retired, cache, workers>>
      PROVE  LateInv'
  <2>1. Filling(c)'
    BY <1>8 DEF Leave, Filling, TypeOK
  <2> QED
    BY <1>3, <1>8, <2>1 DEF Leave, TypeOK
<1>9. ASSUME NEW c \in Clients, (Lookup(c) /\ Stored(c) = None) \/ Provider(c) \/ Upsert(c)
      PROVE  LateInv'
  <2>1. /\ UNCHANGED <<published, retired, cache, workers, total, upto, req>>
        /\ \E p \in {"provider", "upsert", "insert", "update"} : pc' = [pc EXCEPT ![c] = p]
        /\ \E e : items' = [items EXCEPT ![c] = e]
    <3>1. items = [items EXCEPT ![c] = items[c]]
      BY DEF TypeOK
    <3> QED
      BY <1>9, <3>1 DEF Lookup, Provider, Upsert, Goto, tables
  <2>2. Filling(c)'
    BY <2>1 DEF Filling, TypeOK
  <2> QED
    BY <1>3, <2>1, <2>2 DEF TypeOK
<1>10. ASSUME NEW c \in Clients, Write(c)
       PROVE  LateInv'
  BY <1>8, <1>10 DEF Write
<1>11. ASSUME NEW w \in Workers, NEW s \in Stories, Publish(w, s)
       PROVE  LateInv'
  <2>1. published' = published \cup {s} /\ UNCHANGED <<retired, cache, clients, workers>>
    BY <1>11 DEF Publish
  <2>2. Sweeps'
    BY <2>1 DEF LateInv, Sweeps, workers
  <2> QED
    BY <2>1, <2>2, WorkerLate DEF workers, RetiresOldest
<1>12. ASSUME NEW s \in Stories, Retire(s)
       PROVE  LateInv'
  <2>1. RetiresOldest /\ UNCHANGED <<published, cache, clients, workers>>
    <3>1. /\ retired' = retired \cup {t \in Stories : t <= s}
          /\ UNCHANGED <<published, cache, clients, workers>>
      BY <1>12 DEF Retire
    <3>2. \A t \in retired' \ retired : t \in Stories /\ t <= s
      BY <3>1
    <3>3. \A t \in Stories, u \in Stories : t <= s /\ u <= t => u <= s
      BY RequestsAssumption
    <3> QED
      BY <3>1, <3>2, <3>3 DEF RetiresOldest
  <2>2. Sweeps'
    BY <2>1 DEF LateInv, Sweeps, workers
  <2> QED
    BY <2>1, <2>2, WorkerLate DEF workers, RetiresOldest
<1>13. ASSUME NEW k \in Keys, Expire(k)
       PROVE  LateInv'
  <2>1. /\ cache' = [j \in DOMAIN cache \ {k} |-> cache[j]]
        /\ UNCHANGED <<published, retired, clients, workers>>
    BY <1>13 DEF Expire, tables
  <2>2. Sweeps'
    BY <2>1 DEF LateInv, Sweeps, workers
  <2>3. DOMAIN cache' \subseteq DOMAIN cache /\ \A j \in DOMAIN cache' : cache'[j] = cache[j]
    BY <2>1
  <2> QED
    BY <2>1, <2>2, <2>3, WorkerLate DEF workers, RetiresOldest
<1>14. ASSUME NEW w \in Workers, StartRun(w)
       PROVE  LateInv'
  <2>1. /\ run' = [run EXCEPT ![w] = "publishing"]
        /\ UNCHANGED <<published, retired, cache, clients, found, upon, listed, swept>>
    BY <1>14 DEF StartRun, tables
  <2>2. \A v \in Workers : run'[v] = "delete" => run[v] = "delete"
    BY <2>1 DEF TypeOK
  <2>3. Sweeps'
    BY <2>1, <2>2 DEF LateInv, Sweeps
  <2> QED
    BY <2>1, <2>2, <2>3, WorkerLate DEF RetiresOldest
<1>15. ASSUME NEW w \in Workers, CutOff(w)
       PROVE  LateInv'
  <2>1. /\ EndRun(w) /\ UNCHANGED <<published, retired, cache, clients, listed, swept>>
    BY <1>15 DEF CutOff, tables
  <2>2. \A v \in Workers : run'[v] = "delete" =>
            run[v] = "delete" /\ found'[v] = found[v] /\ upon'[v] = upon[v]
    BY <2>1 DEF EndRun, TypeOK
  <2>3. Sweeps'
    BY <2>1, <2>2 DEF LateInv, Sweeps
  <2> QED
    BY <2>1, <2>2, <2>3, WorkerLate DEF RetiresOldest
<1>16. ASSUME NEW w \in Workers, AskKeys(w)
       PROVE  LateInv'
  <2>1. /\ run' = [run EXCEPT ![w] = "delete"]
        /\ found' = [found EXCEPT ![w] = Swept(DOMAIN cache)]
        /\ upon' = [upon EXCEPT ![w] = published] /\ listed' = listed \cup published
        /\ UNCHANGED <<published, retired, cache, clients, swept>>
    BY <1>16 DEF AskKeys, tables
  <2>2. \A k \in Lists' : k \in found'[w]
    BY <2>1 DEF Lists, Swept, TypeOK
  <2>3. \A v \in Workers \ {w} : run'[v] = run[v] /\ found'[v] = found[v] /\ upon'[v] = upon[v]
    BY <2>1 DEF TypeOK
  <2>4. upon'[w] = published
    BY <2>1 DEF TypeOK
  <2>5. Sweeps'
    BY <2>1, <2>3, <2>4 DEF LateInv, Sweeps
  <2> QED
    BY <2>1, <2>2, <2>3, <2>5, WorkerLate DEF RetiresOldest
<1>17. ASSUME NEW w \in Workers, Delete(w)
       PROVE  LateInv'
  <2>1. /\ run[w] = "delete" /\ cache' = [k \in DOMAIN cache \ found[w] |-> cache[k]]
        /\ swept' = swept \cup upon[w] /\ EndRun(w)
        /\ UNCHANGED <<published, retired, clients, listed>>
    BY <1>17 DEF Delete, tables
  <2>2. \A v \in Workers : run'[v] = "delete" =>
            run[v] = "delete" /\ found'[v] = found[v] /\ upon'[v] = upon[v]
    BY <2>1 DEF EndRun, TypeOK
  <2>3. Sweeps'
    BY <2>1, <2>2 DEF LateInv, Sweeps
  <2>4. /\ DOMAIN cache' \subseteq DOMAIN cache /\ \A k \in DOMAIN cache' : cache'[k] = cache[k]
        /\ \A k \in DOMAIN cache' : k \notin found[w]
    BY <2>1
  <2>5. \A k \in Lists' : k \notin found[w]
    BY <2>4 DEF Lists
  <2> QED
    BY <2>1, <2>2, <2>3, <2>4, <2>5, WorkerLate DEF RetiresOldest
<1>18. ASSUME NEW c \in Clients, Handle(c)
       PROVE  LateInv'
  <2>1. ASSUME Leave(c), UNCHANGED <<tables, cache, workers>>
        PROVE  LateInv'
    BY <1>8, <2>1 DEF tables
  <2> QED
    BY <1>5, <1>6, <1>7, <1>9, <1>10, <1>18, <2>1 DEF Handle, Lookup
<1>19. ASSUME NEW c \in Clients, Fail(c)
       PROVE  LateInv'
  BY <1>8, <1>19 DEF Fail, tables
<1>20. CASE UNCHANGED vars
  BY <1>1, <1>20 DEF vars, clients, workers
<1> QED
  BY <1>2, <1>4, <1>11, <1>12, <1>13, <1>14, <1>15, <1>16, <1>17, <1>18, <1>19, <1>20 DEF Next

-----------------------------------------------------------------------------
(***************************************************************************)
(* A walk through whole pages: the story of rank m is on the page it       *)
(* should be on, and on no other.                                          *)
(***************************************************************************)
LEMMA PageOfRank ==
    ASSUME NEW n \in Nat \ {0}, NEW m \in Nat \ {0}, NEW p \in Nat, m <= p * n
    PROVE  \E i \in 1..p : m \in ((i - 1) * n + 1)..(i * n)
<1>1. PICK q : q = (m - 1) \div n
  OBVIOUS
<1>2. q \in Nat /\ q * n <= m - 1 /\ m - 1 < q * n + n
  BY <1>1
<1>3. (q + 1) * n = q * n + n /\ q * n \in Nat
  BY <1>2
<1>4. q < p
  <2> SUFFICES ASSUME p <= q PROVE FALSE
    BY <1>2
  <2>1. p * n <= q * n
    BY <1>2
  <2> QED
    BY <1>2, <1>3, <2>1
<1>5. PICK i \in 1..p : i = q + 1
  BY <1>2, <1>4
<1>6. (i - 1) * n = q * n /\ i * n = q * n + n
  BY <1>3, <1>5
<1>7. m \in ((i - 1) * n + 1)..(i * n)
  BY <1>2, <1>3, <1>6
<1> QED
  BY <1>7

LEMMA PagesApart ==
    ASSUME NEW n \in Nat \ {0}, NEW i \in Nat \ {0}, NEW j \in Nat \ {0}, i < j
    PROVE  i * n < (j - 1) * n + 1
<1>1. i <= j - 1
  OBVIOUS
<1>2. i * n <= (j - 1) * n
  BY <1>1
<1> QED
  BY <1>2

LEMMA WalkedPage ==
    ASSUME TypeOK, LateInv, swept = published,
           NEW r \in Requests, Walked(r), NEW i \in 1..r.page, NEW k, k = PageKey(r, i)
    PROVE  /\ cache[k].req \in Requests /\ cache[k].req.limit = r.limit
           /\ First(cache[k].req) = (i - 1) * r.limit + 1 /\ Last(cache[k].req) = i * r.limit
           /\ Fits(cache[k].items, cache[k].req, Visible)
           /\ Cardinality(Visible) > Last(cache[k].req) => cache[k].more
<1>1. k \in Lists /\ ~cache[k].late /\ cache[k].req.limit = r.limit /\ k.of = <<i>>
  BY DEF Walked, PageKey, Lists
<1>2. cache[k].req \in Requests /\ Whole(k)
  BY <1>1 DEF Lists, TypeOK, Pages, LateInv
<1>3. cache[k].req.kind = "stories" /\ cache[k].req.page = i
  BY <1>1, <1>2 DEF Whole, Key, Lists
<1>4. PICK seen, from \in SUBSET published :
        /\ swept \subseteq seen /\ seen \subseteq from
        /\ Fits(cache[k].items, cache[k].req, from \ retired)
        /\ Cardinality(seen \ retired) > Last(cache[k].req) => cache[k].more
  BY <1>1, <1>2 DEF Whole
<1>5. seen \ retired = Visible /\ from \ retired = Visible
  BY <1>4 DEF Visible
<1> QED
  BY <1>1, <1>2, <1>3, <1>4, <1>5 DEF First, Last

LEMMA WalkIsComplete ==
    ASSUME TypeOK, LateInv, swept = published, NEW r \in Requests, Walked(r)
    PROVE  Complete(r)
<1>1. PICK p, n \in Nat \ {0} : p = r.page /\ n = r.limit
  BY RequestsAssumption
<1> DEFINE Of(i) == cache[PageKey(r, i)]
<1>2. ASSUME NEW i \in 1..p
      PROVE  /\ First(Of(i).req) = (i - 1) * n + 1 /\ Last(Of(i).req) = i * n
             /\ Of(i).req.limit = n /\ Fits(Of(i).items, Of(i).req, Visible)
             /\ Cardinality(Visible) > Last(Of(i).req) => Of(i).more
  BY <1>1, <1>2, WalkedPage
<1>3. \A s \in Visible : Rank(s, Visible) \in Nat \ {0}
  <2>1. Visible \in SUBSET Stories
    BY DEF Visible, TypeOK
  <2>2. \A s \in Visible : Rank(s, Visible) \in 1..Cardinality(Visible)
    BY <2>1, FiniteStories, RankType
  <2> QED
    BY <2>1, <2>2, FiniteStories
<1>4. PICK page : \A i \in 1..p : page[i] = Ids(Of(i).items)
  <2>1. \A i \in 1..p : [j \in 1..p |-> Ids(Of(j).items)][i] = Ids(Of(i).items)
    OBVIOUS
  <2> QED
    BY <2>1
<1>5. ASSUME NEW i \in 1..p, NEW s \in Visible
      PROVE  /\ Rank(s, Visible) \in ((i - 1) * n + 1)..(i * n) => s \in page[i]
             /\ s \in page[i] => Rank(s, Visible) \in ((i - 1) * n + 1)..(i * n)
             /\ Rank(s, Visible) > i * n => /\ Cardinality(Of(i).items) = n
                                            /\ \A j \in Of(i).items : j.id > s
  <2>1. Rank(s, Visible) \in Nat /\ (i - 1) * n + 1 \in Nat /\ i * n \in Nat
    BY <1>3
  <2>2. /\ Rank(s, Visible) < (i - 1) * n + 1 => s \notin page[i]
        /\ Rank(s, Visible) \in ((i - 1) * n + 1)..(i * n) => s \in page[i]
        /\ Rank(s, Visible) > i * n => /\ Cardinality(Of(i).items) = n
                                       /\ \A j \in Of(i).items : j.id > s
    BY <1>2, <1>4 DEF Fits
  <2>3. Rank(s, Visible) > i * n => s \notin page[i]
    <3> SUFFICES ASSUME Rank(s, Visible) > i * n, s \in page[i] PROVE FALSE
      OBVIOUS
    <3>1. PICK j \in Of(i).items : j.id = s
      BY <1>4 DEF Ids
    <3>2. s > s /\ s \in Nat
      BY <2>2, <3>1, RequestsAssumption DEF Visible, TypeOK
    <3> QED
      BY <3>2
  <2> HIDE DEF Of
  <2> QED
    BY <2>1, <2>2, <2>3
<1>6. ASSUME NEW s \in Visible
      PROVE  \/ \E i \in 1..p : s \in page[i]
             \/ Cardinality(Of(p).items) = n /\ \A i \in Of(p).items : i.id > s
  <2>1. PICK m \in Nat \ {0} : m = Rank(s, Visible)
    BY <1>3
  <2>2. CASE m <= p * n
    <3>1. PICK i \in 1..p : m \in ((i - 1) * n + 1)..(i * n)
      BY <2>2, PageOfRank
    <3> QED
      BY <1>5, <2>1, <3>1
  <2>3. CASE ~(m <= p * n)
    <3>1. p \in 1..p /\ m > p * n
      BY <2>3
    <3> QED
      BY <1>5, <2>1, <3>1
  <2> QED
    BY <2>2, <2>3
<1>7. ASSUME NEW i \in 1..p, NEW j \in 1..p, i < j, NEW s \in Visible
      PROVE  ~(s \in page[i] /\ s \in page[j])
  <2>1. i * n < (j - 1) * n + 1
    BY <1>7, PagesApart
  <2>2. PICK m \in Nat \ {0} : m = Rank(s, Visible)
    BY <1>3
  <2>3. s \in page[i] => m <= i * n
    BY <1>5, <2>2
  <2>4. s \in page[j] => m >= (j - 1) * n + 1
    BY <1>5, <2>2
  <2>5. i * n \in Nat /\ (j - 1) * n + 1 \in Nat
    OBVIOUS
  <2> QED
    BY <2>1, <2>2, <2>3, <2>4, <2>5
<1>8. \A i, j \in 1..p : i # j => page[i] \cap page[j] \cap Visible = {}
  <2> SUFFICES ASSUME NEW i \in 1..p, NEW j \in 1..p, i # j, NEW s \in Visible,
                      s \in page[i], s \in page[j]
               PROVE  FALSE
    OBVIOUS
  <2>1. i < j \/ j < i
    OBVIOUS
  <2> QED
    BY <1>7, <2>1
<1>9. p \in 1..p /\ (Cardinality(Visible) > p * n => Of(p).more)
  BY <1>2
<1>10. \A i \in 1..r.page : OnPage(r, i) = page[i]
  BY <1>1, <1>4 DEF OnPage
<1> HIDE DEF Of
<1>11. /\ \A s \in Visible : \/ \E i \in 1..r.page : s \in OnPage(r, i)
                             \/ /\ Cardinality(Of(r.page).items) = r.limit
                                /\ \A i \in Of(r.page).items : i.id > s
       /\ \A i, j \in 1..r.page : i # j => OnPage(r, i) \cap OnPage(r, j) \cap Visible = {}
       /\ Cardinality(Visible) > r.page * r.limit => Of(r.page).more
  BY <1>1, <1>6, <1>8, <1>9, <1>10
<1> QED
  BY <1>11 DEF Complete, Of

(* When every publication has been swept, a reader who walks through the   *)
(* pages of get_stories with one limit misses a story, or meets one twice, *)
(* or is told too early that there is no more, only by a page that was     *)
(* filled late: by a handler that began to read before a publication and   *)
(* stored after a sweep had asked for its keys (delete_pattern).           *)
THEOREM OnlyLateFillsMissHolds == Spec => []OnlyLateFillsMiss
<1>1. Inv /\ TypeInv /\ LateInv => OnlyLateFillsMiss
  BY WalkIsComplete DEF TypeInv, OnlyLateFillsMiss
<1>2. Inv /\ TypeInv /\ LateInv /\ [Next]_vars => LateInv'
  BY StepLate DEF TypeInv
<1> QED
  BY <1>1, <1>2, InitLate, Typed, PTL DEF Spec
================================================================================
