-------------------------------- MODULE ApiProofs --------------------------------
(***************************************************************************)
(* Theorems about the flag endpoints, for any administrators, flags and    *)
(* values; about the subscriber endpoints, for any clients; and that the   *)
(* API process, with its deaths and restarts, is a run of both.            *)
(***************************************************************************)
EXTENDS Api, TLAPS

LEMMA ChangeType ==
    ASSUME NEW c
    PROVE  c \in Changes <=> \E names \in SUBSET Flags : c \in [names -> Values]
BY DEF Changes

LEMMA MergeType ==
    ASSUME NEW over \in Changes, NEW under \in [Flags -> Values]
    PROVE  Merge(over, under) \in [Flags -> Values]
BY ChangeType DEF Merge

LEMMA RecordIsChange ==
    ASSUME NEW record \in [Flags -> Values]
    PROVE  /\ record \in Changes
           /\ \A under : Merge(record, under) = record
<1>1. record \in Changes
  BY ChangeType
<1>2. ASSUME NEW under
      PROVE  Merge(record, under) = record
  BY DEF Merge
<1> QED
  BY <1>1, <1>2

LEMMA EffectiveType == TypeOK => Effective \in [Flags -> Values]
BY MergeType, DefaultsAssumption DEF TypeOK, Effective

(* Who was not overtaken holds the record that is in effect. *)
Current(a) == /\ pc[a] = "save" /\ ~overtaken[a] => got[a] = Effective
              /\ pc[a] = "idle" => ~overtaken[a]
Inv == TypeOK /\ \A a \in Admins : Current(a)

LEMMA InitInv == Init => Inv
<1> SUFFICES ASSUME Init PROVE Inv
  OBVIOUS
<1>1. <<>> \in Changes
  <2>1. <<>> \in [{} -> Values]
    OBVIOUS
  <2> QED
    BY <2>1, ChangeType
<1>2. TypeOK
  BY <1>1, DefaultsAssumption DEF Init, TypeOK
<1> QED
  BY <1>2 DEF Init, Inv, Current

LEMMA LeaveType ==
    ASSUME Inv, NEW a \in Admins, Leave(a)
    PROVE  /\ pc' \in [Admins -> {"idle", "save"}]
           /\ change' \in [Admins -> Changes]
           /\ got' \in [Admins -> [Flags -> Values]]
           /\ pc'[a] = "idle"
           /\ \A b \in Admins \ {a} : pc'[b] = pc[b] /\ got'[b] = got[b]
<1>1. <<>> \in Changes
  <2>1. <<>> \in [{} -> Values]
    OBVIOUS
  <2> QED
    BY <2>1, ChangeType
<1> QED
  BY <1>1, DefaultsAssumption DEF Leave, Inv, TypeOK

LEMMA PutType ==
    ASSUME Inv, NEW a \in Admins, NEW record \in [Flags -> Values], Put(a, record)
    PROVE  stored' \in Changes /\ overtaken' \in [Admins -> BOOLEAN]
<1>1. stored' \in Changes
  BY RecordIsChange DEF Put
<1>2. overtaken' \in [Admins -> BOOLEAN]
  <2>1. \A b \in Admins : (b # a /\ (overtaken[b] \/ pc[b] = "save")) \in BOOLEAN
    OBVIOUS
  <2> QED
    BY <2>1 DEF Put
<1> QED
  BY <1>1, <1>2

LEMMA StepInv == Inv /\ [Next]_vars => Inv'
<1> SUFFICES ASSUME Inv, [Next]_vars PROVE Inv'
  OBVIOUS
<1>1. ASSUME NEW a \in Admins, Load(a)
      PROVE  Inv'
  <2>1. Effective \in [Flags -> Values] /\ Effective' = Effective
    BY <1>1, EffectiveType DEF Load, Effective, Inv
  <2>2. TypeOK'
    BY <1>1, <2>1 DEF Load, Loaded, Inv, TypeOK
  <2>3. /\ pc'[a] = "save" /\ got'[a] = Effective
        /\ \A b \in Admins \ {a} : pc'[b] = pc[b] /\ got'[b] = got[b]
        /\ overtaken' = overtaken
    BY <1>1, <2>1 DEF Load, Loaded, Inv, TypeOK
  <2> QED
    BY <2>1, <2>2, <2>3 DEF Inv, Current
<1>2. ASSUME NEW a \in Admins, Leave(a), stored' = stored,
             overtaken' = [overtaken EXCEPT ![a] = FALSE]
      PROVE  Inv'
  <2>1. overtaken' \in [Admins -> BOOLEAN] /\ ~overtaken'[a]
        /\ \A b \in Admins \ {a} : overtaken'[b] = overtaken[b]
    BY <1>2 DEF Inv, TypeOK
  <2>2. TypeOK'
    BY <1>2, <2>1, LeaveType DEF Inv, TypeOK
  <2>3. Effective' = Effective
    BY <1>2 DEF Effective
  <2> QED
    BY <1>2, <2>1, <2>2, <2>3, LeaveType DEF Inv, Current
<1>3. ASSUME NEW a \in Admins, Save(a)
      PROVE  Inv'
  <2> DEFINE record == Merge(change[a], got[a])
  <2>1. record \in [Flags -> Values]
    BY MergeType DEF Inv, TypeOK
  <2>2. TypeOK'
    BY <1>3, <2>1, LeaveType, PutType DEF Save, Inv, TypeOK
  <2>3. ~overtaken'[a] /\ \A b \in Admins \ {a} : pc[b] = "save" => overtaken'[b]
    BY <1>3 DEF Save, Put
  <2>4. \A b \in Admins \ {a} : pc[b] = "idle" => ~overtaken[b] /\ ~overtaken'[b]
    BY <1>3 DEF Save, Put, Inv, Current
  <2>5. pc'[a] = "idle" /\ \A b \in Admins \ {a} : pc'[b] = pc[b]
    BY <1>3, LeaveType DEF Save
  <2> QED
    BY <2>2, <2>3, <2>4, <2>5 DEF Inv, Current
<1>4. ASSUME NEW a \in Admins, Reset(a)
      PROVE  Inv'
  <2>1. TypeOK'
    BY <1>4, DefaultsAssumption, PutType DEF Reset, Inv, TypeOK
  <2>2. ~overtaken'[a] /\ \A b \in Admins \ {a} : pc[b] = "save" => overtaken'[b]
    BY <1>4 DEF Reset, Put
  <2>3. \A b \in Admins \ {a} : pc[b] = "idle" => ~overtaken'[b]
    BY <1>4 DEF Reset, Put, Inv, Current
  <2>4. pc' = pc /\ pc[a] = "idle"
    BY <1>4 DEF Reset
  <2> QED
    BY <2>1, <2>2, <2>3, <2>4 DEF Inv, Current
<1>5. CASE UNCHANGED vars
  BY <1>5 DEF vars, Inv, TypeOK, Current, Effective
<1> QED
  BY <1>1, <1>2, <1>3, <1>4, <1>5 DEF Next, Refuse, Fail

(* Unless someone wrote between its load and its save, an update changes   *)
(* what it names and nothing else of what the workers read, however many   *)
(* updates and resets are going on, and whatever older record was stored.  *)
THEOREM OnlyOverlapRevertsHolds == Spec => OnlyOverlapReverts
<1>1. ASSUME Inv, NEW a \in Admins, ~overtaken[a], Save(a)
      PROVE  Effective' = Merge(change[a], Effective)
  <2>1. got[a] = Effective /\ stored' = Merge(change[a], got[a])
    BY <1>1 DEF Inv, Current, Save, Put
  <2>2. Merge(change[a], Effective) \in [Flags -> Values]
    BY EffectiveType, MergeType, <1>1 DEF Inv, TypeOK
  <2> QED
    BY <2>1, <2>2, RecordIsChange DEF Effective
<1>2. Inv /\ [Next]_vars => [\A a \in Admins : ~overtaken[a] => Confined(a)]_vars
  BY <1>1 DEF Confined
<1> QED
  BY <1>2, InitInv, StepInv, PTL DEF Spec, OnlyOverlapReverts

(* The flags and the places of their handlers are well typed.              *)
THEOREM FlagsTyping == Spec => []TypeOK
<1>1. Inv => TypeOK
  BY DEF Inv
<1> QED
  BY <1>1, InitInv, StepInv, PTL DEF Spec

-----------------------------------------------------------------------------
(* Subscribers.  Overlapping contraries have crossed each other, so what   *)
(* an uncrossed handler found can only have changed in its own direction;  *)
(* and once the first row is gone no row is inactive again.                *)

InFlightNow(c) == doing[c] # "idle"
Kept == \E r \in rows : r.id = First
Member == \E r \in rows : rows = {r} /\ r.active

Places(c) ==
    /\ doing[c] \in {"add", "revive"} => want[c] = "in"
    /\ doing[c] = "remove" => want[c] = "out"
    /\ doing[c] = "add" => ~Kept
    /\ doing[c] = "revive" /\ ~crossed[c] => Kept
    /\ doing[c] = "done" /\ ~crossed[c] => IF want[c] = "in" THEN Member ELSE rows = {}

SubInv ==
    /\ SubscribersOK
    /\ \A r \in rows : ~r.active => r.id = First
    /\ \A c, d \in Clients :
          InFlightNow(c) /\ InFlightNow(d) /\ want[c] # want[d] => crossed[c] /\ crossed[d]
    /\ \A c \in Clients : InFlightNow(c) => believed \in {"unknown", want[c]}
    /\ \A c \in Clients : Places(c)
    /\ AnswersHold

LEMMA SubInit == SubscribersInit => SubInv
  BY DEF SubscribersInit, SubInv, SubscribersOK, InFlightNow, Places, AnswersHold, Row

LEMMA BeginKeeps ==
    ASSUME SubInv, NEW c \in Clients, NEW w \in {"in", "out"},
           NEW place \in {"add", "revive", "remove", "done"}, Begin(c, w, place),
           place \in {"add", "revive"} => w = "in",
           place = "remove" => w = "out",
           place = "add" => ~Kept,
           place = "revive" => Kept,
           place = "done" => IF w = "in" THEN Member ELSE rows = {}
    PROVE  SubInv'
<1>1. /\ doing[c] = "idle" /\ rows' = rows
      /\ doing'[c] = place /\ want'[c] = w
      /\ \A d \in Clients \ {c} : doing'[d] = doing[d] /\ want'[d] = want[d]
      /\ doing' \in [Clients -> {"idle", "add", "revive", "remove", "done"}]
      /\ want' \in [Clients -> {"in", "out"}]
  BY DEF Begin, SubInv, SubscribersOK
<1>2. /\ crossed' \in [Clients -> BOOLEAN]
      /\ crossed'[c] <=> \E b \in Clients : Contrary(b, w)
      /\ \A d \in Clients \ {c} : crossed'[d] <=> crossed[d] \/ Contrary(d, w)
  <2>1. /\ crossed' = [d \in Clients |->
                         IF d = c THEN \E b \in Clients : Contrary(b, w)
                         ELSE crossed[d] \/ Contrary(d, w)]
        /\ \A d \in Clients : crossed[d] \in BOOLEAN
    BY DEF Begin, SubInv, SubscribersOK
  <2>2. \A d \in Clients : (IF d = c THEN \E b \in Clients : Contrary(b, w)
                             ELSE crossed[d] \/ Contrary(d, w)) \in BOOLEAN
    BY <2>1
  <2> QED
    BY <2>1, <2>2, Zenon
<1>3. believed' = IF believed = w THEN w ELSE "unknown"
  BY DEF Begin
<1>4. SubscribersOK'
  BY <1>1, <1>2, <1>3 DEF SubInv, SubscribersOK
<1>5. ASSUME NEW d \in Clients, NEW e \in Clients,
             doing'[d] # "idle", doing'[e] # "idle", want'[d] # want'[e]
      PROVE  crossed'[d] /\ crossed'[e]
  <2>1. CASE d = c
    <3>1. e # c /\ Contrary(e, w)
      BY <1>1, <1>5, <2>1 DEF Contrary
    <3> QED
      BY <1>2, <2>1, <3>1
  <2>2. CASE e = c
    <3>1. d # c /\ Contrary(d, w)
      BY <1>1, <1>5, <2>2 DEF Contrary
    <3> QED
      BY <1>2, <2>2, <3>1
  <2>3. CASE d # c /\ e # c
    <3>1. crossed[d] /\ crossed[e]
      BY <1>1, <1>5, <2>3 DEF SubInv, InFlightNow
    <3> QED
      BY <1>2, <2>3, <3>1
  <2> QED
    BY <2>1, <2>2, <2>3
<1>6. ASSUME NEW d \in Clients, doing'[d] # "idle"
      PROVE  believed' \in {"unknown", want'[d]}
  <2>1. CASE d = c
    BY <1>1, <1>3, <2>1
  <2>2. CASE d # c
    <3>1. doing[d] # "idle" /\ want'[d] = want[d]
      BY <1>1, <1>6, <2>2
    <3>2. believed \in {"unknown", want[d]}
      BY <3>1 DEF SubInv, InFlightNow
    <3> QED
      BY <1>3, <3>1, <3>2
  <2> QED
    BY <2>1, <2>2
<1>7. (Kept <=> Kept') /\ (Member <=> Member')
  BY <1>1 DEF Kept, Member
<1>8. ASSUME NEW d \in Clients
      PROVE  Places(d)'
  <2>1. CASE d = c
    BY <1>1, <1>7, <2>1 DEF Places
  <2>2. CASE d # c
    <3>1. doing'[d] = doing[d] /\ want'[d] = want[d] /\ (~crossed'[d] => ~crossed[d])
      BY <1>1, <1>2, <2>2
    <3>2. Places(d)
      BY DEF SubInv
    <3> QED
      BY <1>1, <1>7, <3>1, <3>2 DEF Places
  <2> QED
    BY <2>1, <2>2
<1>9. AnswersHold'
  BY <1>1, <1>3 DEF SubInv, AnswersHold
<1>10. \A r \in rows' : ~r.active => r.id = First
  BY <1>1 DEF SubInv
<1> QED
  BY <1>4, <1>5, <1>6, <1>8, <1>9, <1>10 DEF SubInv, InFlightNow

(* A step that changes the rows, or not, and moves c on.                   *)
LEMMA MoveKeeps ==
    ASSUME SubInv, NEW c \in Clients, doing[c] # "idle", doing' = [doing EXCEPT ![c] = "done"],
           UNCHANGED <<want, crossed, believed>>,
           rows' \subseteq Row, \A r, s \in rows' : r = s,
           \A r \in rows' : ~r.active => r.id = First,
           want[c] = "in" => Member',
           want[c] = "out" => rows' = {},
           Kept' => Kept,
           want[c] = "in" => (Kept => Kept')
    PROVE  SubInv'
<1>1. /\ doing'[c] = "done" /\ \A d \in Clients \ {c} : doing'[d] = doing[d]
      /\ doing' \in [Clients -> {"idle", "add", "revive", "remove", "done"}]
      /\ want' = want /\ crossed' = crossed /\ believed' = believed
      /\ want[c] \in {"in", "out"}
  BY DEF SubInv, SubscribersOK
<1>2. SubscribersOK'
  BY <1>1 DEF SubInv, SubscribersOK
<1>3. \A d \in Clients : doing'[d] # "idle" => doing[d] # "idle"
  BY <1>1
<1>4. /\ \A d, e \in Clients :
            doing'[d] # "idle" /\ doing'[e] # "idle" /\ want'[d] # want'[e] => crossed'[d] /\ crossed'[e]
      /\ \A d \in Clients : doing'[d] # "idle" => believed' \in {"unknown", want'[d]}
  BY <1>1, <1>3 DEF SubInv, InFlightNow
<1>5. ASSUME NEW d \in Clients
      PROVE  Places(d)'
  <2>1. CASE d = c
    BY <1>1, <2>1 DEF Places, SubInv
  <2>2. CASE d # c
    <3>1. doing'[d] = doing[d] /\ want'[d] = want[d] /\ crossed'[d] = crossed[d] /\ Places(d)
      BY <1>1, <2>2 DEF SubInv
    <3>2. CASE doing[d] # "idle" /\ ~crossed[d]
      <4>1. want[d] = want[c]
        BY <3>2 DEF SubInv, InFlightNow
      <4> QED
        BY <1>1, <3>1, <3>2, <4>1 DEF Places
    <3>3. CASE doing[d] = "idle" \/ crossed[d]
      BY <3>1, <3>3 DEF Places
    <3> QED
      BY <3>2, <3>3, <1>1, <3>1 DEF SubInv, SubscribersOK
  <2> QED
    BY <2>1, <2>2
<1>6. AnswersHold'
  <2>1. believed \in {"unknown", want[c]}
    BY DEF SubInv, InFlightNow
  <2> QED
    BY <1>1, <2>1 DEF AnswersHold, Member
<1> QED
  BY <1>2, <1>4, <1>5, <1>6 DEF SubInv, InFlightNow

(* A step that ends the request of c, and may tell its answer.             *)
LEMMA LeavesKeeps ==
    ASSUME SubInv, NEW c \in Clients, doing[c] # "idle", Leaves(c), rows' = rows,
           believed' = believed
             \/ (doing[c] = "done" /\ ~crossed[c] /\ believed' = want[c])
    PROVE  SubInv'
<1>1. /\ doing'[c] = "idle" /\ want'[c] = "in"
      /\ \A d \in Clients \ {c} :
            doing'[d] = doing[d] /\ want'[d] = want[d] /\ crossed'[d] = crossed[d]
      /\ doing' \in [Clients -> {"idle", "add", "revive", "remove", "done"}]
      /\ want' \in [Clients -> {"in", "out"}] /\ crossed' \in [Clients -> BOOLEAN]
  BY DEF Leaves, SubInv, SubscribersOK
<1>2. SubscribersOK'
  BY <1>1 DEF SubInv, SubscribersOK
<1>3. \A d \in Clients : doing'[d] # "idle" => d # c
  BY <1>1
<1>4. \A d, e \in Clients :
          doing'[d] # "idle" /\ doing'[e] # "idle" /\ want'[d] # want'[e] => crossed'[d] /\ crossed'[e]
  BY <1>1, <1>3 DEF SubInv, InFlightNow
<1>5. ASSUME NEW d \in Clients, doing'[d] # "idle"
      PROVE  believed' \in {"unknown", want'[d]}
  <2>1. d # c /\ doing[d] # "idle" /\ want'[d] = want[d]
    BY <1>1, <1>5
  <2>2. CASE believed' = believed
    BY <2>1, <2>2 DEF SubInv, InFlightNow
  <2>3. CASE ~crossed[c] /\ believed' = want[c]
    <3>1. want[d] = want[c]
      BY <2>1, <2>3 DEF SubInv, InFlightNow
    <3> QED
      BY <2>1, <2>3, <3>1
  <2> QED
    BY <2>2, <2>3
<1>6. (Kept <=> Kept') /\ (Member <=> Member')
  BY DEF Kept, Member
<1>7. ASSUME NEW d \in Clients
      PROVE  Places(d)'
  <2>1. CASE d = c
    BY <1>1, <2>1 DEF Places
  <2>2. CASE d # c
    <3>1. doing'[d] = doing[d] /\ want'[d] = want[d] /\ crossed'[d] = crossed[d] /\ Places(d)
      BY <1>1, <2>2 DEF SubInv
    <3> QED
      BY <1>6, <3>1 DEF Places
  <2> QED
    BY <2>1, <2>2
<1>8. AnswersHold'
  <2>1. CASE believed' = believed
    BY <2>1 DEF SubInv, AnswersHold
  <2>2. CASE doing[c] = "done" /\ ~crossed[c] /\ believed' = want[c]
    <3>1. IF want[c] = "in" THEN Member ELSE rows = {}
      BY <2>2 DEF SubInv, Places
    <3> QED
      BY <2>2, <3>1 DEF AnswersHold, Member
  <2> QED
    BY <2>1, <2>2
<1> QED
  BY <1>2, <1>4, <1>5, <1>7, <1>8 DEF SubInv, InFlightNow

LEMMA SubStep == SubInv /\ [SubscribersNext]_subscriberVars => SubInv'
<1> SUFFICES ASSUME SubInv, [SubscribersNext]_subscriberVars PROVE SubInv'
  OBVIOUS
<1>0. /\ rows \subseteq Row /\ \A r, s \in rows : r = s
      /\ \A r \in rows : ~r.active => r.id = First
  BY DEF SubInv, SubscribersOK
<1>1. ASSUME NEW c \in Clients, Subscribe(c)
      PROVE  SubInv'
  <2>1. CASE rows = {} /\ Begin(c, "in", "add")
    BY <2>1, BeginKeeps DEF Kept
  <2>2. ASSUME NEW r \in rows, rows = {r}, r.active, Begin(c, "in", "done")
        PROVE  SubInv'
    <3>1. Member
      BY <2>2 DEF Member
    <3> QED
      BY <2>2, <3>1, BeginKeeps
  <2>3. ASSUME NEW r \in rows, ~r.active, Begin(c, "in", "revive")
        PROVE  SubInv'
    <3>1. Kept
      BY <1>0, <2>3 DEF Kept
    <3> QED
      BY <2>3, <3>1, BeginKeeps
  <2> QED
    BY <1>1, <2>1, <2>2, <2>3 DEF Subscribe
<1>2. ASSUME NEW c \in Clients, Unsubscribe(c)
      PROVE  SubInv'
  <2>1. CASE rows = {}
    BY <1>2, <2>1, BeginKeeps DEF Unsubscribe
  <2>2. CASE rows # {}
    BY <1>2, <2>2, BeginKeeps DEF Unsubscribe
  <2> QED
    BY <2>1, <2>2
<1>3. ASSUME NEW c \in Clients, Add(c)
      PROVE  SubInv'
  <2>1. /\ doing[c] = "add" /\ want[c] = "in" /\ ~Kept
        /\ doing' = [doing EXCEPT ![c] = "done"] /\ UNCHANGED <<want, crossed, believed>>
    BY <1>3 DEF Add, Move, SubInv, Places
  <2>2. CASE rows # {}
    <3>1. rows' = rows
      BY <1>3, <2>2 DEF Add, Taken
    <3>2. PICK r \in rows : TRUE
      BY <2>2
    <3>3. rows = {r} /\ r.active
      <4>1. rows = {r}
        BY <1>0
      <4>2. r \in Row
        BY <1>0
      <4>3. r.id # First /\ r.active \in BOOLEAN
        BY <2>1, <4>2 DEF Kept, Row
      <4> QED
        BY <1>0, <4>1, <4>3
    <3>4. Member' /\ ~Kept'
      BY <2>1, <3>1, <3>3 DEF Member, Kept
    <3> QED
      BY <1>0, <2>1, <3>1, <3>4, MoveKeeps
  <2>3. CASE rows = {}
    <3> DEFINE new == [id |-> c, active |-> TRUE]
    <3>1. rows' = {new} /\ new \in Row /\ new.active /\ new.id # First
      BY <1>3, <2>3, FirstAssumption DEF Add, Taken, Row
    <3>2. Member' /\ ~Kept'
      BY <3>1 DEF Member, Kept
    <3> HIDE DEF new
    <3>3. /\ rows' \subseteq Row /\ \A r, s \in rows' : r = s
          /\ \A r \in rows' : ~r.active => r.id = First
      BY <3>1
    <3> QED
      BY <2>1, <3>2, <3>3, MoveKeeps
  <2> QED
    BY <2>2, <2>3
<1>4. ASSUME NEW c \in Clients, Revive(c)
      PROVE  SubInv'
  <2> DEFINE new == [id |-> First, active |-> TRUE]
  <2>1. /\ doing[c] = "revive" /\ want[c] = "in" /\ Kept
        /\ doing' = [doing EXCEPT ![c] = "done"] /\ UNCHANGED <<want, crossed, believed>>
    BY <1>4 DEF Revive, Move, SubInv, Places, Kept
  <2>2. rows' = {new} /\ new \in Row /\ new.active /\ new.id = First
    BY <1>4 DEF Revive, Revived, Row
  <2> HIDE DEF new
  <2>3. Member' /\ Kept'
    BY <2>2 DEF Member, Kept
  <2>4. /\ rows' \subseteq Row /\ \A r, s \in rows' : r = s
        /\ \A r \in rows' : ~r.active => r.id = First
    BY <2>2
  <2> QED
    BY <2>1, <2>3, <2>4, MoveKeeps
<1>5. ASSUME NEW c \in Clients, Stale(c)
      PROVE  SubInv'
  BY <1>5, LeavesKeeps DEF Stale
<1>6. ASSUME NEW c \in Clients, Remove(c)
      PROVE  SubInv'
  <2>1. /\ doing[c] = "remove" /\ want[c] = "out" /\ rows' = {}
        /\ doing' = [doing EXCEPT ![c] = "done"] /\ UNCHANGED <<want, crossed, believed>>
    BY <1>6 DEF Remove, Remaining, Move, SubInv, Places
  <2>2. ~Kept'
    BY <2>1 DEF Kept
  <2> QED
    BY <2>1, <2>2, MoveKeeps
<1>7. ASSUME NEW c \in Clients, Reply(c)
      PROVE  SubInv'
  BY <1>7, LeavesKeeps DEF Reply
<1>8. ASSUME NEW c \in Clients, Lose(c)
      PROVE  SubInv'
  BY <1>8, LeavesKeeps DEF Lose
<1>9. CASE UNCHANGED subscriberVars
  BY <1>9 DEF subscriberVars, SubInv, SubscribersOK, AnswersHold, InFlightNow, Places, Kept, Member
<1> QED
  BY <1>1, <1>2, <1>3, <1>4, <1>5, <1>6, <1>7, <1>8, <1>9 DEF SubscribersNext, Handle

(* One row at most for an address, whatever is under way.                  *)
THEOREM OneRow == SubscribersSpec => []SubscribersOK
<1>1. SubInv => SubscribersOK
  BY DEF SubInv
<1> QED
  BY <1>1, SubInit, SubStep, PTL DEF SubscribersSpec

(* What a client is told of an address holds until someone asks for the    *)
(* contrary, for any number of requests, lost ones included.               *)
THEOREM AnswersHoldAlways == SubscribersSpec => []AnswersHold
<1>1. SubInv => AnswersHold
  BY DEF SubInv
<1> QED
  BY <1>1, SubInit, SubStep, PTL DEF SubscribersSpec

(* A reactivation that nothing contrary overlaps finds its row.            *)
THEOREM RevivalsSucceed == SubscribersSpec => []OnlyCrossedAreStale
<1>1. SubInv => OnlyCrossedAreStale
  BY DEF SubInv, Places, Kept, OnlyCrossedAreStale
<1> QED
  BY <1>1, SubInit, SubStep, PTL DEF SubscribersSpec

-----------------------------------------------------------------------------
(* A run of the API process, with its starts, deaths and outages, is a run *)
(* of the flag endpoints and of the subscriber endpoints: what is proved   *)
(* of these holds across restarts.                                         *)
THEOREM ProcessImplementsEndpoints == ApiSpec => Spec /\ SubscribersSpec
<1>1. ApiInit => Init /\ SubscribersInit
  BY DEF ApiInit
<1>2. [ApiNext]_apiVars => [Next]_vars /\ [SubscribersNext]_subscriberVars
  <2> SUFFICES ASSUME [ApiNext]_apiVars
               PROVE  [Next]_vars /\ [SubscribersNext]_subscriberVars
    OBVIOUS
  <2>1. CASE FlagStep
    BY <2>1 DEF FlagStep, Next
  <2>2. CASE SubscriberStep
    BY <2>2 DEF SubscriberStep, SubscribersNext
  <2>3. CASE Connect \/ Refused \/ Restart \/ Die \/ Outage
    BY <2>3 DEF Connect, Refused, Restart, Die, Outage
  <2>4. CASE UNCHANGED apiVars
    BY <2>4 DEF apiVars
  <2> QED
    BY <2>1, <2>2, <2>3, <2>4 DEF ApiNext
<1> QED
  BY <1>1, <1>2, PTL DEF ApiSpec, Spec, SubscribersSpec
================================================================================
