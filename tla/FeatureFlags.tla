------------------------------ MODULE FeatureFlags ------------------------------
(***************************************************************************)
(* The flag endpoints (app/api/v1/endpoints/flags.py) over one Redis key,  *)
(* read by the workers through app/core/flags.py.                          *)
(*                                                                         *)
(* An update loads the record, merges what it was asked to change and      *)
(* writes the whole record back; nothing ties the two accesses together.   *)
(***************************************************************************)
CONSTANTS
    Admins,      \* requests to POST /admin/flags that can be served at once
    Flags,       \* names of flags
    Values,      \* their values
    Defaults     \* FLAG_DEFAULTS, which equals DEFAULTS of core/flags.py

ASSUME DefaultsAssumption == Defaults \in [Flags -> Values]

VARIABLES
    stored,      \* Redis "feature_flags": a record of some flags; <<>> when not set
    pc,          \* pc[a]: place of a in update_flags
    change,      \* change[a]: the flags its request names, with their new values
    got,         \* got[a]: the record it has loaded
    overtaken    \* ghost: someone has written since a loaded

vars == <<stored, pc, change, got, overtaken>>

Changes == UNION {[names -> Values] : names \in SUBSET Flags}
Merge(over, under) == [f \in Flags |-> IF f \in DOMAIN over THEN over[f] ELSE under[f]]

(* What _load_flags and get_flags make of the key: {**DEFAULTS, **stored}. *)
Effective == Merge(stored, Defaults)

(* An older version of the program may have written fewer flags. *)
Init ==
    /\ stored \in Changes
    /\ pc = [a \in Admins |-> "idle"]
    /\ change = [a \in Admins |-> <<>>]
    /\ got = [a \in Admins |-> Defaults]
    /\ overtaken = [a \in Admins |-> FALSE]

Leave(a) ==
    /\ pc' = [pc EXCEPT ![a] = "idle"]
    /\ change' = [change EXCEPT ![a] = <<>>]
    /\ got' = [got EXCEPT ![a] = Defaults]

(* _save_flags: whoever has loaded before holds an old record. *)
Put(a, record) ==
    /\ stored' = record
    /\ overtaken' = [b \in Admins |-> b # a /\ (overtaken[b] \/ pc[b] = "save")]

(* _load_flags.  Faulty variants: an update starts from the defaults; what *)
(* is missing in the record is not filled in.                              *)
LoadedDefaults == Defaults
LoadedAsStored == stored
Loaded == Effective

Load(a) ==
    /\ pc[a] = "idle"
    /\ \E c \in Changes : change' = [change EXCEPT ![a] = c]
    /\ got' = [got EXCEPT ![a] = Loaded]
    /\ pc' = [pc EXCEPT ![a] = "save"]
    /\ UNCHANGED <<stored, overtaken>>

(* The request names no flag. *)
Refuse(a) ==
    /\ pc[a] = "save" /\ DOMAIN change[a] = {}
    /\ overtaken' = [overtaken EXCEPT ![a] = FALSE]
    /\ Leave(a)
    /\ UNCHANGED stored

Save(a) ==
    /\ pc[a] = "save" /\ DOMAIN change[a] # {}
    /\ Put(a, Merge(change[a], got[a]))
    /\ Leave(a)

(* reset_flags does not load. *)
Reset(a) ==
    /\ pc[a] = "idle"
    /\ Put(a, Defaults)
    /\ UNCHANGED <<pc, change, got>>

(* Redis refuses, or the client goes away. *)
Fail(a) ==
    /\ pc[a] = "save"
    /\ overtaken' = [overtaken EXCEPT ![a] = FALSE]
    /\ Leave(a)
    /\ UNCHANGED stored

Next == \E a \in Admins : Load(a) \/ Refuse(a) \/ Save(a) \/ Reset(a) \/ Fail(a)

Spec == Init /\ [][Next]_vars
-----------------------------------------------------------------------------
TypeOK ==
    /\ stored \in Changes
    /\ pc \in [Admins -> {"idle", "save"}]
    /\ change \in [Admins -> Changes]
    /\ got \in [Admins -> [Flags -> Values]]
    /\ overtaken \in [Admins -> BOOLEAN]

(* The update of a changes the flags it names, as it was asked, and what    *)
(* workers read of the others stays as it was.                             *)
Confined(a) == Save(a) => Effective' = Merge(change[a], Effective)

(* "update one or more flags" (endpoints/flags.py:9): only an update that   *)
(* someone has overtaken between its load and its save brings back old     *)
(* values of flags it does not name.                                       *)
OnlyOverlapReverts == [][\A a \in Admins : ~overtaken[a] => Confined(a)]_vars
================================================================================
