------------------------------- MODULE Subscribers -------------------------------
(***************************************************************************)
(* POST and DELETE /v1/subscribe for one address                           *)
(* (app/api/v1/endpoints/subscribers.py, app/models/subscriber.py): every  *)
(* statement names the address, so addresses do not touch each other.      *)
(*                                                                         *)
(* A handler looks the row up and then inserts, reactivates or deletes it, *)
(* in a transaction that does not keep others out.  A step is what one     *)
(* statement and its commit do; the answer is sent later, or never.        *)
(***************************************************************************)
CONSTANTS
    Clients,     \* requests that can be served at once
    First        \* the id of a row that is there from the start

ASSUME FirstAssumption == First \notin Clients

VARIABLES
    rows,        \* the rows with this address
    doing,       \* doing[c]: place of c in its handler
    want,        \* want[c]: "in" for a subscription, "out" for its end
    crossed,     \* ghost: a request for the contrary overlaps that of c
    believed     \* ghost: what the last answer entitles its reader to believe

subscriberVars == <<rows, doing, want, crossed, believed>>

(* A client inserts rows with an id of its own, for a fresh uuid: only the *)
(* first row is ever told from others by its id.                           *)
Row == [id : Clients \cup {First}, active : BOOLEAN]

(* No handler deactivates a row: an inactive one was left by an operator.  *)
SubscribersInit ==
    /\ rows \in {{}} \cup {{[id |-> First, active |-> a]} : a \in BOOLEAN}
    /\ doing = [c \in Clients |-> "idle"]
    /\ want = [c \in Clients |-> "in"]
    /\ crossed = [c \in Clients |-> FALSE]
    /\ believed = "unknown"

Contrary(c, w) == doing[c] # "idle" /\ want[c] # w

(* A request arrives and looks the row up; it goes to place.               *)
Begin(c, w, place) ==
    /\ doing[c] = "idle"
    /\ doing' = [doing EXCEPT ![c] = place]
    /\ want' = [want EXCEPT ![c] = w]
    /\ crossed' = [d \in Clients |->
                     IF d = c THEN \E b \in Clients : Contrary(b, w)
                     ELSE crossed[d] \/ Contrary(d, w)]
    /\ believed' = IF believed = w THEN w ELSE "unknown"
    /\ UNCHANGED rows

Subscribe(c) ==
    \/ rows = {} /\ Begin(c, "in", "add")
    \/ \E r \in rows : rows = {r} /\ Begin(c, "in", IF r.active THEN "done" ELSE "revive")

(* Without a row the answer is 404.                                        *)
Unsubscribe(c) == Begin(c, "out", IF rows = {} THEN "done" ELSE "remove")

Move(c, from, to) ==
    /\ doing[c] = from
    /\ doing' = [doing EXCEPT ![c] = to]
    /\ UNCHANGED <<want, crossed>>

Leaves(c) ==
    /\ doing' = [doing EXCEPT ![c] = "idle"]
    /\ want' = [want EXCEPT ![c] = "in"]
    /\ crossed' = [crossed EXCEPT ![c] = FALSE]

(* uq_subscriber_email makes the insert fail, and the answer is "Already   *)
(* subscribed".  Faulty variant: a table without the constraint.           *)
TakenNever == FALSE
Taken == rows # {}

Add(c) ==
    /\ Move(c, "add", "done")
    /\ rows' = IF Taken THEN rows ELSE rows \cup {[id |-> c, active |-> TRUE]}
    /\ UNCHANGED believed

(* The UPDATE names the id of the row that was found.  Faulty variant: the *)
(* row is replaced by a new one.                                           *)
RevivedAnew(c) == {[id |-> c, active |-> TRUE]}
Revived(c) == {[id |-> First, active |-> TRUE]}

Revive(c) ==
    /\ \E r \in rows : r.id = First
    /\ Move(c, "revive", "done")
    /\ rows' = Revived(c)
    /\ UNCHANGED believed

(* It finds no row: StaleDataError, and the answer is an internal error.   *)
Stale(c) ==
    /\ doing[c] = "revive" /\ \A r \in rows : r.id # First
    /\ Leaves(c)
    /\ UNCHANGED <<rows, believed>>

(* The DELETE takes whatever row has the address now.  Faulty variant: the *)
(* row that was found is deactivated.                                      *)
RemainingInactive == {[id |-> r.id, active |-> FALSE] : r \in rows}
Remaining == {}

Remove(c) ==
    /\ Move(c, "remove", "done")
    /\ rows' = Remaining
    /\ UNCHANGED believed

Reply(c) ==
    /\ doing[c] = "done"
    /\ Leaves(c)
    /\ believed' = IF crossed[c] THEN believed ELSE want[c]
    /\ UNCHANGED rows

(* The request comes to nothing, or its answer is lost.                    *)
Lose(c) ==
    /\ doing[c] # "idle"
    /\ Leaves(c)
    /\ UNCHANGED <<rows, believed>>

Handle(c) ==
    Subscribe(c) \/ Unsubscribe(c) \/ Add(c) \/ Revive(c) \/ Stale(c) \/ Remove(c)

SubscribersNext == \E c \in Clients : Handle(c) \/ Reply(c) \/ Lose(c)

SubscribersSpec == SubscribersInit /\ [][SubscribersNext]_subscriberVars
-----------------------------------------------------------------------------
(* An address has one row at most, though a subscription looks it up and   *)
(* inserts it in two steps.                                                *)
SubscribersOK ==
    /\ rows \subseteq Row /\ \A r, s \in rows : r = s
    /\ doing \in [Clients -> {"idle", "add", "revive", "remove", "done"}]
    /\ want \in [Clients -> {"in", "out"}]
    /\ crossed \in [Clients -> BOOLEAN]
    /\ believed \in {"unknown", "in", "out"}

(* Whoever was told that an address is subscribed, or deleted, may rely on *)
(* it until a request for the contrary begins, provided that none was under *)
(* way with theirs: whatever others subscribe or delete at the same time,  *)
(* lose or never hear.                                                     *)
AnswersHold ==
    /\ believed = "in" => \E r \in rows : rows = {r} /\ r.active
    /\ believed = "out" => rows = {}

(* A reactivation fails, with nothing at fault, only when a deletion       *)
(* crossed it: two at once both succeed.                                   *)
OnlyCrossedAreStale ==
    \A c \in Clients :
        doing[c] = "revive" /\ ~crossed[c] => \E r \in rows : r.id = First
================================================================================
