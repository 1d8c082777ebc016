------------------------------- MODULE FetchRounds -------------------------------
(***************************************************************************)
(* The fetch task over what its sources answer: Ingest with the rounds of  *)
(* Fetchers for its feeds.                                                 *)
(***************************************************************************)
EXTENDS Ingest, Fetchers

Replies == [ok : BOOLEAN, entries : Seq([item : Items, form : Forms])]

(* Every batch is what some round brings. *)
ASSUME RoundsAssumption ==
    /\ Rounds \subseteq [feeds : Seq(Replies), categories : Seq(Replies)]
    /\ Feeds \subseteq {Collected(round) : round \in Rounds}

(* What goes wrong with a source stays with it: whatever is refused,       *)
(* unusable or raises in a round, the run has all that the sound sources   *)
(* of the round offer, and the sound part of the others.                   *)
TroubleStaysLocal == \A w \in Workers : pc[w] = "hashes" => fetched[w] \in Batches
================================================================================
