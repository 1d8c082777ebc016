------------------------------ MODULE MCSummarize ------------------------------
(***************************************************************************)
(* Instances of Summarize for TLC.  The articles a1 and a2 are the same    *)
(* story under one title (two fetch tasks stored it twice, original_url    *)
(* differs); a3 has a title of its own that resembles theirs.              *)
(***************************************************************************)
EXTENDS Summarize, TLC

CONSTANTS a1, a2, a3

MCTitleOf == [a \in Articles |-> IF a = a3 THEN "t2" ELSE "t1"]
MCKeyOf   == [a \in Articles |-> IF a = a3 THEN "k2" ELSE "k1"]
MCFetched == [a \in Articles |-> IF a = a1 THEN 1 ELSE IF a = a2 THEN 2 ELSE 3]
MCWords   == [a \in Articles |-> IF a = a3 THEN 20 ELSE 40]

MCTitles   == {"t1", "t2"}
MCKeys     == {"k1", "k2"}
MCAlike    == {<<t, t>> : t \in MCTitles}
MCSemAlike == MCTitles \X MCTitles

Flag(cap, top, words, sem) ==
    [summarize_enabled |-> TRUE, semantic_dedup_enabled |-> sem,
     max_daily_summaries |-> cap, min_words |-> words, top_n |-> top]

(* No operator tells the workers apart. *)
WorkerSymmetry == Permutations(Workers)

(* Lowering and raising the budget, the slice and the stub threshold. *)
SoloFlags    == {Flag(2, 3, 10, TRUE), Flag(1, 1, 30, FALSE)}
PreforkFlags == {Flag(1, 2, 10, TRUE)}
CapFlags     == {Flag(1, 3, 10, FALSE)}

(* Liveness: a1 fails in every run until a2 is there to copy from.  Then   *)
(* two rows have one title, and a3, which resembles them, fails on both    *)
(* until the younger one has left the window.                              *)
LiveFlags    == {Flag(4, 3, 10, TRUE)}
================================================================================
