------------------------------- MODULE MCProvider -------------------------------
(***************************************************************************)
(* Two ticks for an article.  In the code these are 45 seconds; each       *)
(* connect, write and read of a request has 30 with Groq, a read 60 and a  *)
(* connect 10 with Bedrock.  Groq's library makes four requests for a      *)
(* call, Bedrock's three (the "max_attempts" of botocore's Config counts   *)
(* the retries).                                                           *)
(***************************************************************************)
EXTENDS Provider, TLC

MCRequestTime == [groq |-> 1, bedrock |-> 3]
MCRequests    == [groq |-> 4, bedrock |-> 2]
MCPauseTime   == [groq |-> 2, bedrock |-> 1]
================================================================================
