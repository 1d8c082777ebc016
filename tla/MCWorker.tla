-------------------------------- MODULE MCWorker --------------------------------
(***************************************************************************)
(* One process, as in docker-compose.prod.yml and start_worker.sh.         *)
(***************************************************************************)
EXTENDS Worker, TLC
================================================================================
