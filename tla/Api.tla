----------------------------------- MODULE Api -----------------------------------
(***************************************************************************)
(* The API process (app/main.py): it waits for the database before it      *)
(* serves, restarts when it dies or gives up (compose's unless-stopped),   *)
(* and its deaths take the requests to the flags and the subscribers along, *)
(* at whatever place they are.                                             *)
(***************************************************************************)
EXTENDS Naturals, FiniteSets, FeatureFlags, Subscribers

CONSTANTS
    MaxAttempts,   \* max_retries of _wait_for_db
    MaxInFlight,   \* bound: requests served at once
    MaxDeaths      \* bound: deaths of the process

ASSUME ApiAssumption == MaxAttempts \in Nat \ {0} /\ MaxInFlight \in Nat /\ MaxDeaths \in Nat

VARIABLES
    up,          \* "starting", "serving", or "down": nothing is accepted any more
    attempt,     \* number of the attempt of _wait_for_db
    db,          \* the database can be reached
    deaths       \* deaths so far

processVars == <<up, attempt, db, deaths>>
apiVars == <<vars, subscriberVars, processVars>>

Resting ==
    /\ \A a \in Admins : pc[a] = "idle"
    /\ \A c \in Clients : doing[c] = "idle"
InFlight ==
    Cardinality({a \in Admins : pc[a] # "idle"}) + Cardinality({c \in Clients : doing[c] # "idle"})

ApiInit ==
    /\ Init /\ SubscribersInit
    /\ up = "starting" /\ attempt = 1 /\ deaths = 0
    /\ db \in BOOLEAN

(* An attempt succeeds.                                                    *)
Connect ==
    /\ up = "starting" /\ db
    /\ up' = "serving"
    /\ UNCHANGED <<attempt, db, deaths, vars, subscriberVars>>

(* The last one that fails ends the process.  Faulty variant: with an exit *)
(* that nothing restarts.                                                  *)
ExitedForGood == "stopped"
Exited == "down"

Refused ==
    /\ up = "starting" /\ ~db
    /\ IF attempt = MaxAttempts THEN up' = Exited /\ UNCHANGED attempt
       ELSE attempt' = attempt + 1 /\ UNCHANGED up
    /\ UNCHANGED <<db, deaths, vars, subscriberVars>>

Restart ==
    /\ up = "down" /\ Resting
    /\ up' = "starting" /\ attempt' = 1
    /\ UNCHANGED <<db, deaths, vars, subscriberVars>>

Die ==
    /\ up \in {"starting", "serving"} /\ deaths < MaxDeaths
    /\ up' = "down" /\ deaths' = deaths + 1
    /\ UNCHANGED <<attempt, db, vars, subscriberVars>>

Outage ==
    /\ db' = ~db
    /\ UNCHANGED <<up, attempt, deaths, vars, subscriberVars>>

(* The flags are in Redis: they do not need the database.                  *)
FlagStep ==
    /\ \E a \in Admins :
          \/ up = "serving" /\ (Refuse(a) \/ Save(a) \/ Reset(a))
          \/ up = "serving" /\ InFlight < MaxInFlight /\ Load(a)
          \/ up # "starting" /\ Fail(a)
    /\ UNCHANGED <<subscriberVars, processVars>>

SubscriberStep ==
    /\ \E c \in Clients :
          \/ up = "serving" /\ db /\ Handle(c) /\ (doing[c] = "idle" => InFlight < MaxInFlight)
          \/ up = "serving" /\ Reply(c)
          \/ up # "starting" /\ Lose(c)
    /\ UNCHANGED <<vars, processVars>>

(* What is in flight ends with the process.                                *)
Perish ==
    up = "down" /\ (\/ (\E a \in Admins : Fail(a)) /\ UNCHANGED <<subscriberVars, processVars>>
                    \/ (\E c \in Clients : Lose(c)) /\ UNCHANGED <<vars, processVars>>)

ApiNext == Connect \/ Refused \/ Restart \/ Die \/ Outage \/ FlagStep \/ SubscriberStep

ApiSpec == ApiInit /\ [][ApiNext]_apiVars

FairApiSpec ==
    ApiSpec /\ WF_apiVars(Connect) /\ WF_apiVars(Refused) /\ WF_apiVars(Restart) /\ WF_apiVars(Perish)
-----------------------------------------------------------------------------
(* Once the database stays, the service comes up and stays, whatever it    *)
(* died of before and however often it gave up waiting.                    *)
ComesBack == <>[]db => <>[](up = "serving")
================================================================================
