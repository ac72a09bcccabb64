---------------------------- MODULE MCWorkClaims ----------------------------
(***************************************************************************)
(* Instances of WorkClaims for TLC: calls that overlap on the database     *)
(* Driver, and calls that come one after another on Postgres.              *)
(***************************************************************************)
EXTENDS WorkClaims, FiniteSets, TLC

VARIABLE database  \* the one that this behaviour runs on

Postgres == INSTANCE WorkClaims WITH Driver <- "postgres"

OneAtATime == Cardinality({r \in Requests : req[r].pc # "idle"}) <= 1

ClaimsInit == Init /\ database \in {Driver, "postgres"}

ClaimsNext ==
    /\ UNCHANGED database
    /\ \/ database = Driver /\ Next
       \/ database # Driver /\ Postgres!Next /\ OneAtATime'

ClaimsSpec == ClaimsInit /\ [][ClaimsNext]_<<vars, database>>

Symmetry == Permutations(Requests) \cup Permutations(Holders)
=============================================================================
