---------------------------- MODULE AlertLedger ----------------------------
(***************************************************************************)
(* What recent() promises the pages and the API that list the alerts: the  *)
(* newest alerts under ids that only grow, each channel of which is decided *)
(* once.  An alert leaves the list only because a newer one needs its       *)
(* place, the oldest first, or because the list is cleared.                 *)
(*                                                                          *)
(* The abstract specification that AlertDispatcher implements.              *)
(***************************************************************************)
EXTENDS Naturals, FiniteSets

CONSTANTS
    MaxRecords,   \* how many alerts are listed
    Channels

VARIABLES
    ledger,       \* id |-> the status of each channel, for the listed alerts
    next          \* the id of the next alert

Final == {"notSent", "sent", "failed", "skipped"}
Listed == DOMAIN ledger

Init ==
    /\ ledger = [id \in {} |-> {}]
    /\ next = 1

\* The alerts listed once a new one has come.
Newest ==
    LET all == Listed \union {next}
    IN  {id \in all : Cardinality({newer \in all : newer > id}) < MaxRecords}

Post ==
    /\ next' = next + 1
    /\ DOMAIN ledger' = Newest
    /\ ledger'[next] \in [Channels -> Final \union {"pending"}]
    /\ \A id \in Newest \ {next} : ledger'[id] = ledger[id]

(* Some pending channels of one alert get their outcome. *)
Settle ==
    \E id \in Listed, outcome \in Final \ {"notSent"} :
      \E settled \in SUBSET {c \in Channels : ledger[id][c] = "pending"} :
        /\ ledger' = [ledger EXCEPT ![id] = [c \in Channels |->
                         IF c \in settled THEN outcome ELSE ledger[id][c]]]
        /\ UNCHANGED next

Clear ==
    /\ ledger' = [id \in {} |-> {}]
    /\ UNCHANGED next

Next == Post \/ Settle \/ Clear

Spec == Init /\ [][Next]_<<ledger, next>>
=============================================================================
