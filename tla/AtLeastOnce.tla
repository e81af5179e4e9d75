---------------------------- MODULE AtLeastOnce ----------------------------
(***************************************************************************)
(* What the command bus promises to the components around it.  A command   *)
(* that the broker accepted is worked on until it has an outcome, and it    *)
(* is settled (removed from the broker for good) only after the outcome     *)
(* exists: a result was published for it, or a copy of it was parked in the *)
(* failed queue.  A command whose body cannot be decoded is settled without *)
(* an outcome.  Nothing limits how many times a command gets an outcome:    *)
(* the promise is at least once, never exactly once.                        *)
(*                                                                          *)
(* CommandBus implements this module.                                       *)
(***************************************************************************)
CONSTANTS
    Commands,   \* the command messages
    Malformed   \* those whose body the consumer cannot decode

VARIABLES
    accepted,   \* commands the broker took responsibility for
    answered,   \* commands for which a result was published
    parked,     \* commands of which a copy reached the failed queue
    settled     \* commands the broker has forgotten

vars == <<accepted, answered, parked, settled>>

Init ==
    /\ accepted = {}
    /\ answered = {}
    /\ parked = {}
    /\ settled = {}

Accept(c) ==
    /\ accepted' = accepted \union {c}
    /\ UNCHANGED <<answered, parked, settled>>

Answer(c) ==
    /\ c \in accepted
    /\ answered' = answered \union {c}
    /\ UNCHANGED <<accepted, parked, settled>>

Park(c) ==
    /\ c \in accepted
    /\ parked' = parked \union {c}
    /\ UNCHANGED <<accepted, answered, settled>>

Settle(c) ==
    /\ c \in accepted
    /\ c \in answered \union parked \union Malformed
    /\ settled' = settled \union {c}
    /\ UNCHANGED <<accepted, answered, parked>>

Next == \E c \in Commands : Accept(c) \/ Answer(c) \/ Park(c) \/ Settle(c)

Spec == Init /\ [][Next]_vars
=============================================================================
