----------------------------- MODULE HalfDuplex -----------------------------
(***************************************************************************)
(* What the radio front end promises, without its registers, pins and      *)
(* phases: the air has one owner at a time, an owner always gives it back, *)
(* and nothing but a carrier test can be interrupted by another owner.     *)
(***************************************************************************)

VARIABLES
    owner,      \* who uses the air
    carrierOn   \* the owner is a carrier test: it returned to its caller

hvars == <<owner, carrierOn>>

Owners == {"cc1101", "stx882", "srx882"}

TypeOK ==
    /\ owner \in Owners \cup {"down", "free"}
    /\ carrierOn \in BOOLEAN

Init == owner = "down" /\ carrierOn = FALSE

Boot ==
    /\ owner = "down"
    /\ owner' = "free"
    /\ UNCHANGED carrierOn

Acquire(o) ==
    /\ owner = "free"
    /\ owner' = o
    /\ UNCHANGED carrierOn

\* The CC1101 goes on sending after the call that started it returned.
Detach ==
    /\ owner = "cc1101"
    /\ ~carrierOn
    /\ carrierOn' = TRUE
    /\ UNCHANGED owner

\* A call made during a carrier test takes the air from it.
Preempt(o) ==
    /\ owner = "cc1101"
    /\ carrierOn
    /\ owner' = o
    /\ UNCHANGED carrierOn

Release ==
    /\ owner \in Owners
    /\ owner' = "free"
    /\ carrierOn' \in {carrierOn, FALSE}

\* The carrier test's time is up after the air was taken from it and freed.
Expire ==
    /\ owner = "free"
    /\ carrierOn
    /\ owner' = "cc1101"
    /\ carrierOn' = FALSE

\* The carrier test's time is up while it still holds the air.
Stop ==
    /\ owner = "cc1101"
    /\ carrierOn
    /\ carrierOn' = FALSE
    /\ UNCHANGED owner

Crash == owner # "down" /\ owner' = "down" /\ carrierOn' = FALSE

Next ==
    \/ Boot
    \/ \E o \in Owners : Acquire(o) \/ Preempt(o)
    \/ Detach \/ Release \/ Expire \/ Stop \/ Crash

Safety == Init /\ [][Next]_hvars

Spec == Safety /\ WF_hvars(Boot) /\ WF_hvars(Release)
=============================================================================
