-------------------------- MODULE CommandPermission --------------------------
(***************************************************************************)
(* What the transmit tutorial promises about motor commands, without       *)
(* heartbeats, ticks or a CAN peripheral: one press of the arm switch buys *)
(* at most one permission, a permission can be revoked at any time and is  *)
(* then gone until the next press, a fault locks the machine for good, and *)
(* a command goes out under a permission only.                             *)
(***************************************************************************)
EXTENDS Integers

VARIABLES
    press,         \* the arm switch: "released", "pressed" or "spent"
    permission,    \* a command may be handed over
    locked,        \* a fault was seen
    outbox         \* commands handed over and not yet on the bus

vars == <<press, permission, locked, outbox>>

Init ==
    /\ press = "released"
    /\ permission = FALSE
    /\ locked = FALSE
    /\ outbox = 0

Press ==
    /\ press = "released"
    /\ press' = "pressed"
    /\ UNCHANGED <<permission, locked, outbox>>

Release ==
    /\ press' = "released"
    /\ permission' = FALSE
    /\ UNCHANGED <<locked, outbox>>

Grant ==
    /\ press = "pressed"
    /\ ~locked
    /\ press' = "spent"
    /\ permission' = TRUE
    /\ UNCHANGED <<locked, outbox>>

Revoke ==
    /\ permission' = FALSE
    /\ UNCHANGED <<press, locked, outbox>>

Lock ==
    /\ locked' = TRUE
    /\ permission' = FALSE
    /\ UNCHANGED <<press, outbox>>

HandOver ==
    /\ permission
    /\ press = "spent"
    /\ ~locked
    /\ outbox' = outbox + 1
    /\ UNCHANGED <<press, permission, locked>>

Sent ==
    /\ outbox > 0
    /\ outbox' = outbox - 1
    /\ UNCHANGED <<press, permission, locked>>

Next == Press \/ Release \/ Grant \/ Revoke \/ Lock \/ HandOver \/ Sent

Spec == Init /\ [][Next]_vars
==============================================================================
