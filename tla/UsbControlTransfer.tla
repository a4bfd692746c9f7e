------------------------- MODULE UsbControlTransfer -------------------------
(***************************************************************************)
(* What a USB control transfer promises, seen from the host: a SETUP       *)
(* stage, a data stage in the direction of the request if it has one, then *)
(* a status stage in the other direction; only a transfer whose status     *)
(* stage was reached can complete.  At any point it may halt or be given   *)
(* up, and the next transfer starts again from SETUP.                      *)
(***************************************************************************)
CONSTANTS Kinds, HasData(_), IsToHost(_)

VARIABLES kind,   \* the request of the current transfer
          stage,  \* "none", "setup", "data in", "data out", "status in",
                  \* "status out" or "halted"
          result  \* "pending", "ok" or "failed"

tvars == <<kind, stage, result>>

Init == kind \in Kinds /\ stage = "none" /\ result = "failed"

\* Between two transfers the packet of the next one may be written early.
Prepare == stage = "none" /\ kind' \in Kinds /\ UNCHANGED <<stage, result>>

Begin ==
  /\ stage = "none"
  /\ kind' \in Kinds /\ stage' = "setup" /\ result' = "pending"

Data ==
  /\ stage = "setup" /\ HasData(kind)
  /\ stage' = IF IsToHost(kind) THEN "data in" ELSE "data out"
  /\ UNCHANGED <<kind, result>>

\* The NAK of an OUT stage repeats that stage, never an earlier one.
Status ==
  /\ \/ stage = "setup" /\ ~HasData(kind)
     \/ stage \in {"data in", "data out"}
  /\ stage' = IF IsToHost(kind) THEN "status out" ELSE "status in"
  /\ UNCHANGED <<kind, result>>

Halt ==
  /\ stage # "none"
  /\ stage' = "halted" /\ UNCHANGED <<kind, result>>

Complete ==
  /\ stage \in {"status in", "status out"}
  /\ stage' = "none" /\ result' = "ok" /\ UNCHANGED kind

\* Failed or abandoned, from any stage; a request may also be refused before
\* it begins.
GiveUp ==
  /\ stage' = "none" /\ result' = "failed" /\ kind' \in Kinds

Next == Prepare \/ Begin \/ Data \/ Status \/ Halt \/ Complete \/ GiveUp
Spec == Init /\ [][Next]_tvars
=============================================================================
