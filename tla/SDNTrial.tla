------------------------------ MODULE SDNTrial ------------------------------
(***************************************************************************)
(* What commit-confirm promises an admin, free of files, processes and     *)
(* crashes: a configuration is kept until another one is adopted outright  *)
(* or tried and confirmed; a confirmation keeps exactly what was tried,    *)
(* and a trial that is reverted leaves no trace.                           *)
(***************************************************************************)
CONSTANTS Config, NoTrial

VARIABLES kept,    \* the configuration a reboot would bring up
          trial,   \* the change waiting for "All good", or NoTrial
          verdict  \* what is being done about it: "none", "keep" or "drop"

Init == kept \in Config /\ trial = NoTrial /\ verdict = "none"

(* Apply with auto-revert ... *)
Try(c) ==
    /\ trial = NoTrial /\ trial' = c
    /\ UNCHANGED <<kept, verdict>>

(* ... which the admin confirms, or which is reverted by the admin, the end *)
(* of the countdown, the boot or a failure of the apply itself.             *)
Decide(v) ==
    /\ trial # NoTrial /\ verdict = "none" /\ verdict' = v
    /\ UNCHANGED <<kept, trial>>

(* A reboot interrupts either; the trial is still on. *)
Forget == verdict' = "none" /\ UNCHANGED <<kept, trial>>

(* A confirmation, and nothing else, keeps what was tried ... *)
Keep ==
    /\ verdict = "keep"
    /\ kept' = trial /\ trial' = NoTrial /\ verdict' = "none"

(* ... and anything but a confirmation keeps what there was before. *)
Drop ==
    /\ trial # NoTrial /\ verdict # "keep"
    /\ kept' = kept /\ trial' = NoTrial /\ verdict' = "none"

(* Apply without auto-revert, and changes of instance forwards. *)
Adopt(c) ==
    /\ trial = NoTrial /\ kept' = c
    /\ UNCHANGED <<trial, verdict>>

Next ==
    \/ Forget \/ Keep \/ Drop
    \/ \E v \in {"keep", "drop"} : Decide(v)
    \/ \E c \in Config : Try(c) \/ Adopt(c)

Spec == Init /\ [][Next]_<<kept, trial, verdict>>
=============================================================================
