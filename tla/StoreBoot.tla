------------------------------- MODULE StoreBoot ------------------------------
(***************************************************************************)
(* The kernel's boot policy for the object store (run_store_demo() in       *)
(* kernel/boot/main.c): mount the disk; format it when the mount fails; stop *)
(* until the next boot when the format fails.  The kernel does not remount a *)
(* quarantined store.                                                       *)
(***************************************************************************)
EXTENDS ObjectStore

VARIABLE phase  \* "mount", "format", "formatting", "running" or "stopped"

bootVars == <<vars, phase>>

BootInit == Init /\ phase = "mount"

\* A step of the mount, of the format or of a call of the running kernel.
BootStep ==
    /\ phase \in {"mount", "formatting", "running"}
    /\ ~recovery_required
    /\ StoreStep
    /\ phase' = CASE pc' = "ready" -> "running"
                  [] pc' = "failed" /\ phase = "mount" -> "format"
                  [] pc' = "failed" /\ phase # "mount" -> "stopped"
                  [] OTHER -> phase

BootFormat == phase = "format" /\ object_store_format /\ phase' = "formatting"

PowerCycle == Crash /\ phase' = "mount"

BootNext == BootStep \/ BootFormat \/ PowerCycle

BootSpec == BootInit /\ [][BootNext]_bootVars

\* The kernel formats only a disk that holds no valid store: kernel/boot/main.c
\* announces "no valid store on disk; formatting".
FormatsOnlyWithoutStore == phase = "format" => ~HasSuperblock(visible)
===============================================================================
