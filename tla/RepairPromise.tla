---------------------------- MODULE RepairPromise ----------------------------
(***************************************************************************)
(* What a repair promises its caller (src/par2/repair.go, RepairWith and   *)
(* the comments on it), without a word on how it goes about it: protected  *)
(* files are replaced one at a time and whole, no slice that is right in   *)
(* its place is made wrong but those a fault may have spoilt, success      *)
(* means that all is back provided nothing was spoilt and the recovery     *)
(* data was of these files, and a repair always ends.                      *)
(***************************************************************************)
EXTENDS Par2Set

VARIABLES
    disk,       \* the protected files
    state,      \* "halted", "running", "done"
    sound,      \* whether the recovery data this repair uses is of these files
    spoilt      \* the slices this repair does not answer for

promiseVars == <<disk, state, sound, spoilt>>

\* The slices that are right in their place.
Right(d) ==
    { s \in Slices :
        /\ d[s[1]] # Absent /\ Offset(s) < Len(d[s[1]])
        /\ WindowAt(d, Home(s)) = DataOf(s) }

PromiseInit == disk \in Disk /\ state = "halted" /\ sound \in BOOLEAN /\ spoilt \in SUBSET Slices

\* A repair begins, or finds nothing to do.
Start ==
    /\ state # "running"
    /\ sound' \in BOOLEAN /\ spoilt' \in SUBSET Slices
    /\ state' = "running" \/ (state' = "done" /\ disk = Intact)
    /\ UNCHANGED disk

\* A read breaks off unnoticed.
Spoil ==
    /\ state = "running"
    /\ spoilt \subseteq spoilt' /\ spoilt' \in SUBSET Slices
    /\ UNCHANGED <<disk, state, sound>>

\* One file is replaced, perhaps the last one.
Replace ==
    /\ state = "running"
    /\ \E f \in Files :
        /\ \A h \in Files \ {f} : disk'[h] = disk[h]
        /\ disk'[f] # Absent /\ Len(disk'[f]) = Len(Data[f])
    /\ Right(disk) \ spoilt \subseteq Right(disk')
    /\ state' = "running" \/ (state' = "done" /\ (sound /\ spoilt = {} => disk' = Intact))
    /\ UNCHANGED <<sound, spoilt>>

\* An error or the end of the process.
GiveUp ==
    /\ state' = "halted"
    /\ UNCHANGED <<disk, sound, spoilt>>

PromiseNext == Start \/ Spoil \/ Replace \/ GiveUp

PromiseSafety == PromiseInit /\ [][PromiseNext]_promiseVars

\* Whatever is begun ends.
PromiseSpec == PromiseSafety /\ (state = "running" ~> state # "running")
==============================================================================
