------------------------------ MODULE Par2Check ------------------------------
(***************************************************************************)
(* The verify and repair commands on a PAR2 set: checkPar2 and purge       *)
(* (src/cmd/parchive/check.go) around Set.Verify and Set.RepairWith        *)
(* (module Par2Repair).  The recovery files parse to the recovery slices   *)
(* Exps; how they do is the subject of Par2Packets.                        *)
(*                                                                         *)
(* Which command it is and whether -p was given is decided where the code  *)
(* looks at it.  A command may be given again after it ended in whatever   *)
(* way.                                                                    *)
(***************************************************************************)
EXTENDS Par2Repair, SequencesExt

CONSTANTS
    Companions, \* what companions finds, in its order: the archive, then the
                \* other files whose names start with the archive's base name
    Own,        \* those of them that belong to the set
    Backups     \* files named like a protected one with ".1" at the end

ASSUME CheckAssumption ==
    /\ Companions # << >> /\ Companions[1] \in Own
    /\ Own \subseteq ToSet(Companions)

VARIABLES
    stage,      \* "idle", "verified", "repair", "repaired", "purge", "exited"
    exit,       \* how the last command ended, "none" while one is running
    rebuilt,    \* the files that were not fine before the repair
    present,    \* the companions and backups that are there
    purging     \* those that purge has still to remove, in its order

checkVars == <<stage, exit, rebuilt, present, purging>>

CheckInit ==
    /\ Init
    /\ stage = "idle" /\ exit = "none" /\ rebuilt = {} /\ purging = << >>
    /\ present = ToSet(Companions) \cup ToSet(Backups)

-----------------------------------------------------------------------------
(***************************************************************************)
(* Verify and what follows from it.  have and total differ by the slices   *)
(* that count as damaged.  Files it cannot open count as absent.           *)
(***************************************************************************)
Bad(loc) == { f \in Files : ~FileOK(disk, loc, f) }
Need(loc) == Cardinality(UNION { Damaged(loc, f) : f \in Files })
Available == Cardinality(Exps)

Exit(code) ==
    stage' = "exited" /\ exit' = code /\ rebuilt' = {} /\ purging' = << >>

\* With -p whatever companions finds now is removed, then the backups.
Purge ==
    /\ stage' = "purge" /\ exit' = "none" /\ rebuilt' = {}
    /\ purging' = SelectSeq(Companions, LAMBDA c : c \in present) \o Backups

Succeed == Exit("success") \/ Purge

\* A command is a process of its own: nothing is left of an earlier one.
NewProcess ==
    /\ pc' = "idle"
    /\ found' = EmptyMap /\ recovered' = EmptyMap
    /\ todo' = {} /\ cur' = 0 /\ built' = {}
    /\ unseen' = {} /\ unswept' = {} /\ torn' = {}

Command == stage \in {"idle", "exited"} /\ Companions[1] \in present

\* Parse fails: the archive is gone.
Insufficient ==
    /\ stage \in {"idle", "exited"} /\ Companions[1] \notin present
    /\ Exit("insufficient data")
    /\ UNCHANGED <<vars, present>>

\* Mutant of VerifyOutcome: if no recovery slice is needed all is taken to be well.
VerifyByCount(loc) ==
    \/ Need(loc) = 0 /\ Succeed
    \/ Need(loc) > 0 /\ Available >= Need(loc) /\ Exit("repair possible")
    \/ Available < Need(loc) /\ Exit("repair not possible")

\* All files are correct; or there are too few recovery slices; or verify is
\* over, and repair goes on.
VerifyOutcome(loc) ==
    \/ Bad(loc) = {} /\ Need(loc) = 0 /\ Succeed
    \/ Bad(loc) # {} /\ Available < Need(loc) /\ Exit("repair not possible")
    \/ Bad(loc) # {} /\ Available >= Need(loc) /\ Exit("repair possible")
    \/ /\ Bad(loc) # {} /\ Available >= Need(loc)
       /\ stage' = "verified" /\ exit' = "none"
       /\ rebuilt' = Bad(loc)
       /\ UNCHANGED purging

Verify ==
    /\ Command
    /\ \E cannotSee \in SUBSET Existing(disk), cannotSweep \in SUBSET Existing(disk) :
        Opening(cannotSee, cannotSweep) /\ VerifyOutcome(Locate(disk, cannotSee, cannotSweep))
    /\ NewProcess
    /\ UNCHANGED <<disk, tmp, present>>

-----------------------------------------------------------------------------
(***************************************************************************)
(* Set.Repair, every step of it.                                           *)
(***************************************************************************)
StartRepair ==
    /\ stage = "verified" /\ Begin
    /\ stage' = "repair"
    /\ UNCHANGED <<exit, rebuilt, present, purging>>

RunRepair ==
    /\ stage = "repair"
    /\ Step \/ Misread \/ SolveError \/ BuildError \/ RenameError
    /\ UNCHANGED checkVars

RepairFails ==
    /\ stage = "repair" /\ pc \in {"refused", "ioerror"}
    /\ Exit("repair failed")
    /\ UNCHANGED <<vars, present>>

RepairReturns ==
    /\ stage = "repair" /\ pc = "done"
    /\ stage' = "repaired"
    /\ UNCHANGED <<vars, exit, rebuilt, present, purging>>

\* Mutant of ReverifyOutcome: files that are back at their size are taken for good.
ReverifySizes(loc) ==
    IF \A f \in rebuilt : Len(disk[f]) = Len(Data[f]) THEN Succeed ELSE Exit("repair failed")

\* Only the files that were rebuilt are looked at again.
ReverifyOutcome(loc) ==
    IF rebuilt \cap Bad(loc) = {} THEN Succeed ELSE Exit("repair failed")

Reverify ==
    /\ stage = "repaired"
    /\ \E cannotSee \in SUBSET Existing(disk), cannotSweep \in SUBSET Existing(disk) :
        Opening(cannotSee, cannotSweep) /\ ReverifyOutcome(Locate(disk, cannotSee, cannotSweep))
    /\ UNCHANGED <<disk, tmp, pc, runVars, present>>

\* One file after the other; those that cannot be removed stay.
PurgeNext ==
    /\ stage = "purge" /\ purging # << >>
    /\ present' \in {present, present \ {Head(purging)}}
    /\ purging' = Tail(purging)
    /\ UNCHANGED <<vars, stage, exit, rebuilt>>

Purged ==
    /\ stage = "purge" /\ purging = << >>
    /\ Exit("success")
    /\ UNCHANGED <<vars, present>>

-----------------------------------------------------------------------------
(***************************************************************************)
(* Errors and crashes; those within the repair are Par2Repair's.           *)
(***************************************************************************)
\* Either Verify could not read a file.
VerifyError ==
    /\ Command \/ stage = "repaired"
    /\ Fault
    /\ Exit("file I/O error")
    /\ UNCHANGED <<disk, tmp, pc, runVars, present>>

\* RepairWith locates the slices again.
RepairLocateError ==
    /\ stage = "verified" /\ LocateError
    /\ Exit("repair failed")
    /\ UNCHANGED present

CrashInRepair ==
    /\ stage = "repair" /\ Crash
    /\ Exit("crashed")
    /\ UNCHANGED present

CrashInPurge ==
    /\ stage = "purge" /\ Fault
    /\ Exit("crashed")
    /\ UNCHANGED <<disk, tmp, pc, runVars, present>>

-----------------------------------------------------------------------------
CheckStep ==
    \/ StartRepair \/ RunRepair \/ RepairFails \/ RepairReturns
    \/ Reverify \/ PurgeNext \/ Purged
CheckNext ==
    \/ Insufficient \/ Verify \/ CheckStep
    \/ VerifyError \/ RepairLocateError \/ CrashInRepair \/ CrashInPurge

\* A command that was given proceeds; nothing obliges anyone to give one.
CheckSpec == CheckInit /\ [][CheckNext]_<<vars, checkVars>> /\ WF_<<vars, checkVars>>(CheckStep)

-----------------------------------------------------------------------------
\* Exit code 0 is the truth: every file of the set is as it was recorded,
\* whichever recovery slices the repair used and whichever reads broke off, since
\* what it wrote is verified again and what it did not write was verified before.
\* That leaves a file that was fine, could not be opened when the repair looked
\* for its slices, and was replaced: it is written and not verified again, so that
\* it is as recorded only if the repair had nothing else against it.
\* (check.go:189-224)
Unverified == IF Reliable /\ torn = {} THEN {} ELSE unseen

AllElseIntact == \A f \in Files : disk[f] = Data[f] \/ (unseen # {} /\ f \in Unverified)

SuccessMeansIntact == exit = "success" => AllElseIntact

\* Nothing is purged but while the data is as recorded in that sense, also after
\* commands that failed or were interrupted. (check.go:232-233)
PurgedOnlyWhenIntact == [][present' # present => AllElseIntact]_<<vars, checkVars>>

\* Every command comes to an end.
CommandEnds == stage # "idle" ~> stage = "exited"

\* check.go:22: companions lists the recovery files belonging to a set.
OthersStay == ToSet(Companions) \ Own \subseteq present
==============================================================================
