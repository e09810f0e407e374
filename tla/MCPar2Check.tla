---------------------------- MODULE MCPar2Check ----------------------------
(***************************************************************************)
(* A file of one slice and one of two of which the last is half a slice of *)
(* a zero, every state of the disk up to these lengths; with archive and   *)
(* volume, the archive of another set whose name begins like this one's,   *)
(* and a backup.                                                           *)
(***************************************************************************)
EXTENDS MCPar2Repair, Par2Check

CONSTANTS archive, volume, otherArchive, backup

CheckData == << <<1, 1>>, <<0, 1, 0>> >>
CheckDisks == { <<f, g>> : f \in FilesUpTo(2), g \in FilesUpTo(3) }

MCCompanions == <<archive, otherArchive, volume>>
MCOwn == {archive, volume}
MCBackups == <<backup>>
=============================================================================
