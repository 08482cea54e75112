-------------------------- MODULE MCScratchpadSessions --------------------------
(* Instances of ScratchpadSessions for TLC.                                  *)
EXTENDS ScratchpadSessions, TLC

ToolOps == AllOps \ {"note_created", "note_rows", "count"}
(* All but query, list and limits, whose regions open and touch sessions as  *)
(* those of open and drop do and which then only read.                       *)
RaceOps == AllOps \ {"query", "list", "limits"}
IngestOps == {"open", "create", "append", "query"}
DropRaceOps == {"open", "create", "drop"}
CloseRaceOps == {"open", "close", "create"}

(* No action reads "unremoved": it only records.                             *)
WithoutRecord == <<ledger, limits, disk, thread, removals>>

Interchangeable ==
  Permutations(Sessions) \cup Permutations(Tables) \cup Permutations(Clients)
=============================================================================
