---------------------------- MODULE OfflineTools ----------------------------
(***************************************************************************)
(* The two tools that overwrite what was stored, run at any time beside    *)
(* each other: the rescoring of rows (NarrativeRuns) and the replacement   *)
(* of signals (SignalSwap).                                                *)
(***************************************************************************)
EXTENDS NarrativeRuns, SignalSwap

ToolsInit(F) == ToolInit(F) /\ SwapInit

ToolsNext ==
    \/ ToolNext /\ UNCHANGED swapVars
    \/ SwapNext /\ UNCHANGED toolVars

ToolsSpec(F) == ToolsInit(F) /\ [][ToolsNext]_<<toolVars, swapVars>>

\* However often the tools are run, interrupted and run again, what is rebuilt is rebuilt
\* from what was there at first, and nothing is overwritten that no archive was made of.
OriginalsAreSafe == OriginalsAreKept /\ DeletedIsSaved
=============================================================================
