---------------------------- MODULE NarrativeRuns ----------------------------
(***************************************************************************)
(* The runs of the tool that rescores the rows of a news outage            *)
(* (scripts/backfill/rebuild_narrative.py): it archives the rows there     *)
(* are, and updates a ticker per transaction.  What it computes for a row  *)
(* is in NarrativeRebuild; here any function of a ticker's rows will do.   *)
(***************************************************************************)

CONSTANT Rescore(_, _, _)   \* the values of rows, a seed and articles, rebuilt

VARIABLES found,     \* found[t]: the values of the rows of ticker t in the range, their seed, the articles
          table,     \* table[t]: the rows of ticker t
          archive,   \* the archive file: what the table was, or <<>>
          sidecar,   \* whether the meta file says that the archive is complete
          tool,      \* "idle" or "running"
          updates    \* updates[t]: rows computed for ticker t and not yet written

toolVars == <<found, table, archive, sidecar, tool, updates>>

RUN_ID == "rebuilt"

\* Rows with the run that wrote them, and their values.
Marked(values, replay_run) ==
    [i \in DOMAIN values |-> [values |-> values[i], replay_run |-> replay_run]]
ValuesOf(marked) == [i \in DOMAIN marked |-> marked[i].values]

ToolInit(F) ==
    /\ found \in F
    /\ table = [t \in DOMAIN found |-> Marked(found[t].rows, "live")]
    /\ archive = <<>> /\ sidecar = FALSE
    /\ tool = "idle" /\ updates = <<>>

\* --archive-only: the file is renamed into place, then the sidecar is written, unless
\* the process ends in between.
archive_originals ==
    /\ tool = "idle"
    /\ archive' = table /\ sidecar' \in {sidecar, TRUE}
    /\ UNCHANGED <<found, table, tool, updates>>

_archive_ok == archive # <<>> /\ sidecar /\ \E t \in DOMAIN archive : archive[t] # <<>>

StartTool ==
    /\ tool = "idle" /\ _archive_ok /\ tool' = "running"
    /\ UNCHANGED <<found, table, archive, sidecar, updates>>

\* A ticker all of whose rows have been rebuilt is skipped.
LoadTicker(t) ==
    /\ tool = "running" /\ t \notin DOMAIN updates
    /\ \E i \in DOMAIN table[t] : table[t][i].replay_run # RUN_ID
    /\ updates' = [u \in DOMAIN updates \cup {t} |->
          IF u = t THEN Marked(Rescore(ValuesOf(table[t]), found[t].seed, found[t].articles), RUN_ID)
          ELSE updates[u]]
    /\ UNCHANGED <<found, table, archive, sidecar, tool>>

\* The transaction of a ticker, or its failure, whereupon the others go on.
UpdateTicker(t) ==
    /\ tool = "running" /\ t \in DOMAIN updates
    /\ table' \in {[table EXCEPT ![t] = updates[t]], table}
    /\ updates' = [u \in DOMAIN updates \ {t} |-> updates[u]]
    /\ UNCHANGED <<found, archive, sidecar, tool>>

\* It returns, or is killed.
EndTool ==
    /\ tool = "running" /\ tool' = "idle" /\ updates' = <<>>
    /\ UNCHANGED <<found, table, archive, sidecar>>

ToolNext ==
    \/ archive_originals \/ StartTool \/ EndTool
    \/ \E t \in DOMAIN found : LoadTicker(t) \/ UpdateTicker(t)

-----------------------------------------------------------------------------

Originally(t) == Marked(found[t].rows, "live")
Rebuilt(t) == Marked(Rescore(found[t].rows, found[t].seed, found[t].articles), RUN_ID)

\* Whatever fails and however often the tool is run, the rows of a ticker are all as they
\* were or all rebuilt from what they were, never rebuilt from rebuilt ones; and no row is
\* rebuilt without an archive, which has those of a ticker all as they were unless it was
\* made again since.
OriginalsAreKept ==
    \A t \in DOMAIN found :
        /\ table[t] \in {Originally(t), Rebuilt(t)}
        /\ table[t] # Originally(t) => archive # <<>> /\ archive[t] \in {Originally(t), table[t]}
        /\ t \in DOMAIN updates => updates[t] = Rebuilt(t)
=============================================================================
