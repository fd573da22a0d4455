------------------------------ MODULE Universe ------------------------------
(***************************************************************************)
(* The table ticker_universe: its queries (scripts/db/queries/universe.py) *)
(* and the plan by which scripts/tools/update_universe.py brings it in     *)
(* line with two snapshots: the current constituents of the S&P 500 with   *)
(* their sectors, and the symbols that stopped trading, with the close of  *)
(* their last trading day and the symbol that took over.                   *)
(*                                                                         *)
(* The table is a function on the symbols it knows.  Names and the dates   *)
(* of index membership are left out.                                       *)
(***************************************************************************)
EXTENDS Naturals, FiniteSets

CONSTANTS
    Symbols,      \* everything that is ever a ticker
    NoSymbol,     \* the absence of a successor
    SECTOR_ETFS,  \* the sectors that have a sector ETF
    NoSector      \* a sector that is not seeded

ASSUME UniverseAssumption ==
    IsFiniteSet(Symbols) /\ NoSymbol \notin Symbols /\ NoSector \notin SECTOR_ETFS

Listed == 0  \* delisted_at is NULL; times are positive

Row == [added : Nat, delisted : Nat, successor : Symbols \cup {NoSymbol},
        sp500 : BOOLEAN, sector : SECTOR_ETFS \cup {NoSector}]
IsTable(u) == DOMAIN u \subseteq Symbols /\ \A t \in DOMAIN u : u[t] \in Row

-----------------------------------------------------------------------------
(* Queries of the table u.                                                 *)

get_active_tickers(u) == {t \in DOMAIN u : u[t].delisted = Listed}

\* get_active_tickers(as_of), for the offline tools: they ask through get_universe_as_of,
\* which refuses an empty answer with an error, before a tool has done anything.
get_active_tickers_as_of(u, as_of) ==
    {t \in DOMAIN u : /\ u[t].added <= as_of
                      /\ u[t].delisted = Listed \/ u[t].delisted > as_of}

get_ticker_status(u, t) == IF t \notin DOMAIN u THEN "ticker_not_found"
                           ELSE IF u[t].delisted = Listed THEN "active" ELSE "delisted"

get_ticker_sector_map(u) ==
    [t \in {s \in DOMAIN u : u[s].sector # NoSector} |-> u[t].sector]

-----------------------------------------------------------------------------
(* The plan: u is the table, c maps the constituents to their sectors and  *)
(* x the symbols that stopped trading to [last, successor].                *)

\* Every symbol of x that the table knows, retired now or by an earlier run.
retired(u, x) == DOMAIN x \cap DOMAIN u

\* Fault: what is retired already is retired again.
FaultRetire(u, x) == retired(u, x)

PlanRetire(u, x) == {t \in retired(u, x) : u[t].delisted # x[t].last}

PlanFlag(u, c) == {t \in DOMAIN u : u[t].sp500 # (t \in DOMAIN c)}

PlanResector(u, c, x) ==
    {t \in DOMAIN u \cap DOMAIN c : t \notin DOMAIN x /\ u[t].sector # c[t]}

AddMembers(u, c, x) == DOMAIN c \ (DOMAIN u \cup DOMAIN x)

\* Successors that trade but are not in the index.
AddSuccessors(u, c, x) ==
    {x[t].successor : t \in DOMAIN x} \ ({NoSymbol} \cup DOMAIN u \cup DOMAIN c)

\* The sector of a predecessor, where the table has one.
Inherited(u, x, s) ==
    LET predecessor == CHOOSE t \in DOMAIN x : x[t].successor = s
    IN  IF predecessor \in DOMAIN u THEN u[predecessor].sector ELSE NoSector

plan_update(u, c, x) ==
    [retire |-> PlanRetire(u, x), flag |-> PlanFlag(u, c),
     resector |-> PlanResector(u, c, x),
     add |-> AddMembers(u, c, x) \cup AddSuccessors(u, c, x)]

NothingToDo == [retire |-> {}, flag |-> {}, resector |-> {}, add |-> {}]

\* The sector that the plan gives a symbol; the tool raises on one without an ETF.
PlannedSector(u, c, x, t) == IF t \in DOMAIN c THEN c[t] ELSE Inherited(u, x, t)
IsSound(u, c, x, plan) ==
    \A t \in plan.add \cup plan.resector : PlannedSector(u, c, x, t) \in SECTOR_ETFS

\* The table after the transaction: the statements in the tool's order touch
\* different columns, and an existing symbol is not inserted again.
Applied(u, c, x, plan, now) ==
    [t \in DOMAIN u \cup plan.add |->
        IF t \in DOMAIN u
        THEN [added |-> u[t].added,
              delisted |-> IF t \in plan.retire THEN x[t].last ELSE u[t].delisted,
              successor |-> IF t \in plan.retire THEN x[t].successor ELSE u[t].successor,
              sp500 |-> IF t \in plan.flag THEN t \in DOMAIN c ELSE u[t].sp500,
              sector |-> IF t \in plan.resector THEN c[t] ELSE u[t].sector]
        ELSE [added |-> now, delisted |-> Listed, successor |-> NoSymbol,
              sp500 |-> t \in DOMAIN c, sector |-> PlannedSector(u, c, x, t)]]
=============================================================================
