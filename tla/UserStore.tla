---- MODULE UserStore ----
(***************************************************************************)
(* What opening the database promises: whatever file it finds, a fresh one *)
(* or one of release 1.2.0, the table is brought to the present layout at  *)
(* once or not at all, no row changes by that, and a bridge that serves    *)
(* has a table.                                                            *)
(***************************************************************************)
CONSTANTS Subs, Values, None

VARIABLES
    rows,    \* what is stored for each subject: [Subs -> Values or None]
    layout,  \* the columns of the table, "none" without a table
    ready    \* does a bridge serve from it?

storeVars == <<rows, layout, ready>>

NoRows == [s \in Subs |-> None]

StoreInit ==
    /\ layout \in {"none", "v1"}
    /\ rows \in [Subs -> Values \cup {None}]
    /\ layout = "none" => rows = NoRows
    /\ ready = FALSE

Upgrade ==
    /\ ~ready
    /\ layout' = "v2"
    /\ UNCHANGED <<rows, ready>>

Serve ==
    /\ layout # "none"
    /\ ready' = TRUE
    /\ UNCHANGED <<rows, layout>>

Change(s, v) ==
    /\ ready
    /\ rows' = [rows EXCEPT ![s] = v]
    /\ UNCHANGED <<layout, ready>>

Stop ==
    /\ ready' = FALSE
    /\ UNCHANGED <<rows, layout>>

StoreNext ==
    \/ Upgrade \/ Serve \/ Stop
    \/ \E s \in Subs, v \in Values \cup {None} : Change(s, v)

StoreSpec == StoreInit /\ [][StoreNext]_storeVars
====
