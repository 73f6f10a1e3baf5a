---- MODULE Lifecycle ----
(***************************************************************************)
(* cmd/bridge/main.go: waiting for Emby with a deadline, serving, and      *)
(* shutting down while handlers, and goroutines they have left behind,     *)
(* use the connection pool of internal/db/sqlite.go.  The pool             *)
(* (sqlitex.Pool) is external: Take waits for a free connection, first     *)
(* come first served, and fails once the pool is closed; Close interrupts  *)
(* statements and waits for all connections to come back.                  *)
(***************************************************************************)
EXTENDS Naturals, FiniteSets

CONSTANTS
    Handlers,     \* requests being handled at once
    Goroutines,   \* image goroutines at once: the background work with statements
    PoolSize,     \* PoolOptions.PoolSize
    Budget,       \* ticks until startupDeadline
    CallTimeout,  \* ticks an Emby call may take
    Pause,        \* ticks of Sleep between attempts
    Drain,        \* ticks Shutdown waits for handlers
    MaxTime       \* a bound on the ticks of one startup

Tasks == Handlers \cup Goroutines

ASSUME TasksAssumption == Handlers \cap Goroutines = {} /\ IsFiniteSet(Tasks)
ASSUME NumbersAssumption ==
    /\ PoolSize \in Nat \ {0} /\ Budget \in Nat /\ CallTimeout \in Nat
    /\ Pause \in Nat /\ Drain \in Nat
    /\ MaxTime \in Nat /\ MaxTime > Budget + CallTimeout + Pause

VARIABLES
    pc,      \* what main does; "down" without a process
    time,    \* ticks since startupDeadline was set, or since the signal
    spell,   \* ticks of the present call or pause
    task,    \* what each task does
    free     \* connections in the pool

vars == <<pc, time, spell, task, free>>

Waiting == {"check", "find", "sleep"}

TypeOK ==
    /\ pc \in {"down", "load", "open", "policy", "serve", "drain", "close"} \cup Waiting
    /\ time \in 0..MaxTime
    /\ spell \in 0..CallTimeout + Pause
    /\ task \in [Tasks -> {"none", "work", "take", "statement"}]
    /\ free \in 0..PoolSize

NoTasks == [t \in Tasks |-> "none"]

Init ==
    /\ pc = "down"
    /\ time = 0
    /\ spell = 0
    /\ task = NoTasks
    /\ free = PoolSize

----------------------------------------------------------------------------
(* main, until it serves.  log.Fatalf and the end of main stop everything;  *)
(* the container is then started again.                                     *)

Exit ==
    /\ pc' = "down"
    /\ time' = 0
    /\ spell' = 0
    /\ task' = NoTasks
    /\ free' = PoolSize

Start ==
    /\ pc = "down"
    /\ pc' = "load"
    /\ UNCHANGED <<time, spell, task, free>>

\* config.Load
Load ==
    /\ pc = "load"
    /\ \/ pc' = "open" /\ UNCHANGED <<time, spell, task, free>>
       \/ Exit

\* db.Open, and the deadline is set.
OpenDatabase ==
    /\ pc = "open"
    /\ \/ pc' = "check" /\ UNCHANGED <<time, spell, task, free>>
       \/ Exit

\* Variant of CheckDeadline: no deadline.
CheckNothing ==
    /\ pc = "check"
    /\ pc' = "find"
    /\ UNCHANGED <<time, spell, task, free>>

\* The deadline is only looked at between attempts.
CheckDeadline ==
    /\ pc = "check"
    /\ \/ time > Budget /\ Exit
       \/ time <= Budget /\ pc' = "find" /\ UNCHANGED <<time, spell, task, free>>

\* FindUserByName of the template user: an error, none, or found.
FindTemplate ==
    /\ pc = "find"
    /\ \/ pc' \in {"sleep", "policy"} /\ spell' = 0 /\ UNCHANGED <<time, task, free>>
       \/ Exit

Sleep ==
    /\ pc = "sleep" /\ spell = Pause
    /\ pc' = "check"
    /\ spell' = 0
    /\ UNCHANGED <<time, task, free>>

\* GetUserPolicy of the template user, and the routes are served.
FetchPolicy ==
    /\ pc = "policy"
    /\ \/ pc' = "serve" /\ time' = 0 /\ spell' = 0 /\ UNCHANGED <<task, free>>
       \/ Exit

----------------------------------------------------------------------------
(* Handlers and goroutines, as far as they use the pool.                    *)

Move(t, from, to) ==
    /\ task[t] = from
    /\ task' = [task EXCEPT ![t] = to]
    /\ UNCHANGED <<pc, time, spell>>

\* A request arrives; Shutdown closes the listeners.
Request(h) == pc = "serve" /\ Move(h, "none", "work") /\ UNCHANGED free

\* A handler starts the image goroutine and goes on.
Spawn(h, g) == task[h] = "work" /\ Move(g, "none", "work") /\ UNCHANGED free

\* The next database statement: pool.Take with the background context.
Ask(t) == Move(t, "work", "take") /\ UNCHANGED free

Take(t) ==
    /\ pc # "close"
    /\ free > 0
    /\ free' = free - 1
    /\ Move(t, "take", "statement")

\* Variant of TakeFails: defer pool.Put although Take failed.
TakeFailsPuts(t) == pc = "close" /\ Move(t, "take", "work") /\ free' = free + 1

\* The pool is closed: the statement fails, which handlers answer with 500 and
\* goroutines log.
TakeFails(t) == pc = "close" /\ Move(t, "take", "work") /\ UNCHANGED free

\* Variant of Put: a failed statement keeps its connection.
PutOnSuccess(t) == Move(t, "statement", "work") /\ free' \in {free, free + 1}

\* The statement succeeds, fails or is interrupted; defer pool.Put.
Put(t) == Move(t, "statement", "work") /\ free' = free + 1

\* The handler answers, the goroutine ends.
Finish(t) == Move(t, "work", "none") /\ UNCHANGED free

----------------------------------------------------------------------------
(* Shutdown.                                                                *)

\* SIGINT or SIGTERM.
Signal ==
    /\ pc = "serve"
    /\ pc' = "drain"
    /\ UNCHANGED <<time, spell, task, free>>

\* server.Shutdown returns when no request is being handled any more, or after
\* 15 seconds; it knows nothing of the goroutines.
Shutdown ==
    /\ pc = "drain"
    /\ (\A h \in Handlers : task[h] = "none") \/ time = Drain
    /\ pc' = "close"
    /\ UNCHANGED <<time, spell, task, free>>

\* The deferred database.Close, and main returns.
Close ==
    /\ pc = "close"
    /\ free = PoolSize
    /\ Exit

\* ListenAndServe fails, or the process is killed.
Crash ==
    /\ pc # "down"
    /\ Exit

\* No call takes longer than its timeout, no pause than its length.
Tick ==
    /\ \/ pc \in {"find", "policy"} /\ spell < CallTimeout
       \/ pc = "sleep" /\ spell < Pause
       \/ pc = "drain" /\ time < Drain
    /\ time < MaxTime
    /\ time' = time + 1
    /\ spell' = IF pc \in {"find", "policy", "sleep"} THEN spell + 1 ELSE spell
    /\ UNCHANGED <<pc, task, free>>

Main ==
    \/ Start \/ Load \/ OpenDatabase \/ CheckDeadline \/ FindTemplate \/ Sleep
    \/ FetchPolicy \/ Shutdown \/ Close
Run(t) == TakeFails(t) \/ Put(t) \/ Finish(t)

Next ==
    \/ Main
    \/ \E h \in Handlers : Request(h) \/ \E g \in Goroutines : Spawn(h, g)
    \/ \E t \in Tasks : Ask(t) \/ Take(t) \/ Run(t)
    \/ Signal \/ Crash \/ Tick

Spec == Init /\ [][Next]_vars

\* main and its tasks go on, time passes, and whoever waits for a connection is
\* not passed over for ever.
FairSpec ==
    /\ Spec
    /\ WF_vars(Main) /\ WF_vars(Tick)
    /\ \A t \in Tasks : WF_vars(Run(t)) /\ SF_vars(Take(t))

----------------------------------------------------------------------------

\* A bridge that waits for Emby gives up, if not at the deadline, then after
\* the attempt and the pause that were under way when it passed.
GivesUpInTime == pc \in Waiting => time <= Budget + CallTimeout + Pause

\* "Timeout after 60 seconds to avoid hanging indefinitely".
GivesUpAtDeadline == pc \in Waiting => time <= Budget

\* No connection is lost or given back twice, whatever fails and whoever gives
\* up waiting: those that are not in the pool are in statements, one each.  Close,
\* which waits for all of them, and every Take rely on it.
NoConnectionLost == free = PoolSize - Cardinality({t \in Tasks : task[t] = "statement"})

\* No statement waits for ever, although all connections may be taken and Take
\* has no deadline: nobody keeps a connection while waiting.  Needs FairSpec.
StatementsServed == \A t \in Tasks : task[t] = "take" ~> task[t] # "take"

\* Whatever handlers and goroutines are about, a bridge told to stop does.
\* Needs FairSpec.
Stops == pc = "drain" ~> pc = "down"
====
