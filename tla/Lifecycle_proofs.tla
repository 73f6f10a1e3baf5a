---- MODULE Lifecycle_proofs ----
(***************************************************************************)
(* The safety invariants of Lifecycle, for every number of handlers,       *)
(* goroutines and connections and all lengths of time.                     *)
(***************************************************************************)
EXTENDS Lifecycle, FiniteSetTheorems, TLAPS

\* The tasks that have a connection.
Using == {t \in Tasks : task[t] = "statement"}

\* What time and spell say of each other at every step of the wait for Emby.
WaitInv ==
    /\ pc \in {"down", "load", "open"} => time = 0 /\ spell = 0
    /\ pc = "check" => spell = 0 /\ time <= Budget + CallTimeout + Pause
    /\ pc = "find" => spell <= CallTimeout /\ time <= Budget + spell
    /\ pc = "sleep" => spell <= Pause /\ time <= Budget + CallTimeout + spell

IInv == TypeOK /\ NoConnectionLost /\ WaitInv

----------------------------------------------------------------------------

LEMMA UsingFinite == IsFiniteSet(Using) /\ Cardinality(Using) \in Nat
<1>1. Using \in SUBSET Tasks
  BY DEF Using
<1> QED
  BY <1>1, TasksAssumption, FS_Subset, FS_CardinalityType

\* Nothing is in use when no task is about.
LEMMA PoolFull == task = NoTasks => Using = {} /\ Cardinality(Using) = 0
BY FS_EmptySet DEF NoTasks, Using

\* A process that ends leaves all as at the start.
LEMMA ExitKeepsInv ==
    ASSUME Exit
    PROVE  IInv'
<1>1. task' = NoTasks /\ free' = PoolSize /\ pc' = "down" /\ time' = 0 /\ spell' = 0
  BY DEF Exit
<1>2. Using' = {}
  BY <1>1 DEF NoTasks, Using
<1>3. Cardinality(Using') = 0
  BY <1>2, FS_EmptySet
<1>4. NoConnectionLost'
  BY <1>1, <1>3, NumbersAssumption DEF NoConnectionLost, Using
<1>5. TypeOK'
  BY <1>1, NumbersAssumption DEF TypeOK, NoTasks, Waiting
<1> QED
  BY <1>1, <1>4, <1>5 DEF IInv, WaitInv

\* Tasks that start, ask and finish leave the pool as it is.
LEMMA MoveKeepsPool ==
    ASSUME IInv, NEW t \in Tasks, NEW from, NEW to,
           from # "statement", to # "statement",
           Move(t, from, to), UNCHANGED free
    PROVE  NoConnectionLost'
<1>1. Using' = Using
  BY DEF Move, Using, IInv, TypeOK
<1> QED
  BY <1>1 DEF NoConnectionLost, Using, IInv

LEMMA TakeKeepsPool ==
    ASSUME IInv, NEW t \in Tasks, Take(t)
    PROVE  NoConnectionLost' /\ free' \in 0..PoolSize
<1>1. task' = [task EXCEPT ![t] = "statement"] /\ task[t] = "take" /\ free > 0 /\ free' = free - 1
  BY DEF Take, Move
<1>2. Using' = Using \cup {t} /\ t \notin Using
  BY <1>1 DEF Using, IInv, TypeOK
<1>3. Cardinality(Using') = Cardinality(Using) + 1
  BY <1>2, UsingFinite, FS_AddElement
<1>4. free \in 0..PoolSize /\ PoolSize \in Nat
  BY NumbersAssumption DEF IInv, TypeOK
<1> QED
  BY <1>1, <1>3, <1>4, UsingFinite DEF NoConnectionLost, Using, IInv

LEMMA PutKeepsPool ==
    ASSUME IInv, NEW t \in Tasks, Put(t)
    PROVE  NoConnectionLost' /\ free' \in 0..PoolSize
<1>1. task' = [task EXCEPT ![t] = "work"] /\ task[t] = "statement" /\ free' = free + 1
  BY DEF Put, Move
<1>2. Using' = Using \ {t} /\ t \in Using
  BY <1>1 DEF Using, IInv, TypeOK
<1>3. Cardinality(Using') = Cardinality(Using) - 1 /\ IsFiniteSet(Using')
  BY <1>2, UsingFinite, FS_RemoveElement
<1>4. Cardinality(Using') \in Nat
  BY <1>3, FS_CardinalityType
<1>5. free \in 0..PoolSize /\ PoolSize \in Nat
  BY NumbersAssumption DEF IInv, TypeOK
<1> QED
  BY <1>1, <1>3, <1>4, <1>5, UsingFinite DEF NoConnectionLost, Using, IInv

\* A task keeps to its types and leaves main alone.
LEMMA MoveKeepsRest ==
    ASSUME IInv, NEW t \in Tasks, NEW from, NEW to \in {"none", "work", "take", "statement"},
           Move(t, from, to), free' \in 0..PoolSize
    PROVE  TypeOK' /\ WaitInv'
<1>1. /\ task[t] = from /\ task' = [task EXCEPT ![t] = to]
      /\ pc' = pc /\ time' = time /\ spell' = spell
  BY DEF Move
<1>2. TypeOK'
  BY <1>1 DEF IInv, TypeOK, Waiting
<1>3. WaitInv'
  BY <1>1 DEF IInv, WaitInv
<1> QED
  BY <1>2, <1>3

\* Steps that leave the tasks and the pool alone.
LEMMA PoolUnchanged ==
    ASSUME IInv, UNCHANGED <<task, free>>
    PROVE  NoConnectionLost'
BY DEF IInv, NoConnectionLost, Using

----------------------------------------------------------------------------

LEMMA InitInv == Init => IInv
<1> SUFFICES ASSUME Init PROVE IInv
  OBVIOUS
<1>1. NoConnectionLost
  BY PoolFull, NumbersAssumption DEF Init, NoConnectionLost, Using
<1>2. TypeOK
  BY NumbersAssumption DEF Init, TypeOK, NoTasks, Waiting
<1> QED
  BY <1>1, <1>2 DEF IInv, Init, WaitInv

LEMMA MainKeepsInv ==
    ASSUME IInv, Main
    PROVE  IInv'
<1>1. CASE Exit
  BY <1>1, ExitKeepsInv
<1>2. ASSUME ~Exit, UNCHANGED <<task, free>>,
             /\ Start \/ Load \/ OpenDatabase \/ CheckDeadline \/ FindTemplate
                  \/ Sleep \/ FetchPolicy
      PROVE  IInv'
  <2>1. NoConnectionLost'
    BY <1>2, PoolUnchanged
  <2>2. TypeOK'
    BY <1>2, NumbersAssumption
       DEF IInv, TypeOK, Waiting, Start, Load, OpenDatabase, CheckDeadline,
           FindTemplate, Sleep, FetchPolicy
  <2>3. WaitInv'
    BY <1>2, NumbersAssumption
       DEF IInv, TypeOK, Waiting, WaitInv, Start, Load, OpenDatabase, CheckDeadline,
           FindTemplate, Sleep, FetchPolicy
  <2> QED
    BY <2>1, <2>2, <2>3 DEF IInv
<1>3. ASSUME Shutdown
      PROVE  IInv'
  <2>1. pc' = "close" /\ UNCHANGED <<time, spell, task, free>>
    BY <1>3 DEF Shutdown
  <2>2. NoConnectionLost'
    BY <2>1, PoolUnchanged
  <2>3. TypeOK' /\ WaitInv'
    BY <2>1 DEF IInv, TypeOK, WaitInv, Waiting
  <2> QED
    BY <2>2, <2>3 DEF IInv
<1> QED
  BY <1>1, <1>2, <1>3
     DEF Main, Start, Load, OpenDatabase, CheckDeadline, FindTemplate, Sleep,
         FetchPolicy, Close

LEMMA TasksKeepInv ==
    ASSUME IInv,
           \/ \E h \in Handlers : Request(h) \/ \E g \in Goroutines : Spawn(h, g)
           \/ \E t \in Tasks : Ask(t) \/ Take(t) \/ Run(t)
    PROVE  IInv'
<1> USE DEF Tasks
<1>0. free \in 0..PoolSize
  BY DEF IInv, TypeOK
<1>1. ASSUME NEW h \in Handlers, Request(h)
      PROVE  IInv'
  <2>1. Move(h, "none", "work") /\ UNCHANGED free
    BY <1>1 DEF Request
  <2> QED
    BY <1>0, <2>1, MoveKeepsPool, MoveKeepsRest DEF IInv
<1>2. ASSUME NEW h \in Handlers, NEW g \in Goroutines, Spawn(h, g)
      PROVE  IInv'
  <2>1. Move(g, "none", "work") /\ UNCHANGED free
    BY <1>2 DEF Spawn
  <2> QED
    BY <1>0, <2>1, MoveKeepsPool, MoveKeepsRest DEF IInv
<1>3. ASSUME NEW t \in Tasks, Ask(t)
      PROVE  IInv'
  <2>1. Move(t, "work", "take") /\ UNCHANGED free
    BY <1>3 DEF Ask
  <2> QED
    BY <1>0, <2>1, MoveKeepsPool, MoveKeepsRest DEF IInv
<1>4. ASSUME NEW t \in Tasks, Take(t)
      PROVE  IInv'
  <2>1. Move(t, "take", "statement")
    BY <1>4 DEF Take
  <2> QED
    BY <1>4, <2>1, TakeKeepsPool, MoveKeepsRest DEF IInv
<1>5. ASSUME NEW t \in Tasks, TakeFails(t)
      PROVE  IInv'
  <2>1. Move(t, "take", "work") /\ UNCHANGED free
    BY <1>5 DEF TakeFails
  <2> QED
    BY <1>0, <2>1, MoveKeepsPool, MoveKeepsRest DEF IInv
<1>6. ASSUME NEW t \in Tasks, Put(t)
      PROVE  IInv'
  <2>1. Move(t, "statement", "work")
    BY <1>6 DEF Put
  <2> QED
    BY <1>6, <2>1, PutKeepsPool, MoveKeepsRest DEF IInv
<1>7. ASSUME NEW t \in Tasks, Finish(t)
      PROVE  IInv'
  <2>1. Move(t, "work", "none") /\ UNCHANGED free
    BY <1>7 DEF Finish
  <2> QED
    BY <1>0, <2>1, MoveKeepsPool, MoveKeepsRest DEF IInv
<1> QED
  BY <1>1, <1>2, <1>3, <1>4, <1>5, <1>6, <1>7 DEF Run

LEMMA NextKeepsInv == IInv /\ [Next]_vars => IInv'
<1> SUFFICES ASSUME IInv, [Next]_vars PROVE IInv'
  OBVIOUS
<1>1. CASE Main
  BY <1>1, MainKeepsInv
<1>2. CASE \/ \E h \in Handlers : Request(h) \/ \E g \in Goroutines : Spawn(h, g)
           \/ \E t \in Tasks : Ask(t) \/ Take(t) \/ Run(t)
  BY <1>2, TasksKeepInv
<1>3. CASE Signal
  <2>1. pc' = "drain" /\ UNCHANGED <<time, spell, task, free>>
    BY <1>3 DEF Signal
  <2>2. NoConnectionLost'
    BY <2>1, PoolUnchanged
  <2> QED
    BY <2>1, <2>2 DEF IInv, TypeOK, WaitInv, Waiting
<1>4. CASE Crash
  BY <1>4, ExitKeepsInv DEF Crash
<1>5. CASE Tick
  <2>1. /\ UNCHANGED <<pc, task, free>>
        /\ time < MaxTime /\ time' = time + 1
        /\ spell' = IF pc \in {"find", "policy", "sleep"} THEN spell + 1 ELSE spell
        /\ \/ pc \in {"find", "policy"} /\ spell < CallTimeout
           \/ pc = "sleep" /\ spell < Pause
           \/ pc = "drain" /\ time < Drain
    BY <1>5 DEF Tick
  <2>2. NoConnectionLost'
    BY <2>1, PoolUnchanged
  <2>3. TypeOK'
    BY <2>1, NumbersAssumption DEF IInv, TypeOK, Waiting
  <2>4. WaitInv'
    BY <2>1, NumbersAssumption DEF IInv, TypeOK, WaitInv
  <2> QED
    BY <2>2, <2>3, <2>4 DEF IInv
<1>6. CASE UNCHANGED vars
  <2>1. UNCHANGED <<pc, time, spell, task, free>>
    BY <1>6 DEF vars
  <2>2. NoConnectionLost'
    BY <2>1, PoolUnchanged
  <2> QED
    BY <2>1, <2>2 DEF IInv, TypeOK, WaitInv
<1> QED
  BY <1>1, <1>2, <1>3, <1>4, <1>5, <1>6 DEF Next

LEMMA Invariance == Spec => []IInv
BY InitInv, NextKeepsInv, PTL DEF Spec

----------------------------------------------------------------------------

\* Every variable keeps its type; in particular the pool never has more
\* connections than it was opened with, nor fewer than none, whoever takes,
\* gives back or is refused one.
THEOREM TypeCorrect == Spec => []TypeOK
<1>1. IInv => TypeOK
  BY DEF IInv
<1> QED
  BY <1>1, Invariance, PTL

\* However long Emby's answers take, a bridge that waits for it does so no
\* longer than a call and a pause after the deadline.
THEOREM WaitsNoLonger == Spec => []GivesUpInTime
<1>1. IInv => GivesUpInTime
  BY NumbersAssumption DEF IInv, TypeOK, WaitInv, GivesUpInTime, Waiting
<1> QED
  BY <1>1, Invariance, PTL

\* The connections that are not in the pool are in statements, one each, for any
\* number of tasks that come, fail to take one, are interrupted or end.  It is
\* what Close, which waits for all connections, can count on.
THEOREM ConnectionsAccounted == Spec => []NoConnectionLost
<1>1. IInv => NoConnectionLost
  BY DEF IInv
<1> QED
  BY <1>1, Invariance, PTL

\* Whoever waits for a connection, waits for a statement: nobody is kept waiting
\* by tasks that wait as well.  It is why a Take without a deadline gets one and
\* why Close ends.
SomebodyHasIt == free < PoolSize => \E t \in Tasks : task[t] = "statement"

THEOREM WaitsForAStatement == Spec => []SomebodyHasIt
<1>1. IInv => SomebodyHasIt
  <2> SUFFICES ASSUME IInv, free < PoolSize, Using = {} PROVE FALSE
    BY DEF SomebodyHasIt, Using
  <2>1. Cardinality(Using) = 0
    BY FS_EmptySet
  <2> QED
    BY <2>1, NumbersAssumption DEF IInv, NoConnectionLost, Using
<1> QED
  BY <1>1, Invariance, PTL
====
