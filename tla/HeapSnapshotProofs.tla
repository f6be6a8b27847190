------------------------- MODULE HeapSnapshotProofs -------------------------
(***************************************************************************)
(* Theorems about HeapSnapshot for every set of threads, order of tasks    *)
(* and bound.  What does not depend on the second slept is proved for      *)
(* signals handled at any time, spurious wakeups and failing forks too.    *)
(***************************************************************************)
EXTENDS HeapSnapshot, FiniteSetTheorems, SequenceTheorems, TLAPS

-----------------------------------------------------------------------------
(* Type correctness.  The count of pending signals needs more than types:  *)
(* a task is signalled once per stop.                                      *)

Signalled(t) ==
    spc \in {"send", "sleep", "fork"} /\ \E i \in 1 .. sendCount : Tasks[i] = t

PendingInv ==
    /\ sendCount <= Len(Tasks)
    /\ spc \in {"lock", "install", "open", "send", "sleep", "fork"} => forks < MaxSnapshots
    /\ \A t \in Threads : pending[t] <= forks + (IF Signalled(t) THEN 1 ELSE 0)

LEMMA TasksLength == Len(Tasks) \in Nat /\ DOMAIN Tasks = 1 .. Len(Tasks)
  BY TaskAssumption

LEMMA AppendContext ==
    ASSUME NEW s \in Seq(Threads), NEW t \in Threads
    PROVE  /\ Append(s, t) \in Seq(Threads)
           /\ Len(s) \in Nat /\ Len(Append(s, t)) = Len(s) + 1
           /\ DOMAIN s = 1 .. Len(s) /\ DOMAIN Append(s, t) = 1 .. Len(s) + 1
           /\ \A i \in 1 .. Len(s) : Append(s, t)[i] = s[i]
           /\ Append(s, t)[Len(s) + 1] = t
  OBVIOUS

LEMMA InitType == Init => TypeOK /\ PendingInv
  <1> SUFFICES ASSUME Init PROVE TypeOK /\ PendingInv
    OBVIOUS
  <1>1. g_context \in Seq(Threads)
    BY DEF Init
  <1>2. child \in [1 .. MaxSnapshots ->
                    [pc : {"none", "walk", "maps", "stacks", "globals", "done"},
                     stacks : SUBSET Threads, libcHeld : BOOLEAN]]
    BY DEF Init, NoChild
  <1>3. /\ where \in [Threads -> {"app", "locked", "alloc", "free"}]
        /\ hpc \in [Threads -> {"none", "entered", "parked", "woken"}]
        /\ pending \in [Threads -> 0 .. MaxSnapshots]
    BY SnapshotBoundAssumption DEF Init
  <1>4. PendingInv
    BY TasksLength, SnapshotBoundAssumption DEF Init, PendingInv, Signalled
  <1>5. /\ disposition = "default" /\ oldAction = "default" /\ g_shouldSet = FALSE
        /\ spc = "idle" /\ sendCount = 0 /\ leaked = 0 /\ forks = 0
        /\ killed = FALSE /\ strayed = FALSE
    BY DEF Init
  <1>6. /\ {disposition, oldAction} \subseteq {"default", "myaction"}
        /\ g_shouldSet \in BOOLEAN /\ killed \in BOOLEAN /\ strayed \in BOOLEAN
    BY <1>5
  <1>7. /\ sendCount \in 0 .. MaxSend
        /\ leaked \in 0 .. MaxFds /\ forks \in 0 .. MaxSnapshots
    BY <1>5, SnapshotBoundAssumption
  <1>8. spc \in {"idle", "lock", "install", "open", "send", "sleep", "fork",
                 "restore", "wake", "unlock", "dead"}
    BY <1>5
  <1>9. TypeOK
    BY <1>1, <1>2, <1>3, <1>6, <1>7, <1>8, Zenon DEF TypeOK
  <1> QED
    BY <1>4, <1>9

(* The steps of a thread's own code and of its handler.                    *)
ThreadSteps(t) ==
    \/ EnterLedger(t) \/ EnterFree(t) \/ Finish(t) \/ Signal(t) \/ WakeSpuriously(t)

LEMMA ThreadType ==
    ASSUME TypeOK, PendingInv, NEW t \in Threads, ThreadSteps(t)
    PROVE  TypeOK' /\ PendingInv'
  <1>1. ASSUME NEW from, NEW to \in {"app", "locked", "alloc", "free"}, Move(t, from, to)
        PROVE  TypeOK' /\ PendingInv'
    BY <1>1 DEF Move, TypeOK, PendingInv, Signalled, signalVars, worldVars, serverVars
  <1>2. CASE EnterLedger(t) \/ EnterFree(t) \/ Finish(t)
    BY <1>1, <1>2 DEF EnterLedger, EnterFree, Finish, EnterAlloc, LeaveAlloc, LeaveLedger, LeaveFree
  <1>3. CASE Deliver(t)
    <2>1. /\ UNCHANGED <<where, worldVars, serverVars, child, strayed>>
          /\ pending' = [pending EXCEPT ![t] = @ - 1] /\ pending[t] > 0
          /\ hpc' \in [Threads -> {"none", "entered", "parked", "woken"}] /\ killed' \in BOOLEAN
      BY <1>3 DEF Deliver, TypeOK
    <2>2. \A u \in Threads : pending'[u] \in Nat /\ pending'[u] <= pending[u]
      BY <2>1, SnapshotBoundAssumption DEF TypeOK
    <2>3. pending' \in [Threads -> 0 .. MaxSnapshots]
      BY <2>1, <2>2, SnapshotBoundAssumption DEF TypeOK
    <2>4. PendingInv'
      <3>1. UNCHANGED <<sendCount, forks, spc>>
        BY <2>1 DEF serverVars
      <3>2. \A u \in Threads : Signalled(u)' <=> Signalled(u)
        BY <3>1 DEF Signalled
      <3>3. \A u \in Threads : pending[u] \in Nat /\ forks \in Nat
        BY SnapshotBoundAssumption DEF TypeOK
      <3> QED
        BY <2>2, <3>1, <3>2, <3>3 DEF PendingInv
    <2> QED
      BY <2>1, <2>3, <2>4 DEF TypeOK, worldVars, serverVars
  <1>4. CASE Park(t)
    BY <1>4, AppendContext DEF Park, TypeOK, PendingInv, Signalled, serverVars
  <1>5. CASE ReturnAtOnce(t) \/ Leave(t) \/ WakeSpuriously(t)
    BY <1>5 DEF ReturnAtOnce, Leave, WakeSpuriously, TypeOK, PendingInv, Signalled,
                worldVars, serverVars
  <1> QED
    BY <1>2, <1>3, <1>4, <1>5 DEF ThreadSteps, Signal

LEMMA SendType ==
    ASSUME TypeOK, PendingInv, Send
    PROVE  TypeOK' /\ PendingInv'
  <1> DEFINE s == Tasks[sendCount + 1]
  <1>1. /\ spc = "send" /\ sendCount < MaxSend /\ sendCount < Len(Tasks)
        /\ pending' = IF s = Server THEN pending ELSE [pending EXCEPT ![s] = @ + 1]
        /\ sendCount' = sendCount + 1 /\ forks < MaxSnapshots
        /\ UNCHANGED <<where, hpc, worldVars, spc, leaked, forks, child, killed, strayed>>
    BY DEF Send, ServerAt, PendingInv
  <1>2. sendCount \in Nat /\ sendCount + 1 \in DOMAIN Tasks /\ s \in Threads \cup {Server}
    BY <1>1, TasksLength, TaskAssumption, SnapshotBoundAssumption DEF TypeOK
  <1>3. \A i \in 1 .. sendCount : Tasks[i] # s
    BY <1>1, <1>2, TasksLength, TaskAssumption
  <1>4. ASSUME NEW t \in Threads
        PROVE  pending'[t] \in Nat /\ pending'[t] <= forks' + (IF Signalled(t)' THEN 1 ELSE 0)
    <2>1. forks \in Nat /\ pending[t] \in Nat /\ forks' = forks /\ spc' = "send"
      BY <1>1, SnapshotBoundAssumption DEF TypeOK
    <2>2. CASE t = s
      <3>1. ~Signalled(t)
        BY <1>1, <1>3, <2>2 DEF Signalled
      <3>2. pending[t] <= forks
        BY <3>1, <2>1 DEF PendingInv
      <3>3. pending'[t] = pending[t] + 1
        BY <1>1, <2>2, TaskAssumption DEF TypeOK
      <3>4. Signalled(t)'
        BY <1>1, <1>2, <2>1, <2>2 DEF Signalled
      <3> QED
        BY <2>1, <3>2, <3>3, <3>4
    <2>3. CASE t # s
      <3>1. pending'[t] = pending[t]
        BY <1>1, <2>3 DEF TypeOK
      <3>2. Signalled(t) => Signalled(t)'
        BY <1>1, <1>2, <2>1 DEF Signalled
      <3>3. pending[t] <= forks + (IF Signalled(t) THEN 1 ELSE 0)
        BY DEF PendingInv
      <3> QED
        BY <2>1, <3>1, <3>2, <3>3
    <2> QED
      BY <2>2, <2>3
  <1>5. PendingInv'
    BY <1>1, <1>2, <1>4, TasksLength DEF PendingInv
  <1>6. pending' \in [Threads -> 0 .. MaxSnapshots]
    <2>1. DOMAIN pending' = Threads /\ pending' = [t \in Threads |-> pending'[t]]
      BY <1>1 DEF TypeOK
    <2>2. \A t \in Threads : pending'[t] \in 0 .. MaxSnapshots
      <3>1. forks \in Nat /\ forks + 1 <= MaxSnapshots /\ forks' = forks
        BY <1>1, SnapshotBoundAssumption DEF TypeOK
      <3> QED
        BY <1>4, <3>1, SnapshotBoundAssumption
    <2> QED
      BY <2>1, <2>2
  <1> QED
    BY <1>1, <1>2, <1>5, <1>6, SnapshotBoundAssumption DEF TypeOK, worldVars

(* After the fork the stop counts among those that are over.               *)
LEMMA ForkPending ==
    ASSUME TypeOK, PendingInv, spc = "fork", spc' \in {"restore", "unlock"}, forks' = forks + 1,
           UNCHANGED <<pending, sendCount>>
    PROVE  PendingInv'
  <1>1. ASSUME NEW t \in Threads
        PROVE  pending'[t] <= forks' + (IF Signalled(t)' THEN 1 ELSE 0)
    <2>1. pending[t] \in Nat /\ forks \in Nat /\ pending[t] <= forks + 1
      BY SnapshotBoundAssumption DEF TypeOK, PendingInv
    <2>2. ~Signalled(t)'
      BY DEF Signalled
    <2> QED
      BY <2>1, <2>2
  <1> QED
    BY <1>1 DEF PendingInv

LEMMA ServerType ==
    ASSUME TypeOK, PendingInv, Accept \/ Serve
    PROVE  TypeOK' /\ PendingInv'
  <1> USE SnapshotBoundAssumption, TasksLength DEF TypeOK, PendingInv, Signalled, ServerAt
  <1>1. CASE Accept
    BY <1>1 DEF Accept, signalVars, worldVars
  <1>2. CASE LockLedger
    BY <1>2 DEF LockLedger, signalVars, worldVars
  <1>3. CASE InstallHandler
    BY <1>3 DEF InstallHandler, signalVars
  <1>4. CASE OpenTasks
    BY <1>4 DEF OpenTasks, signalVars
  <1>5. CASE Send
    BY <1>5, SendType
  <1>6. CASE SendDone
    BY <1>6 DEF SendDone, signalVars, worldVars
  <1>7. CASE SleepAndClose
    BY <1>7 DEF SleepAndClose, signalVars
  <1>8. CASE Fork
    <2>1. /\ forks' = forks + 1 /\ spc' = "restore" /\ spc = "fork"
          /\ child' = [child EXCEPT ![forks + 1] =
                          [pc |-> "walk", stacks |-> ToSet(g_context), libcHeld |-> ~LibcFree]]
          /\ UNCHANGED <<where, signalVars, worldVars, sendCount, leaked, killed, strayed>>
      BY <1>8 DEF Fork
    <2>2. ToSet(g_context) \subseteq Threads /\ (~LibcFree) \in BOOLEAN
      BY DEF ToSet, LibcFree
    <2>3. child' \in [1 .. MaxSnapshots ->
                    [pc : {"none", "walk", "maps", "stacks", "globals", "done"},
                     stacks : SUBSET Threads, libcHeld : BOOLEAN]]
      BY <2>1, <2>2
    <2> QED
      BY <2>1, <2>3, ForkPending DEF signalVars, worldVars
  <1>9. CASE ForkFails
    BY <1>9, ForkPending DEF ForkFails, signalVars, worldVars
  <1>10. CASE RestoreAction
    BY <1>10 DEF RestoreAction, signalVars
  <1>11. CASE Broadcast
    BY <1>11 DEF Broadcast, worldVars
  <1>12. CASE UnlockLedger
    BY <1>12 DEF UnlockLedger, signalVars, worldVars
  <1> QED
    BY <1>1, <1>2, <1>3, <1>4, <1>5, <1>6, <1>7, <1>8, <1>9, <1>10, <1>11, <1>12 DEF Serve

LEMMA ChildType ==
    ASSUME TypeOK, PendingInv, NEW n \in 1 .. MaxSnapshots, Child(n)
    PROVE  TypeOK' /\ PendingInv'
  <1>1. ASSUME NEW from, NEW to \in {"maps", "stacks", "globals", "done"}, ChildStep(n, from, to)
        PROVE  TypeOK' /\ PendingInv'
    <2>1. child' = [child EXCEPT ![n].pc = to]
          /\ UNCHANGED <<where, signalVars, worldVars, serverVars, killed, strayed>>
      BY <1>1 DEF ChildStep
    <2>2. child' \in [1 .. MaxSnapshots ->
                    [pc : {"none", "walk", "maps", "stacks", "globals", "done"},
                     stacks : SUBSET Threads, libcHeld : BOOLEAN]]
      BY <2>1 DEF TypeOK
    <2> QED
      BY <2>1, <2>2 DEF TypeOK, PendingInv, Signalled, signalVars, worldVars, serverVars
  <1> QED
    BY <1>1 DEF Child, ChildWalk, ChildMaps, ChildStacks, ChildGlobals

LEMMA NextType ==
    ASSUME TypeOK, PendingInv, [Next]_vars
    PROVE  TypeOK' /\ PendingInv'
  <1>1. CASE UNCHANGED vars
    BY <1>1 DEF vars, signalVars, worldVars, serverVars, TypeOK, PendingInv, Signalled
  <1> QED
    BY <1>1, ThreadType, ServerType, ChildType DEF Next, ThreadSteps

(* Every variable keeps its type; in particular no thread has ever more    *)
(* signals pending than there were stops, and descriptors and snapshots    *)
(* stay within their bounds.                                               *)
THEOREM SnapshotTypeCorrect == Spec => []TypeOK
  <1>1. Spec => [](TypeOK /\ PendingInv)
    BY InitType, NextType, PTL DEF Spec
  <1> QED
    BY <1>1, PTL

-----------------------------------------------------------------------------
(* The ledger is quiet while the server holds its lock, which is longer    *)
(* than the property asks: a thread could otherwise be inside already when *)
(* the copying starts.                                                     *)

QuietInv ==
    spc \in {"install", "open", "send", "sleep", "fork", "restore", "wake", "unlock"} =>
        \A t \in Threads : where[t] \notin {"locked", "alloc"}

LEMMA QuietThread ==
    ASSUME TypeOK, QuietInv, NEW t \in Threads, ThreadSteps(t)
    PROVE  QuietInv'
  <1>1. CASE EnterLedger(t)
    BY <1>1 DEF EnterLedger, LedgerFree, Move, QuietInv, serverVars
  <1>2. CASE EnterFree(t)
    BY <1>2 DEF EnterFree, Move, QuietInv, TypeOK, serverVars
  <1>3. CASE Finish(t)
    BY <1>3 DEF Finish, EnterAlloc, LeaveAlloc, LeaveLedger, LeaveFree, Move, QuietInv, TypeOK,
                serverVars
  <1>4. CASE Signal(t) \/ WakeSpuriously(t)
    BY <1>4 DEF Signal, Deliver, ReturnAtOnce, Park, Leave, WakeSpuriously, QuietInv, serverVars
  <1> QED
    BY <1>1, <1>2, <1>3, <1>4 DEF ThreadSteps

LEMMA QuietNext ==
    ASSUME TypeOK, QuietInv, [Next]_vars
    PROVE  QuietInv'
  <1>1. CASE UNCHANGED vars
    BY <1>1 DEF vars, serverVars, QuietInv
  <1>2. CASE LockLedger
    BY <1>2 DEF LockLedger, LedgerFree, QuietInv
  <1>3. CASE Accept \/ UnlockLedger
    BY <1>3 DEF Accept, UnlockLedger, QuietInv
  <1>4. ASSUME Serve, ~LockLedger, ~UnlockLedger PROVE QuietInv'
    <2>1. /\ where' = where
          /\ spc \in {"install", "open", "send", "sleep", "fork", "restore", "wake"}
      BY <1>4 DEF Serve, InstallHandler, OpenTasks, Send, SendDone, SleepAndClose, Fork,
                  ForkFails, RestoreAction, Broadcast, ServerAt
    <2> QED
      BY <2>1 DEF QuietInv
  <1>5. ASSUME NEW n \in 1 .. MaxSnapshots, Child(n) PROVE QuietInv'
    BY <1>5 DEF Child, ChildWalk, ChildMaps, ChildStacks, ChildGlobals, ChildStep, QuietInv,
                serverVars
  <1> QED
    BY <1>1, <1>2, <1>3, <1>4, <1>5, QuietThread DEF Next, ThreadSteps

(* The child never copies a ledger in the middle of an update, however     *)
(* late the threads are stopped, and if none of them ever is.              *)
THEOREM LedgerCopiedQuiet == Spec => []LedgerQuiet
  <1>1. Init => QuietInv
    BY DEF Init, QuietInv
  <1>2. QuietInv => LedgerQuiet
    BY DEF QuietInv, LedgerQuiet
  <1> QED
    BY <1>1, <1>2, QuietNext, SnapshotTypeCorrect, PTL DEF Spec

-----------------------------------------------------------------------------
(* The contexts.  A thread is in its handler only if it is one of the      *)
(* tasks that are signalled, and it stores its context only while the      *)
(* window is open.  Until the broadcast the threads whose contexts are     *)
(* stored wait, so none of them can store a second one.                    *)

Reachable(t) == \E i \in 1 .. MaxSend : i <= Len(Tasks) /\ Tasks[i] = t

ContextInv ==
    /\ \A t \in Threads : pending[t] > 0 \/ hpc[t] # "none" => Reachable(t)
    /\ g_shouldSet => spc \in {"send", "sleep"}
    /\ \A i \in DOMAIN g_context : Reachable(g_context[i])
    /\ ~strayed =>
        /\ IsInjective(g_context)
        /\ spc \in {"open", "send", "sleep", "fork", "restore", "wake"} =>
              \A i \in DOMAIN g_context : hpc[g_context[i]] = "parked"

LEMMA ContextInit == Init => ContextInv
  BY DEF Init, ContextInv, IsInjective

LEMMA ContextOwn ==
    ASSUME TypeOK, ContextInv, NEW t \in Threads,
           EnterLedger(t) \/ EnterFree(t) \/ Finish(t)
    PROVE  ContextInv'
  <1>1. UNCHANGED <<pending, hpc, g_shouldSet, g_context, spc, strayed>>
    BY DEF EnterLedger, EnterFree, Finish, EnterAlloc, LeaveAlloc, LeaveLedger, LeaveFree, Move,
           signalVars, worldVars, serverVars
  <1> QED
    BY <1>1 DEF ContextInv, Reachable, IsInjective

LEMMA ContextPark ==
    ASSUME TypeOK, ContextInv, NEW t \in Threads, Park(t)
    PROVE  ContextInv'
  <1> DEFINE n == Len(g_context)
  <1>1. /\ hpc[t] = "entered" /\ spc \in {"send", "sleep"} /\ g_shouldSet
        /\ g_context' = Append(g_context, t)
        /\ hpc' = [hpc EXCEPT ![t] = "parked"]
        /\ UNCHANGED <<pending, g_shouldSet, spc, strayed>>
    BY DEF Park, serverVars, ContextInv
  <1>2. /\ n \in Nat /\ DOMAIN g_context = 1 .. n /\ DOMAIN g_context' = 1 .. n + 1
        /\ \A i \in 1 .. n : g_context'[i] = g_context[i] /\ g_context[i] \in Threads
        /\ g_context'[n + 1] = t
    BY <1>1, AppendContext DEF TypeOK
  <1>3. Reachable(t)
    BY <1>1 DEF ContextInv
  <1>4. \A u \in Threads : pending'[u] > 0 \/ hpc'[u] # "none" => Reachable(u)
    BY <1>1, <1>3 DEF ContextInv, TypeOK
  <1>5. \A i \in DOMAIN g_context' : Reachable(g_context'[i])
    <2> SUFFICES ASSUME NEW i \in 1 .. n + 1 PROVE Reachable(g_context'[i])
      BY <1>2
    <2>1. CASE i = n + 1
      BY <1>2, <1>3, <2>1
    <2>2. CASE i \in 1 .. n
      BY <1>2, <2>2 DEF ContextInv
    <2> QED
      BY <1>2, <2>1, <2>2
  <1>6. ASSUME ~strayed
        PROVE  IsInjective(g_context') /\ \A i \in DOMAIN g_context' : hpc'[g_context'[i]] = "parked"
    <2>1. \A i \in 1 .. n : hpc[g_context[i]] = "parked" /\ g_context[i] # t
      BY <1>1, <1>2, <1>6 DEF ContextInv
    <2>2. \A i, j \in 1 .. n : g_context[i] = g_context[j] => i = j
      BY <1>2, <1>6 DEF ContextInv, IsInjective
    <2>3. \A i \in 1 .. n + 1 : i = n + 1 \/ i \in 1 .. n
      BY <1>2
    <2>4. IsInjective(g_context')
      <3> SUFFICES ASSUME NEW i \in 1 .. n + 1, NEW j \in 1 .. n + 1, g_context'[i] = g_context'[j]
                   PROVE  i = j
        BY <1>2 DEF IsInjective
      <3> QED
        BY <1>2, <2>1, <2>2, <2>3
    <2>5. ASSUME NEW i \in 1 .. n + 1 PROVE hpc'[g_context'[i]] = "parked"
      BY <1>1, <1>2, <2>1, <2>3 DEF TypeOK
    <2> QED
      BY <1>2, <2>4, <2>5
  <1> QED
    BY <1>1, <1>4, <1>5, <1>6 DEF ContextInv, Reachable

LEMMA ContextSignal ==
    ASSUME TypeOK, ContextInv, NEW t \in Threads,
           Deliver(t) \/ ReturnAtOnce(t) \/ Leave(t) \/ WakeSpuriously(t)
    PROVE  ContextInv'
  <1>1. /\ UNCHANGED <<g_shouldSet, g_context, spc>>
        /\ \A u \in Threads : pending'[u] \in Nat /\ pending'[u] <= pending[u]
        /\ \A u \in Threads : hpc'[u] # "none" => hpc[u] # "none" \/ pending[u] > 0
        /\ ~strayed' => ~strayed
        /\ ~strayed' => \A u \in Threads : hpc[u] = "parked" => hpc'[u] = "parked"
    <2>0. \A u \in Threads : pending[u] \in Nat
      BY SnapshotBoundAssumption DEF TypeOK
    <2>1. CASE Deliver(t)
      BY <2>0, <2>1 DEF Deliver, Runs, TypeOK, worldVars, serverVars
    <2>2. CASE ReturnAtOnce(t) \/ Leave(t) \/ WakeSpuriously(t)
      BY <2>0, <2>2 DEF ReturnAtOnce, Leave, WakeSpuriously, TypeOK, worldVars, serverVars
    <2> QED
      BY <2>1, <2>2
  <1>2. \A u \in Threads : pending'[u] > 0 \/ hpc'[u] # "none" => Reachable(u)
    <2>1. \A u \in Threads : pending[u] \in Nat
      BY SnapshotBoundAssumption DEF TypeOK
    <2> QED
      BY <1>1, <2>1 DEF ContextInv
  <1>3. \A i \in DOMAIN g_context : g_context[i] \in Threads
    BY DEF TypeOK
  <1> QED
    BY <1>1, <1>2, <1>3 DEF ContextInv, Reachable

LEMMA ContextServer ==
    ASSUME TypeOK, ContextInv, Accept \/ Serve
    PROVE  ContextInv'
  <1>1. CASE Accept \/ LockLedger \/ SendDone \/ Fork \/ ForkFails \/ UnlockLedger \/ RestoreAction
    BY <1>1 DEF Accept, LockLedger, SendDone, Fork, ForkFails, UnlockLedger, RestoreAction,
                ServerAt, signalVars, worldVars, ContextInv, Reachable, IsInjective
  <1>2. CASE InstallHandler
    BY <1>2 DEF InstallHandler, signalVars, ServerAt, ContextInv, Reachable, IsInjective
  <1>3. CASE OpenTasks \/ SleepAndClose
    BY <1>3 DEF OpenTasks, SleepAndClose, signalVars, ServerAt, ContextInv, Reachable, IsInjective
  <1>4. CASE Send
    <2>1. /\ spc = "send" /\ sendCount < MaxSend /\ sendCount < Len(Tasks)
          /\ pending' = IF Tasks[sendCount + 1] = Server THEN pending
                        ELSE [pending EXCEPT ![Tasks[sendCount + 1]] = @ + 1]
          /\ UNCHANGED <<hpc, g_shouldSet, g_context, spc, strayed>>
      BY <1>4 DEF Send, ServerAt, worldVars
    <2>2. ASSUME NEW t \in Threads, Tasks[sendCount + 1] = t PROVE Reachable(t)
      <3>1. sendCount + 1 \in 1 .. MaxSend /\ sendCount + 1 <= Len(Tasks)
        BY <2>1, TasksLength, SnapshotBoundAssumption DEF TypeOK
      <3> QED
        BY <2>2, <3>1 DEF Reachable
    <2>3. \A t \in Threads : pending'[t] > 0 \/ hpc'[t] # "none" => Reachable(t)
      BY <2>1, <2>2 DEF ContextInv, TypeOK
    <2> QED
      BY <2>1, <2>3 DEF ContextInv, Reachable, IsInjective
  <1>5. CASE Broadcast
    <2>1. \A t \in Threads : hpc'[t] # "none" => hpc[t] # "none"
      BY <1>5 DEF Broadcast
    <2>2. /\ UNCHANGED <<pending, g_shouldSet, g_context, strayed>>
          /\ spc = "wake" /\ spc' = "unlock"
      BY <1>5 DEF Broadcast, ServerAt, worldVars
    <2> QED
      BY <2>1, <2>2 DEF ContextInv, Reachable, IsInjective
  <1> QED
    BY <1>1, <1>2, <1>3, <1>4, <1>5 DEF Serve

LEMMA ContextNext ==
    ASSUME TypeOK, ContextInv, [Next]_vars
    PROVE  ContextInv'
  <1>1. CASE UNCHANGED vars
    BY <1>1 DEF vars, signalVars, worldVars, serverVars, ContextInv, Reachable, IsInjective
  <1>2. ASSUME NEW n \in 1 .. MaxSnapshots, Child(n) PROVE ContextInv'
    BY <1>2 DEF Child, ChildWalk, ChildMaps, ChildStacks, ChildGlobals, ChildStep, signalVars,
                worldVars, serverVars, ContextInv, Reachable, IsInjective
  <1> QED
    BY <1>1, <1>2, ContextOwn, ContextPark, ContextSignal, ContextServer DEF Next, Signal

(* Different contexts belong to different tasks of the first MaxSend.      *)
LEMMA ContextsFit ==
    ASSUME g_context \in Seq(Threads), IsInjective(g_context),
           \A i \in DOMAIN g_context : Reachable(g_context[i])
    PROVE  Len(g_context) <= MaxSend
  <1> DEFINE n == Len(g_context)
             task == [i \in 1 .. n |-> CHOOSE j \in 1 .. MaxSend : Tasks[j] = g_context[i]]
  <1>1. n \in Nat /\ DOMAIN g_context = 1 .. n
    OBVIOUS
  <1>2. \A i \in 1 .. n : task[i] \in 1 .. MaxSend /\ Tasks[task[i]] = g_context[i]
    BY <1>1 DEF Reachable
  <1>3. task \in [1 .. n -> 1 .. MaxSend]
    BY <1>2
  <1>4. \A i, j \in 1 .. n : task[i] = task[j] => i = j
    BY <1>1, <1>2 DEF IsInjective
  <1>5. task \in Injection(1 .. n, 1 .. MaxSend)
    BY <1>3, <1>4 DEF Injection, IsInjective
  <1> HIDE DEF task
  <1>6. ASSUME NEW m \in Nat PROVE IsFiniteSet(1 .. m) /\ Cardinality(1 .. m) = m
    BY FS_Interval
  <1>7. Cardinality(1 .. n) <= Cardinality(1 .. MaxSend)
    BY <1>5, <1>6, FS_Injection, SnapshotBoundAssumption
  <1> HIDE DEF n
  <1>8. n <= MaxSend
    BY <1>1, <1>6, <1>7, SnapshotBoundAssumption
  <1> QED
    BY <1>8 DEF n

(* The array of contexts never overflows, and what the child takes from it *)
(* are the stacks of different threads that are all still waiting, however *)
(* late signals are handled (but not once a wait has returned by itself).  *)
THEOREM ContextsAreParked == Spec => []ContextsParked
  <1>1. TypeOK /\ ContextInv => ContextsParked
    BY ContextsFit DEF ContextInv, ContextsParked, TypeOK
  <1>2. Spec => []ContextInv
    BY ContextInit, ContextNext, SnapshotTypeCorrect, PTL DEF Spec
  <1> QED
    BY <1>1, <1>2, SnapshotTypeCorrect, PTL

-----------------------------------------------------------------------------
(* The stop, when the second slept is long enough, waits do not return by  *)
(* themselves, fork succeeds, the array has room for every task and there  *)
(* is a descriptor for every snapshot.  These are the assumptions under    *)
(* which the code is right; TLC shows what each is needed for.             *)

StopAssumptions ==
    /\ Prompt /\ ~SpuriousWakeups /\ ~ForkMayFail
    /\ Len(Tasks) <= MaxSend
    /\ MaxSnapshots < MaxFds

Sent(t) == \E i \in 1 .. sendCount : Tasks[i] = t

Calm(t) == pending[t] = 0 /\ hpc[t] \in {"none", "woken"}

Called(t) ==
    \/ pending[t] = 1 /\ hpc[t] \in {"none", "woken"}
    \/ pending[t] = 0 /\ hpc[t] \in {"entered", "parked"}

StopThread(t) ==
    /\ spc \in {"idle", "lock", "install", "open", "unlock", "dead"} => Calm(t)
    /\ spc \in {"send", "sleep"} => IF Sent(t) THEN Called(t) ELSE Calm(t)
    /\ spc \in {"fork", "restore", "wake"} => pending[t] = 0 /\ hpc[t] = "parked"
    /\ spc \in {"send", "sleep", "fork"} /\ hpc[t] = "parked" =>
          \E i \in DOMAIN g_context : g_context[i] = t

StopServer ==
    /\ spc \in {"send", "sleep"} => g_shouldSet
    /\ spc \in {"open", "send", "sleep", "fork", "restore"} => disposition = "myaction"
    /\ spc = "sleep" => sendCount = Len(Tasks)
    /\ leaked <= forks + (IF spc \in {"send", "sleep", "fork"} THEN 1 ELSE 0)

StopChildren ==
    \A n \in 1 .. MaxSnapshots : child[n].pc # "none" => child[n].stacks = Threads

StopInv == ~killed /\ (\A t \in Threads : StopThread(t)) /\ StopServer /\ StopChildren

LEMMA StopInit == Init => StopInv
  <1> SUFFICES ASSUME Init PROVE StopInv
    OBVIOUS
  <1>1. \A t \in Threads : StopThread(t)
    BY DEF Init, StopThread, Calm
  <1>2. StopChildren
    BY DEF Init, StopChildren, NoChild
  <1>3. ~killed /\ StopServer
    BY DEF Init, StopServer
  <1> QED
    BY <1>1, <1>2, <1>3 DEF StopInv

(* A signal finds the handler installed and the window open.               *)
LEMMA StopSignal ==
    ASSUME StopAssumptions, TypeOK, StopInv, NEW t \in Threads, Signal(t)
    PROVE  StopInv'
  <1>1. UNCHANGED <<spc, sendCount, leaked, forks, child, disposition, g_shouldSet>>
    BY DEF Signal, Deliver, ReturnAtOnce, Park, Leave, worldVars, serverVars
  <1>2. StopServer' /\ StopChildren'
    BY <1>1 DEF StopInv, StopServer, StopChildren
  <1>3. \A u \in Threads : Sent(u)' <=> Sent(u)
    BY <1>1 DEF Sent
  <1>4. CASE Deliver(t)
    <2>1. spc \in {"send", "sleep"} /\ Sent(t) /\ pending[t] = 1 /\ hpc[t] = "none"
      BY <1>4, SnapshotBoundAssumption
      DEF Deliver, Runs, TypeOK, StopInv, StopThread, Calm, Called
    <2>2. /\ pending' = [pending EXCEPT ![t] = @ - 1]
          /\ hpc' = [hpc EXCEPT ![t] = "entered"] /\ ~killed' /\ g_context' = g_context
      BY <1>4, <2>1 DEF Deliver, worldVars, StopInv, StopServer
    <2>3. ASSUME NEW u \in Threads PROVE StopThread(u)'
      <3>1. StopThread(u)
        BY DEF StopInv
      <3>2. CASE u = t
        BY <1>1, <1>3, <2>1, <2>2, <3>2 DEF TypeOK, StopThread, Called
      <3>3. CASE u # t
        BY <1>1, <1>3, <2>2, <3>1, <3>3 DEF TypeOK, StopThread, Calm, Called
      <3> QED
        BY <3>2, <3>3
    <2> QED
      BY <1>2, <2>2, <2>3 DEF StopInv
  <1>5. CASE ReturnAtOnce(t)
    BY <1>5 DEF ReturnAtOnce, TypeOK, StopInv, StopThread, StopServer, Calm
  <1>6. CASE Park(t)
    <2> DEFINE n == Len(g_context)
    <2>1. /\ hpc[t] = "entered" /\ g_context' = Append(g_context, t)
          /\ hpc' = [hpc EXCEPT ![t] = "parked"] /\ pending' = pending /\ ~killed'
      BY <1>6 DEF Park, StopInv
    <2>2. spc \in {"send", "sleep"} /\ Sent(t) /\ pending[t] = 0
      BY <2>1 DEF TypeOK, StopInv, StopThread, Calm, Called
    <2>3. /\ n \in Nat /\ DOMAIN g_context = 1 .. n /\ DOMAIN g_context' = 1 .. n + 1
          /\ \A i \in 1 .. n : g_context'[i] = g_context[i]
          /\ g_context'[n + 1] = t
      BY <2>1, AppendContext DEF TypeOK
    <2>4. ASSUME NEW u \in Threads PROVE StopThread(u)'
      <3>1. StopThread(u)
        BY DEF StopInv
      <3>2. CASE u = t
        <4>1. n + 1 \in DOMAIN g_context' /\ g_context'[n + 1] = u
          BY <2>3, <3>2
        <4> QED
          BY <1>1, <1>3, <2>1, <2>2, <3>2, <4>1 DEF TypeOK, StopThread, Called
      <3>3. CASE u # t
        <4>1. (\E i \in DOMAIN g_context : g_context[i] = u)
                => \E i \in DOMAIN g_context' : g_context'[i] = u
          BY <2>3
        <4> QED
          BY <1>1, <1>3, <2>1, <3>1, <3>3, <4>1 DEF TypeOK, StopThread, Calm, Called
      <3> QED
        BY <3>2, <3>3
    <2> QED
      BY <1>2, <2>1, <2>4 DEF StopInv
  <1>7. CASE Leave(t)
    <2>1. /\ hpc[t] = "woken" /\ hpc' = [hpc EXCEPT ![t] = "none"]
          /\ UNCHANGED <<pending, g_context>> /\ ~killed'
      BY <1>7 DEF Leave, worldVars, StopInv
    <2>2. ASSUME NEW u \in Threads PROVE StopThread(u)'
      <3>1. StopThread(u)
        BY DEF StopInv
      <3>2. \/ hpc'[u] = hpc[u]
            \/ hpc[u] = "woken" /\ hpc'[u] = "none"
        BY <2>1 DEF TypeOK
      <3> QED
        BY <1>1, <1>3, <2>1, <3>1, <3>2 DEF StopThread, Calm, Called
    <2> QED
      BY <1>2, <2>1, <2>2 DEF StopInv
  <1> QED
    BY <1>4, <1>5, <1>6, <1>7 DEF Signal

LEMMA StopOwn ==
    ASSUME TypeOK, StopInv, NEW t \in Threads, EnterLedger(t) \/ EnterFree(t) \/ Finish(t)
    PROVE  StopInv'
  <1>1. UNCHANGED <<signalVars, worldVars, serverVars, child, killed>>
    BY DEF EnterLedger, EnterFree, Finish, EnterAlloc, LeaveAlloc, LeaveLedger, LeaveFree, Move
  <1> QED
    BY <1>1 DEF StopInv, StopThread, StopServer, StopChildren, Calm, Called, Sent,
                signalVars, worldVars, serverVars

(* The server opens the task list: a descriptor is left for it.            *)
LEMMA StopOpen ==
    ASSUME StopAssumptions, TypeOK, PendingInv, StopInv, OpenTasks
    PROVE  StopInv'
  <1>1. leaked + 2 <= MaxFds
    BY SnapshotBoundAssumption
    DEF StopAssumptions, TypeOK, PendingInv, StopInv, StopServer, OpenTasks, ServerAt
  <1>2. /\ spc = "open" /\ spc' = "send" /\ leaked' = leaked + 1
        /\ g_shouldSet' = TRUE /\ sendCount' = 0
        /\ UNCHANGED <<hpc, pending, disposition, g_context, forks, child, killed>>
    BY <1>1 DEF OpenTasks, ServerAt, signalVars
  <1>3. ASSUME NEW t \in Threads PROVE StopThread(t)'
    <2>1. Calm(t)
      BY <1>2 DEF StopInv, StopThread
    <2>2. ~Sent(t)'
      BY <1>2 DEF Sent
    <2> QED
      BY <1>2, <2>1, <2>2 DEF StopThread, Calm
  <1>4. StopServer'
    BY <1>2, SnapshotBoundAssumption DEF StopInv, StopServer, TypeOK
  <1>5. StopChildren'
    BY <1>2 DEF StopInv, StopChildren
  <1> QED
    BY <1>2, <1>3, <1>4, <1>5 DEF StopInv

(* No task is signalled before, so none has two signals.                   *)
LEMMA StopSend ==
    ASSUME StopAssumptions, TypeOK, PendingInv, StopInv, Send
    PROVE  StopInv'
  <1> DEFINE s == Tasks[sendCount + 1]
  <1>1. /\ spc = "send" /\ sendCount < Len(Tasks)
        /\ pending' = IF s = Server THEN pending ELSE [pending EXCEPT ![s] = @ + 1]
        /\ sendCount' = sendCount + 1
        /\ UNCHANGED <<hpc, worldVars, spc, leaked, forks, child, killed>>
    BY DEF Send, ServerAt
  <1>2. sendCount \in Nat /\ sendCount + 1 \in DOMAIN Tasks
    BY <1>1, TasksLength, SnapshotBoundAssumption DEF TypeOK
  <1>3. \A i \in 1 .. sendCount : Tasks[i] # s
    BY <1>1, <1>2, TasksLength, TaskAssumption
  <1>4. ASSUME NEW t \in Threads PROVE StopThread(t)'
    <2>1. IF Sent(t) THEN Called(t) ELSE Calm(t)
      BY <1>1 DEF StopInv, StopThread
    <2>2. Sent(t)' <=> Sent(t) \/ t = s
      BY <1>1, <1>2 DEF Sent
    <2>3. t = s => ~Sent(t)
      BY <1>3 DEF Sent
    <2>4. pending'[t] = pending[t] + (IF t = s THEN 1 ELSE 0)
      <3>1. pending[t] \in Nat /\ t # Server
        BY TaskAssumption, SnapshotBoundAssumption DEF TypeOK
      <3> QED
        BY <1>1, <3>1 DEF TypeOK
    <2>5. IF Sent(t)' THEN Called(t)' ELSE Calm(t)'
      <3>1. CASE t = s
        BY <1>1, <2>1, <2>2, <2>3, <2>4, <3>1 DEF Calm, Called
      <3>2. CASE t # s
        <4>1. pending'[t] = pending[t] /\ hpc'[t] = hpc[t]
          BY <1>1, <2>4, <3>2, SnapshotBoundAssumption DEF TypeOK
        <4> QED
          BY <2>1, <2>2, <3>2, <4>1 DEF Calm, Called
      <3> QED
        BY <3>1, <3>2
    <2> QED
      BY <1>1, <2>5 DEF StopInv, StopThread, worldVars
  <1>5. StopServer' /\ StopChildren'
    BY <1>1 DEF StopInv, StopServer, StopChildren, worldVars
  <1> QED
    BY <1>1, <1>4, <1>5 DEF StopInv

LEMMA StopServerStep ==
    ASSUME StopAssumptions, TypeOK, PendingInv, StopInv, Accept \/ Serve
    PROVE  StopInv'
  <1> USE DEF ServerAt, signalVars, worldVars
  <1>1. CASE Accept \/ LockLedger \/ UnlockLedger
    BY <1>1 DEF Accept, LockLedger, UnlockLedger, StopInv, StopThread, StopServer, StopChildren,
                Calm
  <1>2. CASE InstallHandler
    BY <1>2 DEF InstallHandler, StopInv, StopThread, StopServer, StopChildren, Calm
  <1>3. CASE OpenTasks \/ Send
    BY <1>3, StopOpen, StopSend
  <1>4. CASE SendDone
    <2>1. sendCount = Len(Tasks)
      <3>1. sendCount \in Nat /\ Len(Tasks) \in Nat /\ MaxSend \in Nat
        BY TasksLength, SnapshotBoundAssumption DEF TypeOK
      <3>2. sendCount <= Len(Tasks) /\ Len(Tasks) <= MaxSend
        BY DEF StopAssumptions, PendingInv
      <3>3. sendCount = MaxSend \/ sendCount = Len(Tasks)
        BY <1>4 DEF SendDone
      <3> QED
        BY <3>1, <3>2, <3>3
    <2> QED
      BY <1>4, <2>1 DEF SendDone, StopInv, StopThread, StopServer, StopChildren, Calm, Called, Sent
  <1>5. CASE SleepAndClose
    <2>1. /\ spc = "sleep" /\ spc' = "fork" /\ sendCount = Len(Tasks)
          /\ \A t \in Threads : hpc[t] = "parked" \/ (hpc[t] = "none" /\ pending[t] = 0)
          /\ UNCHANGED <<hpc, pending, disposition, g_context, leaked, forks, child, killed>>
      BY <1>5 DEF SleepAndClose, StopAssumptions, StopInv, StopServer
    <2>2. ASSUME NEW t \in Threads PROVE StopThread(t)'
      <3>1. Sent(t)
        BY <2>1, TasksLength, TaskAssumption DEF Sent
      <3>2. StopThread(t)
        BY DEF StopInv
      <3>3. pending[t] = 0 /\ hpc[t] = "parked"
        BY <2>1, <3>1, <3>2 DEF StopThread, Called
      <3> QED
        BY <2>1, <3>2, <3>3 DEF StopThread
    <2>3. StopServer' /\ StopChildren'
      BY <2>1 DEF StopInv, StopServer, StopChildren
    <2> QED
      BY <2>1, <2>2, <2>3 DEF StopInv
  <1>6. CASE Fork
    <2>1. /\ spc = "fork" /\ spc' = "restore" /\ forks' = forks + 1
          /\ child' = [child EXCEPT ![forks + 1] =
                          [pc |-> "walk", stacks |-> ToSet(g_context), libcHeld |-> ~LibcFree]]
          /\ UNCHANGED <<hpc, pending, disposition, g_context, leaked, killed>>
      BY <1>6 DEF Fork
    <2>2. ToSet(g_context) = Threads
      <3>1. \A t \in Threads : \E i \in DOMAIN g_context : g_context[i] = t
        BY <2>1 DEF StopInv, StopThread
      <3>2. \A i \in DOMAIN g_context : g_context[i] \in Threads
        BY DEF TypeOK
      <3> QED
        BY <3>1, <3>2 DEF ToSet
    <2>3. StopChildren'
      BY <2>1, <2>2 DEF StopInv, StopChildren, TypeOK
    <2>4. \A t \in Threads : StopThread(t)'
      BY <2>1 DEF StopInv, StopThread
    <2>5. StopServer'
      BY <2>1, SnapshotBoundAssumption DEF StopInv, StopServer, TypeOK
    <2> QED
      BY <2>1, <2>3, <2>4, <2>5 DEF StopInv
  <1>7. CASE ForkFails
    BY <1>7 DEF ForkFails, StopAssumptions
  <1>8. CASE RestoreAction
    BY <1>8 DEF RestoreAction, StopInv, StopThread, StopServer, StopChildren
  <1>9. CASE Broadcast
    <2>1. /\ spc = "wake" /\ spc' = "unlock"
          /\ UNCHANGED <<pending, leaked, forks, child, killed>>
      BY <1>9 DEF Broadcast
    <2>2. ASSUME NEW t \in Threads PROVE StopThread(t)'
      <3>1. pending[t] = 0 /\ hpc'[t] = "woken"
        BY <1>9, <2>1 DEF Broadcast, StopInv, StopThread
      <3> QED
        BY <2>1, <3>1 DEF StopThread, Calm
    <2>3. StopServer' /\ StopChildren'
      BY <2>1 DEF StopInv, StopServer, StopChildren
    <2> QED
      BY <2>1, <2>2, <2>3 DEF StopInv
  <1> QED
    BY <1>1, <1>2, <1>3, <1>4, <1>5, <1>6, <1>7, <1>8, <1>9 DEF Serve

LEMMA StopNext ==
    ASSUME StopAssumptions, TypeOK, PendingInv, StopInv, [Next]_vars
    PROVE  StopInv'
  <1>1. CASE UNCHANGED vars
    BY <1>1 DEF vars, signalVars, worldVars, serverVars, StopInv, StopThread, StopServer,
                StopChildren, Calm, Called, Sent
  <1>2. ASSUME NEW t \in Threads, WakeSpuriously(t) PROVE StopInv'
    BY <1>2 DEF WakeSpuriously, StopAssumptions
  <1>3. ASSUME NEW n \in 1 .. MaxSnapshots, Child(n) PROVE StopInv'
    <2>1. /\ UNCHANGED <<signalVars, worldVars, serverVars, killed>>
          /\ \A m \in 1 .. MaxSnapshots :
                child'[m].stacks = child[m].stacks /\ (child[m].pc = "none" => child'[m].pc = "none")
      <3>1. ASSUME NEW from \in {"walk", "maps", "stacks", "globals"}, NEW to,
                   ChildStep(n, from, to)
            PROVE  <2>1
        <4>1. child[n].pc = from /\ child' = [child EXCEPT ![n].pc = to]
              /\ UNCHANGED <<signalVars, worldVars, serverVars, killed>>
          BY <3>1 DEF ChildStep
        <4>2. \A m \in 1 .. MaxSnapshots : m # n => child'[m] = child[m]
          BY <4>1 DEF TypeOK
        <4>3. child'[n] = [child[n] EXCEPT !.pc = to]
          BY <4>1 DEF TypeOK
        <4>4. child'[n].stacks = child[n].stacks
          BY <4>3 DEF TypeOK
        <4> QED
          BY <4>1, <4>2, <4>4
      <3> QED
        BY <1>3, <3>1 DEF Child, ChildWalk, ChildMaps, ChildStacks, ChildGlobals
    <2> QED
      BY <2>1 DEF signalVars, worldVars, serverVars, StopInv, StopThread, StopServer,
                  StopChildren, Calm, Called, Sent
  <1> QED
    BY <1>1, <1>2, <1>3, StopOwn, StopSignal, StopServerStep DEF Next

(* Under these assumptions the child copies a process of which no thread   *)
(* runs.                                                                   *)
THEOREM ForkFindsWorldStopped == StopAssumptions => (Spec => []WorldStopped)
  <1> SUFFICES ASSUME StopAssumptions PROVE Spec => []WorldStopped
    OBVIOUS
  <1>1. StopInv => WorldStopped
    BY DEF StopInv, StopThread, WorldStopped
  <1>2. Spec => [](TypeOK /\ PendingInv /\ StopInv)
    BY InitType, NextType, StopInit, StopNext, PTL DEF Spec
  <1> QED
    BY <1>1, <1>2, PTL

(* Under the same assumptions every snapshot has every thread's stack, and *)
(* no signal meets its default action.                                     *)
THEOREM SnapshotHasAllStacks == StopAssumptions => (Spec => []AllStacks)
  <1> SUFFICES ASSUME StopAssumptions PROVE Spec => []AllStacks
    OBVIOUS
  <1>1. StopInv => AllStacks
    BY DEF StopInv, StopChildren, AllStacks
  <1>2. Spec => [](TypeOK /\ PendingInv /\ StopInv)
    BY InitType, NextType, StopInit, StopNext, PTL DEF Spec
  <1> QED
    BY <1>1, <1>2, PTL
=============================================================================
