---------------------------- MODULE HeapSnapshot ----------------------------
(***************************************************************************)
(* The full snapshot: HeapSnapshotHandler::handleClient with the           *)
(* stop-the-world of src/StopWorld_linux.cpp, run by the server thread     *)
(* while it holds the ledger's lock (src/HeapServer.cpp).                  *)
(*                                                                         *)
(* The server sends every thread a signal whose handler parks the thread   *)
(* in a condition variable, sleeps a second, forks, and wakes the threads. *)
(* The forked child has a copy of one moment of the process: it dumps the  *)
(* ledger, the parked threads' stacks and the globals, and exits.          *)
(*                                                                         *)
(* External: the kernel's real-time signals (queued, one handler at a time *)
(* per thread), its timing, and libc's allocator with one internal lock.   *)
(***************************************************************************)
EXTENDS Naturals, Sequences, SequencesExt

CONSTANTS
    Threads,            \* application threads
    Server,             \* the server thread
    Tasks,              \* the entries of /proc/self/task, in order
    MaxSend,            \* entries boardcastSignal handles, and room in g_context
    MaxFds,             \* descriptors the process may open for the server
    Prompt,             \* TRUE: signals are handled within the second slept
    SpuriousWakeups,    \* TRUE: pthread_cond_wait may return by itself
    ForkMayFail,        \* TRUE: fork may return -1
    FreesOutsideLock,   \* TRUE: threads call myfree, which is outside the lock
    MaxSnapshots        \* clients served

ASSUME TaskAssumption ==
    /\ Server \notin Threads
    /\ Tasks \in Seq(Threads \cup {Server})
    /\ \A t \in Threads \cup {Server} :
          \E i \in DOMAIN Tasks : /\ Tasks[i] = t
                                  /\ \A j \in DOMAIN Tasks : Tasks[j] = t => j = i
ASSUME SnapshotBoundAssumption ==
    MaxSend \in Nat \ {0} /\ MaxFds \in Nat /\ MaxSnapshots \in Nat
ASSUME SnapshotFlagAssumption ==
    {Prompt, SpuriousWakeups, ForkMayFail, FreesOutsideLock} \subseteq BOOLEAN

VARIABLES
    where,          \* thread -> what its own code is doing
    hpc,            \* thread -> its signal handler's step
    pending,        \* thread -> signals queued for it
    disposition,    \* the signal's action
    oldAction,
    g_shouldSet,
    g_context,      \* contexts stored, in order, by thread; g_contextLen its length
    spc,            \* the server thread's step
    sendCount,      \* entries boardcastSignal has handled
    leaked,         \* descriptors of /proc/self/task never closed
    child,          \* snapshot -> the forked child
    forks,          \* snapshots forked or attempted
    killed,         \* the signal's default action ended the process
    strayed         \* history: some wait has returned by itself

signalVars == <<hpc, pending>>
worldVars == <<disposition, oldAction, g_shouldSet, g_context>>
serverVars == <<spc, sendCount, leaked, forks>>
vars == <<where, signalVars, worldVars, serverVars, child, killed, strayed>>

-----------------------------------------------------------------------------
(* What the threads' own code does, as far as locks matter: "locked" is a  *)
(* handler of src/main.cpp inside the ledger's lock, "alloc" the same      *)
(* inside libc's allocator, "free" do_free's myfree outside the lock.      *)

LedgerFree ==
    /\ \A t \in Threads : where[t] \notin {"locked", "alloc"}
    /\ spc \in {"idle", "lock", "dead"}

LibcFree == \A t \in Threads : where[t] \notin {"alloc", "free"}

Runs(t) == hpc[t] = "none" /\ ~killed

Move(t, from, to) ==
    /\ Runs(t)
    /\ where[t] = from
    /\ where' = [where EXCEPT ![t] = to]
    /\ UNCHANGED <<signalVars, worldVars, serverVars, child, killed, strayed>>

EnterLedger(t) == LedgerFree /\ Move(t, "app", "locked")
EnterAlloc(t) == LibcFree /\ Move(t, "locked", "alloc")
LeaveAlloc(t) == Move(t, "alloc", "locked")
LeaveLedger(t) == Move(t, "locked", "app")
EnterFree(t) == FreesOutsideLock /\ LibcFree /\ Move(t, "app", "free")
LeaveFree(t) == Move(t, "free", "app")

-----------------------------------------------------------------------------
(* The signal and its handler.  Each stretch of myaction under its mutex   *)
(* is one action: nothing blocks inside it.                                *)

(* The kernel delivers a queued signal to a thread that is not handling    *)
(* one.  The default action of a real-time signal ends the process.        *)
Deliver(t) ==
    /\ Runs(t)
    /\ pending[t] > 0
    /\ pending' = [pending EXCEPT ![t] = @ - 1]
    /\ IF disposition = "myaction"
       THEN hpc' = [hpc EXCEPT ![t] = "entered"] /\ UNCHANGED killed
       ELSE killed' = TRUE /\ UNCHANGED hpc
    /\ UNCHANGED <<where, worldVars, serverVars, child, strayed>>

(* Too late: the world is not being stopped any more.                      *)
ReturnAtOnce(t) ==
    /\ hpc[t] = "entered" /\ ~killed
    /\ ~g_shouldSet
    /\ hpc' = [hpc EXCEPT ![t] = "none"]
    /\ UNCHANGED <<where, pending, worldVars, serverVars, child, killed, strayed>>

(* Mutant: each handler stores its context in the first slot.              *)
ParkFirst(t) ==
    /\ hpc[t] = "entered" /\ ~killed
    /\ g_shouldSet
    /\ g_context' = <<t>>
    /\ hpc' = [hpc EXCEPT ![t] = "parked"]
    /\ UNCHANGED <<where, pending, disposition, oldAction, g_shouldSet,
                   serverVars, child, killed, strayed>>

(* Store the context and wait; pthread_cond_wait gives the mutex up.       *)
Park(t) ==
    /\ hpc[t] = "entered" /\ ~killed
    /\ g_shouldSet
    /\ g_context' = Append(g_context, t)
    /\ hpc' = [hpc EXCEPT ![t] = "parked"]
    /\ UNCHANGED <<where, pending, disposition, oldAction, g_shouldSet,
                   serverVars, child, killed, strayed>>

(* The wait is not in a loop.                                              *)
WakeSpuriously(t) ==
    /\ SpuriousWakeups
    /\ hpc[t] = "parked" /\ ~killed
    /\ hpc' = [hpc EXCEPT ![t] = "woken"]
    /\ strayed' = TRUE
    /\ UNCHANGED <<where, pending, worldVars, serverVars, child, killed>>

Leave(t) ==
    /\ hpc[t] = "woken" /\ ~killed
    /\ hpc' = [hpc EXCEPT ![t] = "none"]
    /\ UNCHANGED <<where, pending, worldVars, serverVars, child, killed, strayed>>

-----------------------------------------------------------------------------
(* The server thread.                                                      *)

ServerAt(p) == spc = p /\ ~killed

(* accept: with no descriptor left the server thread ends.                 *)
Accept ==
    /\ ServerAt("idle")
    /\ forks < MaxSnapshots
    /\ spc' = IF leaked + 1 <= MaxFds THEN "lock" ELSE "dead"
    /\ UNCHANGED <<where, signalVars, worldVars, sendCount, leaked, forks, child, killed, strayed>>

(* Mutant: the handler is called without the lock.                         *)
GoUnlocked ==
    /\ ServerAt("lock")
    /\ spc' = "install"
    /\ UNCHANGED <<where, signalVars, worldVars, sendCount, leaked, forks, child, killed, strayed>>

LockLedger ==
    /\ ServerAt("lock")
    /\ LedgerFree
    /\ spc' = "install"
    /\ UNCHANGED <<where, signalVars, worldVars, sendCount, leaked, forks, child, killed, strayed>>

(* Mutant: g_contextLen is not reset.                                      *)
InstallKeepingContexts ==
    /\ ServerAt("install")
    /\ oldAction' = disposition
    /\ disposition' = "myaction"
    /\ spc' = "open"
    /\ UNCHANGED <<where, signalVars, g_shouldSet, g_context, sendCount, leaked,
                   forks, child, killed, strayed>>

(* stopTheWorld: forget the old contexts and install the handler ...       *)
InstallHandler ==
    /\ ServerAt("install")
    /\ g_context' = <<>>
    /\ oldAction' = disposition
    /\ disposition' = "myaction"
    /\ spc' = "open"
    /\ UNCHANGED <<where, signalVars, g_shouldSet, sendCount, leaked, forks, child, killed, strayed>>

(* ... open the window, and /proc/self/task, which is never closed and     *)
(* whose failure to open is ignored ...                                    *)
OpenTasks ==
    /\ ServerAt("open")
    /\ g_shouldSet' = TRUE
    /\ sendCount' = 0
    /\ IF leaked + 2 <= MaxFds
       THEN spc' = "send" /\ leaked' = leaked + 1
       ELSE spc' = "sleep" /\ UNCHANGED leaked
    /\ UNCHANGED <<where, signalVars, disposition, oldAction, g_context,
                   forks, child, killed, strayed>>

(* Mutant: the task is signalled twice.                                    *)
SendTwice ==
    /\ ServerAt("send")
    /\ sendCount < MaxSend /\ sendCount < Len(Tasks)
    /\ LET t == Tasks[sendCount + 1]
       IN  pending' = IF t = Server THEN pending ELSE [pending EXCEPT ![t] = @ + 2]
    /\ sendCount' = sendCount + 1
    /\ UNCHANGED <<where, hpc, worldVars, spc, leaked, forks, child, killed, strayed>>

(* ... signal the next task that is not the server itself, which counts as *)
(* sent all the same ...                                                   *)
Send ==
    /\ ServerAt("send")
    /\ sendCount < MaxSend /\ sendCount < Len(Tasks)
    /\ LET t == Tasks[sendCount + 1]
       IN  pending' = IF t = Server THEN pending ELSE [pending EXCEPT ![t] = @ + 1]
    /\ sendCount' = sendCount + 1
    /\ UNCHANGED <<where, hpc, worldVars, spc, leaked, forks, child, killed, strayed>>

SendDone ==
    /\ ServerAt("send")
    /\ sendCount = MaxSend \/ sendCount = Len(Tasks)
    /\ spc' = "sleep"
    /\ UNCHANGED <<where, signalVars, worldVars, sendCount, leaked, forks, child, killed, strayed>>

(* Mutants: no sleep; a wait for every thread instead of the sleep.        *)
CloseAtOnce ==
    /\ ServerAt("sleep")
    /\ g_shouldSet' = FALSE
    /\ spc' = "fork"
    /\ UNCHANGED <<where, signalVars, disposition, oldAction, g_context,
                   sendCount, leaked, forks, child, killed, strayed>>

WaitForAll == CloseAtOnce /\ \A t \in Threads : hpc[t] = "parked"

(* ... sleep, and close the window.                                        *)
SleepAndClose ==
    /\ ServerAt("sleep")
    /\ Prompt => \A t \in Threads :
                     hpc[t] = "parked" \/ (hpc[t] = "none" /\ pending[t] = 0)
    /\ g_shouldSet' = FALSE
    /\ spc' = "fork"
    /\ UNCHANGED <<where, signalVars, disposition, oldAction, g_context,
                   sendCount, leaked, forks, child, killed, strayed>>

(* The child starts with the contexts and libc's lock as they are now.     *)
Fork ==
    /\ ServerAt("fork")
    /\ forks' = forks + 1
    /\ child' = [child EXCEPT ![forks + 1] =
                    [pc |-> "walk", stacks |-> ToSet(g_context), libcHeld |-> ~LibcFree]]
    /\ spc' = "restore"
    /\ UNCHANGED <<where, signalVars, worldVars, sendCount, leaked, killed, strayed>>

(* Nothing but a log line follows: the world is not restarted.             *)
ForkFails ==
    /\ ForkMayFail
    /\ ServerAt("fork")
    /\ forks' = forks + 1
    /\ spc' = "unlock"
    /\ UNCHANGED <<where, signalVars, worldVars, sendCount, leaked, child, killed, strayed>>

(* restartTheWorld: first the old action, then the broadcast.              *)
RestoreAction ==
    /\ ServerAt("restore")
    /\ disposition' = oldAction
    /\ spc' = "wake"
    /\ UNCHANGED <<where, signalVars, oldAction, g_shouldSet, g_context,
                   sendCount, leaked, forks, child, killed, strayed>>

(* Mutant: pthread_cond_signal wakes one thread.                           *)
WakeOne ==
    /\ ServerAt("wake")
    /\ \/ \E t \in Threads : hpc[t] = "parked" /\ hpc' = [hpc EXCEPT ![t] = "woken"]
       \/ (\A t \in Threads : hpc[t] # "parked") /\ UNCHANGED hpc
    /\ spc' = "unlock"
    /\ UNCHANGED <<where, pending, worldVars, sendCount, leaked, forks, child, killed, strayed>>

Broadcast ==
    /\ ServerAt("wake")
    /\ hpc' = [t \in Threads |-> IF hpc[t] = "parked" THEN "woken" ELSE hpc[t]]
    /\ spc' = "unlock"
    /\ UNCHANGED <<where, pending, worldVars, sendCount, leaked, forks, child, killed, strayed>>

UnlockLedger ==
    /\ ServerAt("unlock")
    /\ spc' = "idle"
    /\ UNCHANGED <<where, signalVars, worldVars, sendCount, leaked, forks, child, killed, strayed>>

-----------------------------------------------------------------------------
(* The child.  It is a process of its own: what happens to the parent      *)
(* after the fork does not touch it.                                       *)

ChildStep(n, from, to) ==
    /\ child[n].pc = from
    /\ child' = [child EXCEPT ![n].pc = to]
    /\ UNCHANGED <<where, signalVars, worldVars, serverVars, killed, strayed>>

(* The ledger's lock is disabled in the child, and the walk only sends.    *)
ChildWalk(n) == ChildStep(n, "walk", "maps")

(* MapParse::parseFile: fopen and the list's elements need the allocator.  *)
ChildMaps(n) == ~child[n].libcHeld /\ ChildStep(n, "maps", "stacks")

(* sendThreadData, then sendGlobalVariable, shutdown and _exit.            *)
ChildStacks(n) == ChildStep(n, "stacks", "globals")
ChildGlobals(n) == ChildStep(n, "globals", "done")

-----------------------------------------------------------------------------
NoChild == [pc |-> "none", stacks |-> {}, libcHeld |-> FALSE]

Init ==
    /\ where = [t \in Threads |-> "app"]
    /\ hpc = [t \in Threads |-> "none"]
    /\ pending = [t \in Threads |-> 0]
    /\ disposition = "default" /\ oldAction = "default"
    /\ g_shouldSet = FALSE /\ g_context = <<>>
    /\ spc = "idle" /\ sendCount = 0 /\ leaked = 0 /\ forks = 0
    /\ child = [n \in 1 .. MaxSnapshots |-> NoChild]
    /\ killed = FALSE /\ strayed = FALSE

(* Starting a call is the application's choice; finishing it is not.       *)
Finish(t) == EnterAlloc(t) \/ LeaveAlloc(t) \/ LeaveLedger(t) \/ LeaveFree(t)

Signal(t) == Deliver(t) \/ ReturnAtOnce(t) \/ Park(t) \/ Leave(t)

Serve ==
    \/ LockLedger \/ InstallHandler \/ OpenTasks \/ Send \/ SendDone
    \/ SleepAndClose \/ Fork \/ ForkFails \/ RestoreAction \/ Broadcast \/ UnlockLedger

Child(n) == ChildWalk(n) \/ ChildMaps(n) \/ ChildStacks(n) \/ ChildGlobals(n)

Next ==
    \/ \E t \in Threads :
          EnterLedger(t) \/ EnterFree(t) \/ Finish(t) \/ Signal(t) \/ WakeSpuriously(t)
    \/ Accept \/ Serve
    \/ \E n \in 1 .. MaxSnapshots : Child(n)

Spec == Init /\ [][Next]_vars

(* Threads are scheduled, signals are delivered in the end, and the client *)
(* reads what it is sent.                                                  *)
Fairness ==
    /\ \A t \in Threads : WF_vars(Signal(t)) /\ WF_vars(LeaveAlloc(t) \/ LeaveFree(t))
    /\ \A t \in Threads : WF_vars(LeaveLedger(t))
    /\ WF_vars(Serve)
    /\ \A n \in 1 .. MaxSnapshots : WF_vars(Child(n))

FairSpec == Spec /\ Fairness

-----------------------------------------------------------------------------
(* Properties.                                                             *)

TypeOK ==
    /\ where \in [Threads -> {"app", "locked", "alloc", "free"}]
    /\ hpc \in [Threads -> {"none", "entered", "parked", "woken"}]
    /\ pending \in [Threads -> 0 .. MaxSnapshots]
    /\ {disposition, oldAction} \subseteq {"default", "myaction"}
    /\ g_shouldSet \in BOOLEAN
    /\ g_context \in Seq(Threads)
    /\ spc \in {"idle", "lock", "install", "open", "send", "sleep", "fork",
                "restore", "wake", "unlock", "dead"}
    /\ sendCount \in 0 .. MaxSend
    /\ leaked \in 0 .. MaxFds /\ forks \in 0 .. MaxSnapshots
    /\ child \in [1 .. MaxSnapshots ->
                    [pc : {"none", "walk", "maps", "stacks", "globals", "done"},
                     stacks : SUBSET Threads, libcHeld : BOOLEAN]]
    /\ killed \in BOOLEAN /\ strayed \in BOOLEAN

(* When signals are handled within the second slept, no thread runs        *)
(* application code at the fork: each is parked in its signal handler.     *)
WorldStopped == spc = "fork" => \A t \in Threads : hpc[t] = "parked"

(* The ledger the child copies is never in the middle of an update, even   *)
(* when threads miss the stop: the server holds the lock since before it.  *)
LedgerQuiet ==
    spc \in {"open", "send", "sleep", "fork"} =>
        \A t \in Threads : where[t] \notin {"locked", "alloc"}

(* A context is a pointer into the stack of a handler that is still        *)
(* waiting when the child copies it: never one left over from an earlier   *)
(* stop, and never the same thread twice.  The array never overflows,      *)
(* however late the handlers run.  (Not once a wait has returned early.)   *)
ContextsParked ==
    ~strayed =>
        /\ Len(g_context) <= MaxSend
        /\ spc = "fork" =>
            /\ \A i \in DOMAIN g_context : hpc[g_context[i]] = "parked"
            /\ IsInjective(g_context)

(* A snapshot takes every other thread's stack and does the process no     *)
(* harm: no signal is left to meet its default action.                     *)
AllStacks ==
    /\ ~killed
    /\ \A n \in 1 .. MaxSnapshots : child[n].pc = "done" => child[n].stacks = Threads

(* No wakeup is lost: a thread that entered the handler gets back to its   *)
(* own code, also when it arrives after the broadcast, unless a fork       *)
(* failed: then the world is not restarted.                                *)
ForkFailed == \E n \in 1 .. forks : child[n].pc = "none"
ThreadsResume == \A t \in Threads : hpc[t] # "none" ~> hpc[t] = "none" \/ killed \/ ForkFailed

(* The server gives the ledger's lock back, even when fork fails, threads  *)
(* miss the stop or descriptors run out: handleClient never waits for a    *)
(* thread it has parked.                                                   *)
ServerReleases == spc \notin {"idle", "lock", "dead"} ~> spc = "idle" \/ killed

(* Every snapshot is finished: the child gets through the maps, stacks and *)
(* globals.                                                                *)
SnapshotsFinish ==
    \A n \in 1 .. MaxSnapshots : child[n].pc = "walk" ~> child[n].pc = "done"
=============================================================================
