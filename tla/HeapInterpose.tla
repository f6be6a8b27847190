--------------------------- MODULE HeapInterpose ---------------------------
(***************************************************************************)
(* The allocation hooks (src/main.cpp), the heap ledger they keep          *)
(* (src/HeapInfo.cpp) and the server thread that walks the ledger          *)
(* (src/HeapServer.cpp with src/LightSnapshotHandler.cpp).                 *)
(*                                                                         *)
(* Application threads call the interposed malloc, free, calloc, realloc,  *)
(* memalign, mmap and munmap.  A handler takes the recursive mutex, calls  *)
(* libc, and adds or removes chunk records unless the thread already held  *)
(* the mutex: libc itself maps and unmaps arena pages through the same     *)
(* hooks while a handler is calling it.  A call is therefore a stack of at *)
(* most two frames per thread, and each step of a frame is an action.      *)
(*                                                                         *)
(* libc is external: it hands out any free block or page, may fail, and    *)
(* may call mmap or munmap from inside an allocation.                      *)
(***************************************************************************)
EXTENDS Naturals

CONSTANTS
    Threads,            \* application threads
    Server,             \* the server thread
    None,               \* nobody
    Addr,               \* addresses libc's allocator can return
    Page,               \* addresses of pages the kernel can map
    Sizes,              \* sizes an application asks for
    PageSize,           \* PAGE_SIZE
    Ops,                \* the functions the application calls
    NestPcs,            \* steps inside which libc calls the hooks back
    LibcLocks,          \* TRUE: libc holds its own lock while it calls back
    MemalignFails,      \* TRUE: memalign can return NULL
    ReallocZeroFrees,   \* TRUE: realloc(p, 0) frees p and returns NULL
    EarlyThreads,       \* TRUE: threads run while Constructor installs hooks
    MaxCalls,           \* calls per thread
    MaxNests,           \* nested calls in all
    MaxWalks            \* walks of the ledger

Depth == {1, 2}
Key == Addr \cup Page

AllocOps == {"malloc", "calloc", "memalign"}
FreeingOps == {"free", "munmap"}
AllOps == AllocOps \cup FreeingOps \cup {"realloc", "mmap"}
Pcs == {"idle", "map", "lock", "alloc", "record", "forget", "unlock", "release"}

ASSUME ServerAssumption == Server \notin Threads /\ None \notin Threads \cup {Server}
ASSUME KeyAssumption == Addr \cap Page = {}
ASSUME SizeAssumption == Sizes \subseteq Nat /\ PageSize \in Nat
ASSUME OpsAssumption == Ops \subseteq AllOps /\ NestPcs \subseteq Pcs
ASSUME FlagAssumption ==
    {LibcLocks, MemalignFails, ReallocZeroFrees, EarlyThreads} \subseteq BOOLEAN
ASSUME BoundAssumption == MaxCalls \in Nat /\ MaxNests \in Nat /\ MaxWalks \in Nat

(* Chunk records: the size, and whether the MMAP flag is set.  The         *)
(* backtrace is not modelled here.                                         *)
NoInfo == [size |-> 0, flag |-> "none"]
PageInfo == [size |-> PageSize, flag |-> "mmap"]
HeapInfo(s) == [size |-> s, flag |-> "heap"]
Infos == [size : Nat, flag : {"none", "heap", "mmap"}]

(* Memory as libc and the kernel see it: who was given an address, of what *)
(* size, and whether the call that gave it went through a do_* handler.    *)
FreeMem == [owner |-> "none", size |-> 0, seen |-> FALSE]
Mems == [owner : {"none", "app", "libc"}, size : Nat, seen : BOOLEAN]

(* A call in progress: the addresses it was passed and those it obtained.  *)
NoCall == [op |-> "none", hooked |-> FALSE, arg |-> {}, ret |-> {}, size |-> 0]
Calls == [op : AllOps \cup {"none"}, hooked : BOOLEAN,
          arg : SUBSET Key, ret : SUBSET Key, size : Nat]

VARIABLES
    installed,      \* handle* pointers already switched to do_*, in order
    owner,          \* s_restoreMutex: who holds it ...
    depth,          \* ... and how many times
    s_lockCount,
    m_infoMap,      \* the ledger: address -> record
    mem,            \* address -> state of the memory there
    pc,             \* thread -> frame -> next step
    call,           \* thread -> frame -> the call it executes
    calls,          \* thread -> calls made so far (bounds the run)
    nests,          \* nested calls made so far (bounds the run)
    spc,            \* the server thread's step
    todo,           \* ledger slots the walk has not visited
    sent,           \* entries this walk has sent: [key, len]
    report,         \* the entries of the last complete walk
    walks           \* walks made so far (bounds the run)

lockVars == <<owner, depth, s_lockCount>>
threadVars == <<pc, call>>
countVars == <<calls, nests>>
serverVars == <<spc, todo, sent, report, walks>>
vars == <<installed, lockVars, m_infoMap, mem, threadVars, countVars, serverVars>>

-----------------------------------------------------------------------------
(* The mutex, s_lockCount and the tests the handlers make on them.         *)

(* Mutants: the count is forgotten; the mutex is not a mutex.              *)
lockWithoutCount(t) ==
    /\ owner \in {None, t}
    /\ owner' = t
    /\ depth' = depth + 1
    /\ UNCHANGED s_lockCount

lockWithoutOwner(t) ==
    /\ owner' = t
    /\ depth' = depth + 1
    /\ s_lockCount' = s_lockCount + 1

lockHeapInfo(t) ==
    /\ owner \in {None, t}
    /\ owner' = t
    /\ depth' = depth + 1
    /\ s_lockCount' = s_lockCount + 1

unlockHeapInfo(t) ==
    /\ owner' = IF depth = 1 THEN None ELSE owner
    /\ depth' = depth - 1
    /\ s_lockCount' = s_lockCount - 1

(* Mutants: off by one, either way.                                        *)
lockedOnceIsRecursive == s_lockCount > 0
lockedTwiceIsNotRecursive == s_lockCount > 2

isCurrentThreadLockedRecursive == s_lockCount > 1

registerChunkInfo(ks, info, map) ==
    [k \in Key |-> IF k \in ks THEN info ELSE map[k]]

unregisterChunkInfo(ks, map) ==
    [k \in Key |-> IF k \in ks THEN NoInfo ELSE map[k]]

(* The order in which Constructor switches the handlers.                   *)
HandlerOrder == <<"malloc", "free", "calloc", "realloc", "memalign",
                  "malloc_usable_size", "mmap", "munmap">>

Hooked(op) == \E i \in 1 .. installed : HandlerOrder[i] = op

-----------------------------------------------------------------------------
(* Frames.                                                                 *)

(* The record due to memory obtained by a call.                            *)
InfoFor(c) == IF c.op = "mmap" THEN PageInfo ELSE HeapInfo(c.size)

Runnable(t, d) == d = 2 \/ pc[t][2] = "idle"

(* Addresses their holder may pass to a call: not in use by one already.   *)
Available(who) ==
    {k \in Key : /\ mem[k].owner = who
                 /\ \A t \in Threads, d \in Depth :
                       k \notin call[t][d].arg \cup call[t][d].ret}

Holder(d) == IF d = 1 THEN "app" ELSE "libc"

(* libc's allocator is free for t: no other thread is inside it.  Between  *)
(* steps a thread is inside it only when it was called back from there.    *)
AllocatorFree(t) == LibcLocks => \A u \in Threads \ {t} : pc[u][2] = "idle"

Goto(t, d, p) == pc' = [pc EXCEPT ![t][d] = p]

Return(t, d) ==
    /\ Goto(t, d, "idle")
    /\ call' = [call EXCEPT ![t][d] = NoCall]

FirstPc(op, hooked) ==
    IF op = "mmap" THEN "map"
    ELSE IF hooked THEN "lock"
    ELSE IF op \in FreeingOps THEN "release" ELSE "alloc"

Enter(t, d, op, arg, size) ==
    /\ pc[t][d] = "idle"
    /\ Goto(t, d, FirstPc(op, Hooked(op)))
    /\ call' = [call EXCEPT ![t][d] =
                    [op |-> op, hooked |-> Hooked(op), arg |-> arg, ret |-> {}, size |-> size]]
    /\ UNCHANGED <<installed, lockVars, m_infoMap, mem, serverVars>>

(* Constructor runs in the main thread before it calls anything else.      *)
MayCall(t) ==
    /\ calls[t] < MaxCalls
    /\ installed \in {0, 8} \/ EarlyThreads

Call(t, op, arg, size) ==
    /\ op \in Ops
    /\ MayCall(t)
    /\ Runnable(t, 1)
    /\ Enter(t, 1, op, arg, size)
    /\ calls' = [calls EXCEPT ![t] = @ + 1]
    /\ UNCHANGED nests

CallAlloc(t) == \E op \in AllocOps, s \in Sizes : Call(t, op, {}, s)

CallFree(t) == \E a \in Available("app") \cap Addr : Call(t, "free", {a}, 0)

CallRealloc(t) ==
    \E arg \in {{}} \cup {{a} : a \in Available("app") \cap Addr}, s \in Sizes \cup {0} :
        Call(t, "realloc", arg, s)

CallMmap(t) == Call(t, "mmap", {}, PageSize)

CallMunmap(t) ==
    \E ps \in (SUBSET (Available("app") \cap Page)) \ {{}} : Call(t, "munmap", ps, 0)

(* libc grows or trims its arena from inside a step of the outer frame.    *)
CallBack(t) ==
    /\ nests < MaxNests
    /\ pc[t][1] \in NestPcs
    /\ AllocatorFree(t)
    /\ \/ /\ pc[t][1] \in {"alloc", "record", "forget"}
          /\ Enter(t, 2, "mmap", {}, PageSize)
       \/ /\ pc[t][1] \in {"alloc", "record", "forget"} \/ call[t][1].op = "free"
          /\ \E p \in Available("libc") \cap Page : Enter(t, 2, "munmap", {p}, 0)
    /\ nests' = nests + 1
    /\ UNCHANGED calls

-----------------------------------------------------------------------------
(* The steps of a handler.                                                 *)

(* mymmap, before the lock is taken; MAP_FAILED returns at once.           *)
Map(t, d) ==
    /\ pc[t][d] = "map"
    /\ Runnable(t, d)
    /\ \/ \E ps \in (SUBSET {p \in Page : mem[p].owner = "none"}) \ {{}} :
             /\ mem' = [k \in Key |->
                          IF k \in ps
                          THEN [owner |-> Holder(d), size |-> PageSize,
                                seen |-> call[t][d].hooked]
                          ELSE mem[k]]
             /\ IF call[t][d].hooked
                THEN /\ Goto(t, d, "lock")
                     /\ call' = [call EXCEPT ![t][d].ret = ps]
                ELSE Return(t, d)
       \/ Return(t, d) /\ UNCHANGED mem
    /\ UNCHANGED <<installed, lockVars, m_infoMap, countVars, serverVars>>

AfterLock(op) ==
    IF op = "mmap" THEN "record"
    ELSE IF op \in FreeingOps THEN "forget" ELSE "alloc"

Lock(t, d) ==
    /\ pc[t][d] = "lock"
    /\ Runnable(t, d)
    /\ lockHeapInfo(t)
    /\ Goto(t, d, AfterLock(call[t][d].op))
    /\ UNCHANGED <<installed, m_infoMap, mem, call, countVars, serverVars>>

(* mymalloc, mycalloc, mymemalign or myrealloc returned memory: the old    *)
(* block of a realloc is the new one, or it is free again.                 *)
AllocSucceeds(t, d) ==
    /\ pc[t][d] = "alloc"
    /\ Runnable(t, d)
    /\ AllocatorFree(t)
    /\ \E a \in Addr :
          /\ mem[a].owner = "none" \/ a \in call[t][d].arg
          /\ mem' = [k \in Key |->
                       IF k = a
                       THEN [owner |-> Holder(d), size |-> call[t][d].size,
                             seen |-> call[t][d].hooked]
                       ELSE IF k \in call[t][d].arg THEN FreeMem ELSE mem[k]]
          /\ IF call[t][d].hooked
             THEN /\ Goto(t, d, "record")
                  /\ call' = [call EXCEPT ![t][d].ret = {a}]
             ELSE Return(t, d)
    /\ UNCHANGED <<installed, lockVars, m_infoMap, countVars, serverVars>>

(* Mutant: every handler leaves after its unlock, as do_memalign does.     *)
AfterNullLeaks(c) == "idle"

(* libc returned NULL.  Every handler leaves through its unlock except     *)
(* do_memalign, whose label exit: comes after it.                          *)
AfterNull(c) == IF c.hooked /\ c.op # "memalign" THEN "unlock" ELSE "idle"

AllocFails(t, d) ==
    /\ pc[t][d] = "alloc"
    /\ Runnable(t, d)
    /\ AllocatorFree(t)
    /\ call[t][d].op = "memalign" => MemalignFails
    /\ \/ UNCHANGED mem
       \/ /\ ReallocZeroFrees
          /\ call[t][d].op = "realloc" /\ call[t][d].size = 0
          /\ mem' = [k \in Key |-> IF k \in call[t][d].arg THEN FreeMem ELSE mem[k]]
    /\ IF AfterNull(call[t][d]) = "idle"
       THEN Return(t, d)
       ELSE Goto(t, d, AfterNull(call[t][d])) /\ UNCHANGED call
    /\ UNCHANGED <<installed, lockVars, m_infoMap, countVars, serverVars>>

(* Mutant: do_realloc does not unregister the old block.                   *)
RecordOnly(t, d) ==
    /\ pc[t][d] = "record"
    /\ Runnable(t, d)
    /\ AllocatorFree(t)
    /\ m_infoMap' =
         IF isCurrentThreadLockedRecursive THEN m_infoMap
         ELSE registerChunkInfo(call[t][d].ret, InfoFor(call[t][d]), m_infoMap)
    /\ Goto(t, d, "unlock")
    /\ UNCHANGED <<installed, lockVars, mem, call, countVars, serverVars>>

(* Register what was obtained, after unregistering what realloc consumed.  *)
Record(t, d) ==
    /\ pc[t][d] = "record"
    /\ Runnable(t, d)
    /\ AllocatorFree(t)
    /\ m_infoMap' =
         IF isCurrentThreadLockedRecursive THEN m_infoMap
         ELSE registerChunkInfo(call[t][d].ret, InfoFor(call[t][d]),
                                unregisterChunkInfo(call[t][d].arg, m_infoMap))
    /\ Goto(t, d, "unlock")
    /\ UNCHANGED <<installed, lockVars, mem, call, countVars, serverVars>>

(* Unregister what free or munmap is about to give back.                   *)
Forget(t, d) ==
    /\ pc[t][d] = "forget"
    /\ Runnable(t, d)
    /\ AllocatorFree(t)
    /\ m_infoMap' =
         IF isCurrentThreadLockedRecursive THEN m_infoMap
         ELSE unregisterChunkInfo(call[t][d].arg, m_infoMap)
    /\ Goto(t, d, "unlock")
    /\ UNCHANGED <<installed, lockVars, mem, call, countVars, serverVars>>

Unlock(t, d) ==
    /\ pc[t][d] = "unlock"
    /\ Runnable(t, d)
    /\ unlockHeapInfo(t)
    /\ IF call[t][d].op \in FreeingOps
       THEN Goto(t, d, "release") /\ UNCHANGED call
       ELSE Return(t, d)
    /\ UNCHANGED <<installed, m_infoMap, mem, countVars, serverVars>>

(* myfree or mymunmap, after the lock was given up.                        *)
Release(t, d) ==
    /\ pc[t][d] = "release"
    /\ Runnable(t, d)
    /\ call[t][d].op = "free" => AllocatorFree(t)
    /\ mem' = [k \in Key |-> IF k \in call[t][d].arg THEN FreeMem ELSE mem[k]]
    /\ Return(t, d)
    /\ UNCHANGED <<installed, lockVars, m_infoMap, countVars, serverVars>>

-----------------------------------------------------------------------------
(* Constructor switches the next handler.                                  *)
Install ==
    /\ installed < 8
    /\ EarlyThreads \/ \A t \in Threads : pc[t][1] = "idle"
    /\ installed' = installed + 1
    /\ UNCHANGED <<lockVars, m_infoMap, mem, threadVars, countVars, serverVars>>

(* The server thread: a client connected, and its handler walks the ledger *)
(* under the lock, sending one entry at a time.                            *)
Accept ==
    /\ spc = "wait"
    /\ walks < MaxWalks
    /\ spc' = "lock"
    /\ walks' = walks + 1
    /\ UNCHANGED <<installed, lockVars, m_infoMap, mem, threadVars, countVars,
                   todo, sent, report>>

(* Mutant: the server walks without the lock.                              *)
WalkUnlocked ==
    /\ spc = "lock"
    /\ spc' = "walk"
    /\ todo' = Key
    /\ sent' = {}
    /\ UNCHANGED <<installed, lockVars, m_infoMap, mem, threadVars, countVars,
                   report, walks>>

LockServer ==
    /\ spc = "lock"
    /\ lockHeapInfo(Server)
    /\ spc' = "walk"
    /\ todo' = Key
    /\ sent' = {}
    /\ UNCHANGED <<installed, m_infoMap, mem, threadVars, countVars, report, walks>>

(* hashWalk rounds the length up to whole words.                           *)
WalkEntry(k) == [key |-> k, len |-> ((m_infoMap[k].size + 3) \div 4) * 4]

(* notifyChunk leaves out pages that mincore does not find resident, and   *)
(* mincore fails for pages no longer mapped.                               *)
MaySend(k) == m_infoMap[k].flag = "mmap" => mem[k].owner # "none"

Walk(k) ==
    /\ spc = "walk"
    /\ k \in todo
    /\ todo' = todo \ {k}
    /\ \/ m_infoMap[k] # NoInfo /\ MaySend(k) /\ sent' = sent \cup {WalkEntry(k)}
       \/ m_infoMap[k].flag \in {"none", "mmap"} /\ UNCHANGED sent
    /\ UNCHANGED <<installed, lockVars, m_infoMap, mem, threadVars, countVars,
                   spc, report, walks>>

UnlockServer ==
    /\ spc = "walk"
    /\ todo = {}
    /\ unlockHeapInfo(Server)
    /\ spc' = "wait"
    /\ report' = sent
    /\ sent' = {}
    /\ UNCHANGED <<installed, m_infoMap, mem, threadVars, countVars, todo, walks>>

-----------------------------------------------------------------------------
Init ==
    /\ installed = 0
    /\ owner = None /\ depth = 0 /\ s_lockCount = 0
    /\ m_infoMap = [k \in Key |-> NoInfo]
    /\ mem = [k \in Key |-> FreeMem]
    /\ pc = [t \in Threads |-> [d \in Depth |-> "idle"]]
    /\ call = [t \in Threads |-> [d \in Depth |-> NoCall]]
    /\ calls = [t \in Threads |-> 0] /\ nests = 0
    /\ spc = "wait" /\ todo = {} /\ sent = {} /\ report = {} /\ walks = 0

Start(t) == CallAlloc(t) \/ CallFree(t) \/ CallRealloc(t) \/ CallMmap(t) \/ CallMunmap(t)

Step(t, d) ==
    \/ Map(t, d) \/ Lock(t, d) \/ AllocSucceeds(t, d) \/ AllocFails(t, d)
    \/ Record(t, d) \/ Forget(t, d) \/ Unlock(t, d) \/ Release(t, d)

ServerStep == LockServer \/ (\E k \in Key : Walk(k)) \/ UnlockServer

Next ==
    \/ Install
    \/ \E t \in Threads : Start(t) \/ CallBack(t) \/ \E d \in Depth : Step(t, d)
    \/ Accept \/ ServerStep

Spec == Init /\ [][Next]_vars

(* A thread that can take its next step takes it, and so does the server   *)
(* unless it sends: the client need not read.  Nothing obliges the         *)
(* application to call, a client to connect or libc to call back.          *)
Fairness ==
    /\ \A t \in Threads : \A d \in Depth : WF_vars(Step(t, d))
    /\ WF_vars(LockServer \/ UnlockServer)

FairSpec == Spec /\ Fairness
-----------------------------------------------------------------------------
(* Properties.                                                             *)

(* Every variable keeps its type; the counters stay in their bounds.       *)
TypeOK ==
    /\ installed \in 0 .. 8
    /\ owner \in Threads \cup {Server, None}
    /\ depth \in Nat /\ s_lockCount \in Nat
    /\ m_infoMap \in [Key -> Infos]
    /\ mem \in [Key -> Mems]
    /\ pc \in [Threads -> [Depth -> Pcs]]
    /\ call \in [Threads -> [Depth -> Calls]]
    /\ calls \in [Threads -> 0 .. MaxCalls]
    /\ nests \in 0 .. MaxNests
    /\ spc \in {"wait", "lock", "walk"}
    /\ todo \in SUBSET Key
    /\ sent \in SUBSET [key : Key, len : Nat]
    /\ report \in SUBSET [key : Key, len : Nat]
    /\ walks \in 0 .. MaxWalks

(* A frame between its lockHeapInfo and its unlockHeapInfo.                *)
InLock(t, d) ==
    \/ pc[t][d] \in {"record", "forget", "unlock"}
    \/ pc[t][d] = "alloc" /\ call[t][d].hooked

Locks(t) == (IF InLock(t, 1) THEN 1 ELSE 0) + (IF InLock(t, 2) THEN 1 ELSE 0)

(* s_lockCount says how often the mutex is held, and whoever is between    *)
(* lockHeapInfo and unlockHeapInfo (a nested hook counts again) holds it   *)
(* that often: so the count a handler reads is its own, never another      *)
(* thread's, and the ledger has one user at a time.                        *)
LockInv ==
    /\ s_lockCount = depth
    /\ depth = 0 <=> owner = None
    /\ \A t \in Threads : Locks(t) > 0 => owner = t /\ depth >= Locks(t)
    /\ owner = Server <=> spc = "walk"
    /\ owner = Server => depth = 1

Recorded == {k \in Key : m_infoMap[k] # NoInfo}

MemInfo(k) == IF k \in Page THEN PageInfo ELSE HeapInfo(mem[k].size)

(* A realloc whose block libc has replaced and whose record is not renewed *)
(* yet; its thread holds the lock.                                         *)
BeingRenewed(k) ==
    \E t \in Threads, d \in Depth :
        call[t][d].op = "realloc" /\ pc[t][d] = "record" /\ k \in call[t][d].arg

(* No stale record: what the ledger holds is memory the application owns,  *)
(* with the size it last asked for, however calls interleave and although  *)
(* do_free gives the block back outside the lock.                          *)
LedgerSound ==
    \A k \in Recorded :
        BeingRenewed(k) \/ (mem[k].owner = "app" /\ m_infoMap[k] = MemInfo(k))

(* No lost record: memory the application obtained through the do_*        *)
(* handlers and is free to use is on record with its size.                 *)
LedgerComplete ==
    \A k \in Available("app") : mem[k].seen => m_infoMap[k] = MemInfo(k)

(* libc's own arena, mapped through the same hooks while a handler is      *)
(* calling libc, never reaches the ledger.                                 *)
LibcUnrecorded == \A k \in Recorded : mem[k].owner # "libc"

(* While a walk is sending, nothing it has sent goes away or changes.      *)
SentIsRecorded == \A e \in sent : e.key \in Recorded /\ e = WalkEntry(e.key)

(* A report names allocations: whatever a walk has sent is memory the      *)
(* application owns while the walk goes on.                                *)
SentIsAllocated == \A e \in sent : mem[e.key].owner = "app"

(* Two locks in two orders: a thread has been called back by libc from     *)
(* myfree, with libc's lock, and waits for the ledger's; its owner is      *)
(* about to call libc.                                                     *)
LocksCrossed ==
    \E t, u \in Threads :
        /\ pc[t][1] = "release" /\ pc[t][2] = "lock"
        /\ owner = u /\ pc[u][1] \in {"alloc", "record", "forget"} /\ ~AllocatorFree(u)

(* The client of a walk stops reading, and the server sends for ever.      *)
ClientStalls == <>[](spc = "walk")

ClientReads == WF_vars(\E k \in Key : Walk(k))

(* In an application that does not call memalign (when that fails,         *)
(* do_memalign keeps the lock) a thread can wait for ever for two reasons  *)
(* only, whatever the others, libc and the server do: a client that stops  *)
(* reading in the middle of a walk, and libc's lock and the ledger's       *)
(* taken crosswise.  Otherwise every call comes back.                      *)
CallsReturn ==
    "memalign" \notin Ops =>
        ClientStalls \/ \A t \in Threads : pc[t][1] # "idle" ~> pc[t][1] = "idle" \/ LocksCrossed

(* Every client that was accepted and reads gets its whole report, under   *)
(* the same conditions.                                                    *)
WalksFinish ==
    "memalign" \notin Ops /\ ClientReads => (spc # "wait" ~> spc = "wait" \/ LocksCrossed)

(* The ledger and the reports behave as LedgerSpec promises.               *)
Ledger == INSTANCE LedgerSpec WITH
    known <- m_infoMap,
    HeapInfos <- {HeapInfo(s) : s \in Sizes \cup {0}}

LedgerSpecHolds == Ledger!Spec
=============================================================================
