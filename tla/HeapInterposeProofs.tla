------------------------ MODULE HeapInterposeProofs ------------------------
(***************************************************************************)
(* Theorems about HeapInterpose for every set of threads, addresses and    *)
(* pages and every bound.                                                  *)
(*                                                                         *)
(* The first part (types, the lock, the walk) holds for every setting of   *)
(* the flags about libc.  The second, from LedgerAssumptions on, is that   *)
(* the ledger is right: nothing stale is on record, nothing the            *)
(* application obtained is missing, libc's own pages stay out, and the     *)
(* hooks implement LedgerSpec.                                             *)
(***************************************************************************)
EXTENDS HeapInterpose, TLAPS

-----------------------------------------------------------------------------
(* Type correctness.                                                       *)

LEMMA InfosType ==
    /\ NoInfo \in Infos /\ PageInfo \in Infos
    /\ \A s \in Nat : HeapInfo(s) \in Infos
    /\ FreeMem \in Mems /\ NoCall \in Calls
  BY SizeAssumption DEF NoInfo, PageInfo, HeapInfo, Infos, FreeMem, Mems, NoCall, Calls

LEMMA InitType == Init => TypeOK
  BY InfosType, BoundAssumption DEF Init, TypeOK, Pcs

(* Starting a call or a nested call.                                       *)
LEMMA EnterType ==
    ASSUME TypeOK, NEW t \in Threads, NEW d \in Depth, NEW op \in AllOps,
           NEW arg \in SUBSET Key, NEW size \in Nat, Enter(t, d, op, arg, size)
    PROVE  pc' \in [Threads -> [Depth -> Pcs]] /\ call' \in [Threads -> [Depth -> Calls]]
  <1>1. FirstPc(op, Hooked(op)) \in Pcs
    BY DEF FirstPc, Pcs
  <1>2. Hooked(op) \in BOOLEAN
    BY DEF Hooked
  <1>3. [op |-> op, hooked |-> Hooked(op), arg |-> arg, ret |-> {}, size |-> size] \in Calls
    BY <1>2 DEF Calls
  <1> QED
    BY <1>1, <1>3 DEF Enter, Goto, TypeOK

LEMMA StartType ==
    ASSUME TypeOK, NEW t \in Threads, Start(t)
    PROVE  TypeOK'
  <1>1. ASSUME NEW op \in AllOps, NEW arg \in SUBSET Key, NEW size \in Nat,
               Call(t, op, arg, size)
        PROVE  TypeOK'
    <2>1. /\ Enter(t, 1, op, arg, size)
          /\ calls[t] < MaxCalls
          /\ calls' = [calls EXCEPT ![t] = @ + 1]
          /\ UNCHANGED nests
      BY <1>1 DEF Call, MayCall
    <2>2. calls' \in [Threads -> 0 .. MaxCalls]
      BY <2>1, BoundAssumption DEF TypeOK
    <2>3. pc' \in [Threads -> [Depth -> Pcs]] /\ call' \in [Threads -> [Depth -> Calls]]
      BY <2>1, EnterType DEF Depth
    <2> QED
      BY <2>1, <2>2, <2>3 DEF TypeOK, Enter, lockVars, serverVars
  <1>2. CASE CallAlloc(t)
    BY <1>1, <1>2, SizeAssumption DEF CallAlloc, AllOps
  <1>3. CASE CallFree(t)
    BY <1>1, <1>3 DEF CallFree, Available, AllOps, FreeingOps
  <1>4. CASE CallRealloc(t)
    <2>1. \A a \in Available("app") : a \in Key
      BY DEF Available
    <2>2. Sizes \cup {0} \subseteq Nat
      BY SizeAssumption
    <2> QED
      BY <1>1, <1>4, <2>1, <2>2 DEF CallRealloc, AllOps
  <1>5. CASE CallMmap(t)
    BY <1>1, <1>5, SizeAssumption DEF CallMmap, AllOps
  <1>6. CASE CallMunmap(t)
    BY <1>1, <1>6 DEF CallMunmap, Available, AllOps, FreeingOps
  <1> QED
    BY <1>2, <1>3, <1>4, <1>5, <1>6 DEF Start

LEMMA CallBackType ==
    ASSUME TypeOK, NEW t \in Threads, CallBack(t)
    PROVE  TypeOK'
  <1>1. PICK op \in AllOps, arg \in SUBSET Key, size \in Nat : Enter(t, 2, op, arg, size)
    BY SizeAssumption DEF CallBack, AllOps, FreeingOps, Available
  <1>2. pc' \in [Threads -> [Depth -> Pcs]] /\ call' \in [Threads -> [Depth -> Calls]]
    BY <1>1, EnterType DEF Depth
  <1>3. nests' \in 0 .. MaxNests
    BY BoundAssumption DEF CallBack, TypeOK
  <1> QED
    BY <1>1, <1>2, <1>3 DEF TypeOK, Enter, CallBack, lockVars, serverVars

LEMMA GotoType ==
    ASSUME TypeOK, NEW t \in Threads, NEW d \in Depth, NEW p \in Pcs, Goto(t, d, p)
    PROVE  pc' \in [Threads -> [Depth -> Pcs]]
  BY DEF Goto, TypeOK

LEMMA ReturnType ==
    ASSUME TypeOK, NEW t \in Threads, NEW d \in Depth, Return(t, d)
    PROVE  pc' \in [Threads -> [Depth -> Pcs]] /\ call' \in [Threads -> [Depth -> Calls]]
  BY GotoType, InfosType DEF Return, Goto, Pcs, TypeOK

LEMMA LockType ==
    ASSUME TypeOK, NEW t \in Threads \cup {Server}, lockHeapInfo(t)
    PROVE  /\ owner' \in Threads \cup {Server, None}
           /\ depth' \in Nat /\ s_lockCount' \in Nat
  BY DEF lockHeapInfo, TypeOK

LEMMA UnlockType ==
    ASSUME TypeOK, NEW t \in Threads \cup {Server}, unlockHeapInfo(t), depth > 0, s_lockCount = depth
    PROVE  /\ owner' \in Threads \cup {Server, None}
           /\ depth' \in Nat /\ s_lockCount' = depth'
  BY DEF unlockHeapInfo, TypeOK

LEMMA LedgerType ==
    ASSUME NEW ks, NEW info \in Infos, NEW map \in [Key -> Infos]
    PROVE  /\ registerChunkInfo(ks, info, map) \in [Key -> Infos]
           /\ unregisterChunkInfo(ks, map) \in [Key -> Infos]
  BY InfosType DEF registerChunkInfo, unregisterChunkInfo

LEMMA ObtainType ==
    ASSUME TypeOK, NEW t \in Threads, NEW d \in Depth, NEW ks \in SUBSET Key,
           call' = [call EXCEPT ![t][d].ret = ks]
    PROVE  call' \in [Threads -> [Depth -> Calls]]
  <1>1. call[t][d] \in Calls
    BY DEF TypeOK
  <1>2. [call[t][d] EXCEPT !.ret = ks] \in Calls
    BY <1>1 DEF Calls
  <1>3. call' = [call EXCEPT ![t] = [call[t] EXCEPT ![d] = [call[t][d] EXCEPT !.ret = ks]]]
    OBVIOUS
  <1> QED
    BY <1>2, <1>3 DEF TypeOK

(* s_lockCount is a natural number only because every unlock follows a     *)
(* lock, so type correctness is proved together with LockInv.              *)
LEMMA StepType ==
    ASSUME TypeOK, LockInv, NEW t \in Threads, NEW d \in Depth, Step(t, d)
    PROVE  TypeOK'
  <1>0. call[t][d] \in Calls /\ Holder(d) \in {"app", "libc"}
    BY DEF TypeOK, Holder
  <1>1. CASE Map(t, d)
    <2>1. pc' \in [Threads -> [Depth -> Pcs]] /\ call' \in [Threads -> [Depth -> Calls]]
      <3>1. CASE Return(t, d)
        BY <3>1, ReturnType
      <3>2. ASSUME NEW ps \in SUBSET Page, Goto(t, d, "lock"),
                   call' = [call EXCEPT ![t][d].ret = ps]
            PROVE  pc' \in [Threads -> [Depth -> Pcs]] /\ call' \in [Threads -> [Depth -> Calls]]
        <4>1. pc' \in [Threads -> [Depth -> Pcs]]
          BY <3>2, GotoType DEF Pcs
        <4>2. call' \in [Threads -> [Depth -> Calls]]
          BY <3>2, ObtainType DEF Key
        <4> QED
          BY <4>1, <4>2
      <3> QED
        <4>1. CASE \E ps \in SUBSET Page : Goto(t, d, "lock") /\ call' = [call EXCEPT ![t][d].ret = ps]
          BY <3>2, <4>1
        <4>2. \/ Return(t, d)
              \/ \E ps \in SUBSET Page : Goto(t, d, "lock") /\ call' = [call EXCEPT ![t][d].ret = ps]
          BY <1>1 DEF Map
        <4> QED
          BY <3>1, <4>1, <4>2
    <2>2. mem' \in [Key -> Mems]
      BY <1>0, <1>1, SizeAssumption DEF Map, TypeOK, Mems, Calls
    <2> QED
      BY <1>1, <2>1, <2>2 DEF Map, TypeOK, lockVars, countVars, serverVars
  <1>2. CASE Lock(t, d)
    <2>1. AfterLock(call[t][d].op) \in Pcs
      BY DEF AfterLock, Pcs
    <2>2. pc' \in [Threads -> [Depth -> Pcs]]
      BY <1>2, <2>1, GotoType DEF Lock
    <2> QED
      BY <1>2, <2>2, LockType DEF Lock, TypeOK, countVars, serverVars
  <1>3. CASE AllocSucceeds(t, d)
    <2>1. pc' \in [Threads -> [Depth -> Pcs]] /\ call' \in [Threads -> [Depth -> Calls]]
      <3>1. CASE Return(t, d)
        BY <3>1, ReturnType
      <3>2. ASSUME NEW a \in Addr, Goto(t, d, "record"),
                   call' = [call EXCEPT ![t][d].ret = {a}]
            PROVE  pc' \in [Threads -> [Depth -> Pcs]] /\ call' \in [Threads -> [Depth -> Calls]]
        <4>1. pc' \in [Threads -> [Depth -> Pcs]]
          BY <3>2, GotoType DEF Pcs
        <4>2. call' \in [Threads -> [Depth -> Calls]]
          <5>1. {a} \in SUBSET Key
            BY DEF Key
          <5> QED
            BY <3>2, <5>1, ObtainType
        <4> QED
          BY <4>1, <4>2
      <3> QED
        <4>1. CASE \E a \in Addr : Goto(t, d, "record") /\ call' = [call EXCEPT ![t][d].ret = {a}]
          BY <3>2, <4>1
        <4>2. \/ Return(t, d)
              \/ \E a \in Addr : Goto(t, d, "record") /\ call' = [call EXCEPT ![t][d].ret = {a}]
          BY <1>3 DEF AllocSucceeds
        <4> QED
          BY <3>1, <4>1, <4>2
    <2>2. mem' \in [Key -> Mems]
      <3>1. PICK a \in Addr :
              mem' = [k \in Key |->
                       IF k = a
                       THEN [owner |-> Holder(d), size |-> call[t][d].size,
                             seen |-> call[t][d].hooked]
                       ELSE IF k \in call[t][d].arg THEN FreeMem ELSE mem[k]]
        BY <1>3 DEF AllocSucceeds
      <3>2. [owner |-> Holder(d), size |-> call[t][d].size, seen |-> call[t][d].hooked] \in Mems
        BY <1>0 DEF Mems, Calls
      <3> QED
        BY <3>1, <3>2, InfosType DEF TypeOK
    <2> QED
      BY <1>3, <2>1, <2>2 DEF AllocSucceeds, TypeOK, lockVars, countVars, serverVars
  <1>4. CASE AllocFails(t, d)
    <2>1. pc' \in [Threads -> [Depth -> Pcs]] /\ call' \in [Threads -> [Depth -> Calls]]
      <3>1. AfterNull(call[t][d]) \in Pcs
        BY DEF AfterNull, Pcs
      <3> QED
        BY <1>4, <3>1, ReturnType, GotoType DEF AllocFails, TypeOK
    <2>2. mem' \in [Key -> Mems]
      BY <1>4, InfosType DEF AllocFails, TypeOK
    <2> QED
      BY <1>4, <2>1, <2>2 DEF AllocFails, TypeOK, lockVars, countVars, serverVars
  <1>5. CASE Record(t, d)
    <2>1. InfoFor(call[t][d]) \in Infos
      BY <1>0, InfosType DEF InfoFor, Calls
    <2>2. m_infoMap' \in [Key -> Infos]
      <3> DEFINE old == unregisterChunkInfo(call[t][d].arg, m_infoMap)
      <3>1. old \in [Key -> Infos]
        BY LedgerType, InfosType DEF TypeOK
      <3>2. registerChunkInfo(call[t][d].ret, InfoFor(call[t][d]), old) \in [Key -> Infos]
        BY <2>1, <3>1, LedgerType
      <3> QED
        BY <1>5, <3>2 DEF Record, TypeOK
    <2>3. pc' \in [Threads -> [Depth -> Pcs]]
      BY <1>5, GotoType DEF Record, Pcs
    <2> QED
      BY <1>5, <2>2, <2>3 DEF Record, TypeOK, lockVars, countVars, serverVars
  <1>6. CASE Forget(t, d)
    <2>1. m_infoMap' \in [Key -> Infos]
      BY <1>6, LedgerType, InfosType DEF Forget, TypeOK
    <2>2. pc' \in [Threads -> [Depth -> Pcs]]
      BY <1>6, GotoType DEF Forget, Pcs
    <2> QED
      BY <1>6, <2>1, <2>2 DEF Forget, TypeOK, lockVars, countVars, serverVars
  <1>7. CASE Unlock(t, d)
    <2>1. pc' \in [Threads -> [Depth -> Pcs]] /\ call' \in [Threads -> [Depth -> Calls]]
      BY <1>7, ReturnType, GotoType DEF Unlock, Pcs, TypeOK
    <2>2. depth > 0
      <3>1. InLock(t, d)
        BY <1>7 DEF Unlock, InLock
      <3>2. Locks(t) > 0
        BY <3>1 DEF Locks, Depth
      <3> QED
        BY <3>2 DEF LockInv, Locks, TypeOK
    <2>3. /\ owner' \in Threads \cup {Server, None}
          /\ depth' \in Nat /\ s_lockCount' \in Nat
      BY <1>7, <2>2, UnlockType DEF Unlock, LockInv
    <2> QED
      BY <1>7, <2>1, <2>3 DEF Unlock, TypeOK, countVars, serverVars
  <1>8. CASE Release(t, d)
    <2>1. pc' \in [Threads -> [Depth -> Pcs]] /\ call' \in [Threads -> [Depth -> Calls]]
      BY <1>8, ReturnType DEF Release
    <2>2. mem' \in [Key -> Mems]
      BY <1>8, InfosType DEF Release, TypeOK
    <2> QED
      BY <1>8, <2>1, <2>2 DEF Release, TypeOK, lockVars, countVars, serverVars
  <1> QED
    BY <1>1, <1>2, <1>3, <1>4, <1>5, <1>6, <1>7, <1>8 DEF Step

LEMMA ServerType ==
    ASSUME TypeOK, LockInv, Accept \/ ServerStep
    PROVE  TypeOK'
  <1>1. CASE Accept
    BY <1>1, BoundAssumption DEF Accept, TypeOK, lockVars, threadVars, countVars
  <1>2. CASE LockServer
    BY <1>2, LockType DEF LockServer, TypeOK, threadVars, countVars
  <1>3. ASSUME NEW k \in Key, Walk(k)
        PROVE  TypeOK'
    <2>1. m_infoMap[k].size \in Nat
      BY DEF TypeOK, Infos
    <2>2. ((m_infoMap[k].size + 3) \div 4) * 4 \in Nat
      BY <2>1
    <2>3. WalkEntry(k) \in [key : Key, len : Nat]
      BY <2>2 DEF WalkEntry
    <2>4. sent' \in SUBSET [key : Key, len : Nat] /\ todo' \in SUBSET Key
      BY <1>3, <2>3 DEF Walk, TypeOK
    <2> QED
      BY <1>3, <2>4 DEF Walk, TypeOK, lockVars, threadVars, countVars
  <1>4. CASE UnlockServer
    <2>1. depth > 0 /\ s_lockCount = depth
      BY <1>4 DEF UnlockServer, LockInv
    <2> QED
      BY <1>4, <2>1, UnlockType DEF UnlockServer, TypeOK, threadVars, countVars
  <1> QED
    BY <1>1, <1>2, <1>3, <1>4 DEF ServerStep

LEMMA NextType ==
    ASSUME TypeOK, LockInv, [Next]_vars
    PROVE  TypeOK'
  <1>1. CASE Install
    BY <1>1 DEF Install, TypeOK, lockVars, threadVars, countVars, serverVars
  <1>2. ASSUME NEW t \in Threads, Start(t) \/ CallBack(t) \/ \E d \in Depth : Step(t, d)
        PROVE  TypeOK'
    BY <1>2, StartType, CallBackType, StepType
  <1>3. CASE Accept \/ ServerStep
    BY <1>3, ServerType
  <1>4. CASE UNCHANGED vars
    BY <1>4 DEF TypeOK, vars, lockVars, threadVars, countVars, serverVars
  <1> QED
    BY <1>1, <1>2, <1>3, <1>4 DEF Next

-----------------------------------------------------------------------------
(* The lock.                                                               *)

LEMMA InitLock == Init => LockInv
  BY ServerAssumption DEF Init, LockInv, Locks, InLock, Depth

(* Only the frame that takes a step can enter or leave a critical section. *)
LEMMA OthersKeepLocks ==
    ASSUME TypeOK, NEW t \in Threads, NEW u \in Threads \ {t},
           NEW d \in Depth, NEW p \in Pcs, Goto(t, d, p), call'[u] = call[u]
    PROVE  Locks(u)' = Locks(u)
  BY DEF Goto, TypeOK, Locks, InLock, Depth

(* A step of thread t that leaves the mutex alone and puts no frame into a *)
(* critical section keeps LockInv.                                         *)
LEMMA KeepsLock ==
    ASSUME TypeOK, LockInv, NEW t \in Threads,
           UNCHANGED <<lockVars, spc>>,
           \A u \in Threads \ {t} : Locks(u)' = Locks(u),
           Locks(t)' \in Nat, Locks(t)' <= Locks(t)
    PROVE  LockInv'
  <1>1. \A u \in Threads : Locks(u) \in Nat
    BY DEF Locks
  <1>2. \A u \in Threads : Locks(u)' > 0 => Locks(u) > 0 /\ depth >= Locks(u)'
    BY <1>1 DEF LockInv, TypeOK
  <1> QED
    BY <1>2 DEF LockInv, lockVars, TypeOK

(* The frames a step of frame d of thread t does not touch.                *)
Elsewhere(t, d) ==
    /\ \A u \in Threads \ {t} : call'[u] = call[u]
    /\ \A e \in Depth \ {d} : call'[t][e] = call[t][e]

LEMMA ElsewhereCases ==
    ASSUME TypeOK, NEW t \in Threads, NEW d \in Depth
    PROVE  /\ UNCHANGED call => Elsewhere(t, d)
           /\ \A c : call' = [call EXCEPT ![t][d] = c] => Elsewhere(t, d)
           /\ \A ks : call' = [call EXCEPT ![t][d].ret = ks] => Elsewhere(t, d)
           /\ Return(t, d) => Elsewhere(t, d)
  BY DEF Elsewhere, TypeOK, Return

LEMMA OwnLocks ==
    ASSUME TypeOK, NEW t \in Threads, NEW d \in Depth, NEW p \in Pcs,
           Goto(t, d, p), Elsewhere(t, d)
    PROVE  /\ \A e \in Depth \ {d} : InLock(t, e)' = InLock(t, e)
           /\ pc'[t][d] = p
  BY DEF Goto, TypeOK, Elsewhere, InLock

(* A step that takes no lock and enters no critical section.               *)
LEMMA StepsWithoutLock ==
    ASSUME TypeOK, LockInv, NEW t \in Threads, NEW d \in Depth, NEW p \in Pcs,
           Goto(t, d, p), Elsewhere(t, d), UNCHANGED <<lockVars, spc>>,
           InLock(t, d)' => InLock(t, d)
    PROVE  LockInv'
  <1>1. \A u \in Threads \ {t} : Locks(u)' = Locks(u)
    BY OthersKeepLocks DEF Elsewhere
  <1>2. \A e \in Depth \ {d} : InLock(t, e)' = InLock(t, e)
    BY OwnLocks
  <1>3. Locks(t)' <= Locks(t) /\ Locks(t)' \in Nat
    <2>1. CASE d = 1
      <3>1. (InLock(t, 1)' => InLock(t, 1)) /\ (InLock(t, 2)' = InLock(t, 2))
        BY <1>2, <2>1 DEF Depth
      <3> QED
        BY <3>1 DEF Locks
    <2>2. CASE d = 2
      <3>1. (InLock(t, 2)' => InLock(t, 2)) /\ (InLock(t, 1)' = InLock(t, 1))
        BY <1>2, <2>2 DEF Depth
      <3> QED
        BY <3>1 DEF Locks
    <2> QED
      BY <2>1, <2>2 DEF Depth
  <1> QED
    BY <1>1, <1>3, KeepsLock

LEMMA EnterLock ==
    ASSUME TypeOK, LockInv, NEW t \in Threads, NEW d \in Depth, NEW op,
           NEW arg, NEW size, Enter(t, d, op, arg, size)
    PROVE  LockInv'
  <1> DEFINE p == FirstPc(op, Hooked(op))
  <1>1. p \in Pcs /\ p \notin {"record", "forget", "unlock"} /\ (p = "alloc" => ~Hooked(op))
    BY DEF FirstPc, Pcs
  <1>2. Goto(t, d, p) /\ Elsewhere(t, d)
    BY ElsewhereCases DEF Enter
  <1>3. pc'[t][d] = p /\ call'[t][d].hooked = Hooked(op)
    BY <1>1, <1>2, OwnLocks DEF Enter, TypeOK
  <1>4. ~InLock(t, d)'
    BY <1>1, <1>3 DEF InLock
  <1>5. UNCHANGED <<lockVars, spc>>
    BY DEF Enter, serverVars
  <1> QED
    BY <1>1, <1>2, <1>4, <1>5, StepsWithoutLock

LEMMA StartLock ==
    ASSUME TypeOK, LockInv, NEW t \in Threads, Start(t) \/ CallBack(t)
    PROVE  LockInv'
  <1>1. \E d \in Depth : \E op, arg, size : Enter(t, d, op, arg, size)
    <2>1. ASSUME NEW op, NEW arg, NEW size, Call(t, op, arg, size)
          PROVE  Enter(t, 1, op, arg, size)
      BY <2>1 DEF Call
    <2>2. CASE CallAlloc(t)
      BY <2>1, <2>2 DEF CallAlloc, Depth
    <2>3. CASE CallFree(t)
      BY <2>1, <2>3 DEF CallFree, Depth
    <2>4. CASE CallRealloc(t)
      BY <2>1, <2>4 DEF CallRealloc, Depth
    <2>5. CASE CallMmap(t)
      BY <2>1, <2>5 DEF CallMmap, Depth
    <2>6. CASE CallMunmap(t)
      BY <2>1, <2>6 DEF CallMunmap, Depth
    <2>7. CASE CallBack(t)
      BY <2>7 DEF CallBack, Depth
    <2> QED
      BY <2>2, <2>3, <2>4, <2>5, <2>6, <2>7 DEF Start
  <1> QED
    BY <1>1, EnterLock

(* Steps between the lock and the unlock, and those outside both.          *)
LEMMA InnerStepLock ==
    ASSUME TypeOK, LockInv, NEW t \in Threads, NEW d \in Depth,
           \/ Map(t, d) \/ AllocSucceeds(t, d) \/ AllocFails(t, d)
           \/ Record(t, d) \/ Forget(t, d) \/ Release(t, d)
    PROVE  LockInv'
  <1>0. UNCHANGED <<lockVars, spc>>
    BY DEF Map, AllocSucceeds, AllocFails, Record, Forget, Release, serverVars
  <1>1. ASSUME Return(t, d)
        PROVE  LockInv'
    <2>1. Goto(t, d, "idle") /\ Elsewhere(t, d) /\ "idle" \in Pcs
      BY <1>1, ElsewhereCases DEF Return, Pcs
    <2>2. ~InLock(t, d)'
      BY <2>1, OwnLocks DEF InLock
    <2> QED
      BY <1>0, <2>1, <2>2, StepsWithoutLock
  <1>2. CASE Map(t, d)
    <2>1. ASSUME Goto(t, d, "lock"), NEW ps, call' = [call EXCEPT ![t][d].ret = ps]
          PROVE  LockInv'
      <3>1. Elsewhere(t, d) /\ "lock" \in Pcs
        BY <2>1, ElsewhereCases DEF Pcs
      <3>2. ~InLock(t, d)'
        BY <2>1, <3>1, OwnLocks DEF InLock
      <3> QED
        BY <1>0, <2>1, <3>1, <3>2, StepsWithoutLock
    <2>2. \/ Return(t, d)
          \/ Goto(t, d, "lock") /\ \E ps : call' = [call EXCEPT ![t][d].ret = ps]
      BY <1>2 DEF Map
    <2> QED
      BY <1>1, <2>1, <2>2
  <1>3. CASE AllocSucceeds(t, d)
    <2>1. ASSUME call[t][d].hooked, Goto(t, d, "record"),
                 NEW ks, call' = [call EXCEPT ![t][d].ret = ks]
          PROVE  LockInv'
      <3>1. Elsewhere(t, d) /\ "record" \in Pcs
        BY <2>1, ElsewhereCases DEF Pcs
      <3>2. InLock(t, d)
        BY <1>3, <2>1 DEF AllocSucceeds, InLock
      <3> QED
        BY <1>0, <2>1, <3>1, <3>2, StepsWithoutLock
    <2>2. \/ Return(t, d)
          \/ /\ call[t][d].hooked
             /\ Goto(t, d, "record")
             /\ \E ks : call' = [call EXCEPT ![t][d].ret = ks]
      BY <1>3 DEF AllocSucceeds
    <2> QED
      BY <1>1, <2>1, <2>2
  <1>4. CASE AllocFails(t, d)
    <2>1. CASE Return(t, d)
      BY <1>1, <2>1
    <2>2. CASE Goto(t, d, "unlock") /\ UNCHANGED call /\ call[t][d].hooked
      <3>1. Elsewhere(t, d) /\ "unlock" \in Pcs
        BY <2>2, ElsewhereCases DEF Pcs
      <3>2. InLock(t, d)
        BY <1>4, <2>2 DEF AllocFails, InLock
      <3> QED
        BY <1>0, <2>2, <3>1, <3>2, StepsWithoutLock
    <2> QED
      BY <1>4, <2>1, <2>2 DEF AllocFails, AfterNull
  <1>5. CASE Record(t, d) \/ Forget(t, d)
    <2>1. Goto(t, d, "unlock") /\ Elsewhere(t, d) /\ "unlock" \in Pcs
      BY <1>5, ElsewhereCases DEF Record, Forget, Pcs
    <2>2. InLock(t, d)
      BY <1>5 DEF Record, Forget, InLock
    <2> QED
      BY <1>0, <2>1, <2>2, StepsWithoutLock
  <1>6. CASE Release(t, d)
    BY <1>1, <1>6 DEF Release
  <1> QED
    BY <1>2, <1>3, <1>4, <1>5, <1>6

LEMMA LockLock ==
    ASSUME TypeOK, LockInv, NEW t \in Threads, NEW d \in Depth, Lock(t, d)
    PROVE  LockInv'
  <1> DEFINE p == AfterLock(call[t][d].op)
  <1>1. Goto(t, d, p) /\ Elsewhere(t, d) /\ p \in Pcs
    BY ElsewhereCases DEF Lock, AfterLock, Pcs
  <1>2. \A u \in Threads \ {t} : Locks(u)' = Locks(u)
    BY <1>1, OthersKeepLocks DEF Elsewhere
  <1>3. \A e \in Depth \ {d} : InLock(t, e)' = InLock(t, e)
    BY <1>1, OwnLocks
  <1>4. Locks(t)' <= Locks(t) + 1
    <2>1. ~InLock(t, d)
      BY DEF Lock, InLock
    <2>2. CASE d = 1
      BY <1>3, <2>1, <2>2 DEF Locks, Depth
    <2>3. CASE d = 2
      BY <1>3, <2>1, <2>3 DEF Locks, Depth
    <2> QED
      BY <2>2, <2>3 DEF Depth
  <1>5. \A u \in Threads : Locks(u) \in Nat /\ Locks(u)' \in Nat
    BY DEF Locks
  <1>6. /\ owner \in {None, t} /\ owner' = t /\ spc' = spc
        /\ depth' = depth + 1 /\ s_lockCount' = s_lockCount + 1
    BY DEF Lock, lockHeapInfo, serverVars
  <1>7. depth >= Locks(t)
    BY <1>5 DEF LockInv, TypeOK
  <1>8. \A u \in Threads \ {t} : Locks(u)' = 0
    BY <1>2, <1>5, <1>6, ServerAssumption DEF LockInv
  <1>9. spc # "walk"
    BY <1>6, ServerAssumption DEF LockInv
  <1> QED
    BY <1>4, <1>5, <1>6, <1>7, <1>8, <1>9, ServerAssumption DEF LockInv, TypeOK

LEMMA UnlockLock ==
    ASSUME TypeOK, LockInv, NEW t \in Threads, NEW d \in Depth, Unlock(t, d)
    PROVE  LockInv'
  <1>1. PICK p \in {"release", "idle"} : Goto(t, d, p) /\ Elsewhere(t, d)
    BY ElsewhereCases DEF Unlock, Return
  <1>2. p \in Pcs
    BY DEF Pcs
  <1>3. \A u \in Threads \ {t} : Locks(u)' = Locks(u)
    BY <1>1, <1>2, OthersKeepLocks DEF Elsewhere
  <1>4. \A e \in Depth \ {d} : InLock(t, e)' = InLock(t, e)
    BY <1>1, <1>2, OwnLocks
  <1>5. Locks(t) = Locks(t)' + 1
    <2>1. InLock(t, d) /\ ~InLock(t, d)'
      BY <1>1, <1>2, OwnLocks DEF Unlock, InLock
    <2>2. CASE d = 1
      BY <1>4, <2>1, <2>2 DEF Locks, Depth
    <2>3. CASE d = 2
      BY <1>4, <2>1, <2>3 DEF Locks, Depth
    <2> QED
      BY <2>2, <2>3 DEF Depth
  <1>6. \A u \in Threads : Locks(u) \in Nat /\ Locks(u)' \in Nat
    BY DEF Locks
  <1>7. owner = t /\ depth >= Locks(t)
    BY <1>5, <1>6 DEF LockInv
  <1>8. /\ owner' = (IF depth = 1 THEN None ELSE owner) /\ spc' = spc
        /\ depth' = depth - 1 /\ s_lockCount' = s_lockCount - 1
    BY DEF Unlock, unlockHeapInfo, serverVars
  <1>9. \A u \in Threads \ {t} : Locks(u)' = 0
    BY <1>3, <1>6, <1>7 DEF LockInv
  <1>10. spc # "walk"
    BY <1>7, ServerAssumption DEF LockInv
  <1>11. owner' # Server
    BY <1>7, <1>8, ServerAssumption
  <1>12. s_lockCount' = depth' /\ (depth' = 0 <=> owner' = None)
    BY <1>5, <1>6, <1>7, <1>8, ServerAssumption DEF LockInv, TypeOK
  <1>13. Locks(t)' > 0 => owner' = t /\ depth' >= Locks(t)'
    BY <1>5, <1>6, <1>7, <1>8 DEF TypeOK
  <1> QED
    BY <1>8, <1>9, <1>10, <1>11, <1>12, <1>13 DEF LockInv

LEMMA ServerLock ==
    ASSUME TypeOK, LockInv, Accept \/ ServerStep
    PROVE  LockInv'
  <1>0. \A u \in Threads : Locks(u)' = Locks(u)
    BY DEF Accept, ServerStep, LockServer, Walk, UnlockServer, threadVars, Locks, InLock
  <1>1. CASE Accept
    BY <1>0, <1>1 DEF Accept, LockInv, lockVars
  <1>2. CASE LockServer
    <2>1. owner \in {None, Server} /\ owner' = Server /\ depth' = depth + 1
      BY <1>2 DEF LockServer, lockHeapInfo
    <2>2. \A u \in Threads : Locks(u) = 0
      BY <2>1, ServerAssumption DEF LockInv, Locks
    <2> QED
      BY <1>0, <1>2, <2>1, <2>2, ServerAssumption DEF LockServer, lockHeapInfo, LockInv, TypeOK
  <1>3. CASE \E k \in Key : Walk(k)
    BY <1>0, <1>3 DEF Walk, LockInv, lockVars
  <1>4. CASE UnlockServer
    BY <1>0, <1>4, ServerAssumption DEF UnlockServer, unlockHeapInfo, LockInv, TypeOK, Locks
  <1> QED
    BY <1>1, <1>2, <1>3, <1>4 DEF ServerStep

LEMMA NextLock ==
    ASSUME TypeOK, LockInv, [Next]_vars
    PROVE  LockInv'
  <1>1. CASE Install
    BY <1>1 DEF Install, lockVars, threadVars, serverVars, LockInv, Locks, InLock
  <1>2. ASSUME NEW t \in Threads, Start(t) \/ CallBack(t)
        PROVE  LockInv'
    BY <1>2, StartLock
  <1>3. ASSUME NEW t \in Threads, NEW d \in Depth, Step(t, d)
        PROVE  LockInv'
    BY <1>3, InnerStepLock, LockLock, UnlockLock DEF Step
  <1>4. CASE Accept \/ ServerStep
    BY <1>4, ServerLock
  <1>5. CASE UNCHANGED vars
    BY <1>5 DEF vars, lockVars, threadVars, serverVars, LockInv, Locks, InLock
  <1> QED
    BY <1>1, <1>2, <1>3, <1>4, <1>5 DEF Next

(* Every reachable state is type correct and keeps the lock's discipline:  *)
(* s_lockCount counts the holds of the one thread that can read it, and a  *)
(* thread between lockHeapInfo and unlockHeapInfo is alone there, for any  *)
(* number of threads and nested hooks, also after a memalign that fails.   *)
THEOREM TypeAndLock == Spec => [](TypeOK /\ LockInv)
  <1>1. Init => TypeOK /\ LockInv
    BY InitType, InitLock
  <1>2. (TypeOK /\ LockInv) /\ [Next]_vars => (TypeOK /\ LockInv)'
    BY NextType, NextLock
  <1> QED
    BY <1>1, <1>2, PTL DEF Spec

(* Type correctness on its own.                                            *)
THEOREM TypeCorrect == Spec => []TypeOK
  BY TypeAndLock, PTL

(* The lock's discipline on its own.                                       *)
THEOREM LockDiscipline == Spec => []LockInv
  BY TypeAndLock, PTL


-----------------------------------------------------------------------------
(* The walk.                                                               *)

(* Outside a walk nothing has been sent.                                   *)
SentInv == SentIsRecorded /\ (spc # "walk" => sent = {})

(* While the server walks, no step changes the ledger: only a frame inside *)
(* its critical section does, and the server holds the mutex.              *)
LEMMA LedgerStillInWalk ==
    ASSUME LockInv, [Next]_vars, spc = "walk"
    PROVE  m_infoMap' = m_infoMap
  <1>1. owner \notin Threads
    BY ServerAssumption DEF LockInv
  <1>2. ASSUME NEW t \in Threads, NEW d \in Depth, InLock(t, d)
        PROVE  FALSE
    <2>1. Locks(t) > 0
      BY <1>2 DEF Locks, Depth
    <2> QED
      BY <1>1, <2>1 DEF LockInv
  <1>3. ASSUME NEW t \in Threads, NEW d \in Depth, Record(t, d) \/ Forget(t, d)
        PROVE  FALSE
    BY <1>2, <1>3 DEF Record, Forget, InLock
  <1>4. ASSUME NEW t \in Threads, NEW d \in Depth, Step(t, d)
        PROVE  m_infoMap' = m_infoMap
    BY <1>3, <1>4 DEF Step, Map, Lock, AllocSucceeds, AllocFails, Unlock, Release
  <1>5. ASSUME NEW t \in Threads, Start(t) \/ CallBack(t)
        PROVE  m_infoMap' = m_infoMap
    BY <1>5 DEF Start, CallAlloc, CallFree, CallRealloc, CallMmap, CallMunmap, Call,
                CallBack, Enter
  <1>6. CASE Install \/ Accept \/ ServerStep
    BY <1>6 DEF Install, Accept, ServerStep, LockServer, Walk, UnlockServer
  <1> QED
    BY <1>4, <1>5, <1>6 DEF Next, vars

(* No step of a thread or of Constructor touches the server's variables.   *)
LEMMA ThreadsLeaveServer ==
    ASSUME NEW t \in Threads, Start(t) \/ CallBack(t) \/ \E d \in Depth : Step(t, d)
    PROVE  UNCHANGED <<spc, sent>>
  <1>1. ASSUME NEW d \in Depth, Step(t, d)
        PROVE  UNCHANGED serverVars
    BY <1>1 DEF Step, Map, Lock, AllocSucceeds, AllocFails, Record, Forget, Unlock, Release
  <1>2. ASSUME Start(t) \/ CallBack(t)
        PROVE  UNCHANGED serverVars
    BY <1>2 DEF Start, CallAlloc, CallFree, CallRealloc, CallMmap, CallMunmap, Call,
                CallBack, Enter
  <1> QED
    BY <1>1, <1>2 DEF serverVars

(* The steps between which sent does not grow keep the invariant.          *)
LEMMA SentKept ==
    ASSUME LockInv, SentInv, [Next]_vars, sent' = {} \/ UNCHANGED <<spc, sent>>
    PROVE  SentInv'
  <1>1. CASE sent' = {}
    BY <1>1 DEF SentInv, SentIsRecorded
  <1>2. CASE UNCHANGED <<spc, sent>> /\ spc # "walk"
    BY <1>2 DEF SentInv, SentIsRecorded
  <1>3. CASE UNCHANGED <<spc, sent>> /\ spc = "walk"
    <2>1. m_infoMap' = m_infoMap
      BY <1>3, LedgerStillInWalk
    <2> QED
      BY <1>3, <2>1 DEF SentInv, SentIsRecorded, Recorded, WalkEntry
  <1> QED
    BY <1>1, <1>2, <1>3

LEMMA NextSent ==
    ASSUME TypeOK, LockInv, SentInv, [Next]_vars
    PROVE  SentInv'
  <1>1. CASE Install
    BY <1>1, SentKept DEF Install, serverVars
  <1>2. ASSUME NEW t \in Threads, Start(t) \/ CallBack(t) \/ \E d \in Depth : Step(t, d)
        PROVE  SentInv'
    BY <1>2, ThreadsLeaveServer, SentKept
  <1>3. CASE Accept
    <2>1. sent' = {}
      BY <1>3 DEF Accept, SentInv
    <2> QED
      BY <2>1, SentKept
  <1>4. CASE LockServer \/ UnlockServer
    BY <1>4, SentKept DEF LockServer, UnlockServer
  <1>5. ASSUME NEW k \in Key, Walk(k)
        PROVE  SentInv'
    <2>1. m_infoMap' = m_infoMap /\ spc' = "walk"
      BY <1>5 DEF Walk
    <2>2. sent' = sent \/ (sent' = sent \cup {WalkEntry(k)} /\ k \in Recorded)
      BY <1>5 DEF Walk, Recorded
    <2>3. WalkEntry(k).key = k
      BY DEF WalkEntry
    <2> QED
      BY <2>1, <2>2, <2>3 DEF SentInv, SentIsRecorded, Recorded, WalkEntry
  <1>6. CASE UNCHANGED vars
    BY <1>6, SentKept DEF vars, serverVars
  <1> QED
    BY <1>1, <1>2, <1>3, <1>4, <1>5, <1>6 DEF Next, ServerStep

(* A report is of one moment: while the walk sends, every entry it has     *)
(* sent is still on record with the length sent, for any number of threads *)
(* allocating and freeing meanwhile.                                       *)
THEOREM WalkIsSnapshot == Spec => []SentIsRecorded
  <1>1. Init => SentInv
    BY DEF Init, SentInv, SentIsRecorded
  <1>2. TypeOK /\ LockInv /\ SentInv /\ [Next]_vars => SentInv'
    BY NextSent
  <1>3. SentInv => SentIsRecorded
    BY DEF SentInv
  <1> QED
    BY <1>1, <1>2, <1>3, TypeAndLock, PTL DEF Spec

-----------------------------------------------------------------------------
(* The rest is about a libc whose memalign does not fail and whose         *)
(* realloc(p, 0) does not free p, and a library that is preloaded, so that *)
(* no thread runs while Constructor switches the handlers.  For each of    *)
(* the three TLC finds a counterexample without it.                        *)

LedgerAssumptions == ~MemalignFails /\ ~ReallocZeroFrees /\ ~EarlyThreads

-----------------------------------------------------------------------------
(* The inductive invariant, in parts that speak of one frame or one key.   *)

Keys(t, d) == call[t][d].arg \cup call[t][d].ret

Obtaining == AllocOps \cup {"realloc"}

(* What the step a frame is at says about its call.                        *)
FrameInv(t, d) ==
    LET p == pc[t][d]
        c == call[t][d]
    IN  /\ p = "idle" => c.op = "none" /\ c.arg = {} /\ c.ret = {}
        /\ p # "idle" => installed \in {0, 8} /\ (c.hooked <=> installed = 8)
        /\ p \in {"lock", "record", "forget", "unlock"} => c.hooked
        /\ p = "map" => c.op = "mmap" /\ c.ret = {}
        /\ p = "alloc" => c.op \in Obtaining /\ c.ret = {}
        /\ p = "record" => c.op \in Obtaining \cup {"mmap"}
        /\ p \in {"forget", "release"} => c.op \in FreeingOps
        /\ p = "lock" /\ c.op \in Obtaining => c.ret = {}
        /\ p # "idle" => c.op \in AllOps
        /\ c.op \in AllocOps \cup {"mmap"} => c.arg = {}
        /\ c.op \in Obtaining => c.arg \cup c.ret \subseteq Addr
        /\ c.op = "mmap" => c.ret \subseteq Page
        /\ c.op \in FreeingOps => c.ret = {}
        /\ d = 2 /\ p # "idle" => c.op \in {"mmap", "munmap"} /\ c.arg \subseteq Page

(* libc calls back from inside a call, and maps pages only while a handler *)
(* holds the ledger's lock.                                                *)
NestInv(t) ==
    pc[t][2] # "idle" =>
        /\ pc[t][1] # "idle"
        /\ call[t][2].op = "mmap" /\ call[t][2].hooked => InLock(t, 1)

(* A frame's addresses belong to whoever made the call; realloc's old      *)
(* block is free from the call of libc to the unlock.                      *)
HeldInv(t, d) ==
    LET p == pc[t][d]
        c == call[t][d]
    IN  /\ \A k \in c.ret : mem[k].owner = Holder(d) /\ (k \in Addr => mem[k].size = c.size)
        /\ \A k \in c.arg \ c.ret :
              /\ mem[k].owner \in {Holder(d), "none"}
              /\ c.op # "realloc" \/ p \notin {"record", "unlock"} => mem[k].owner = Holder(d)
              /\ p = "record" => mem[k].owner = "none"

(* A block or page that is free to use and was obtained through the        *)
(* handlers is on record.                                                  *)
Settled(k) == mem[k].owner = "app" /\ mem[k].seen => m_infoMap[k] = MemInfo(k)

SoundAt(k) ==
    \/ m_infoMap[k] = NoInfo
    \/ BeingRenewed(k)
    \/ mem[k].owner = "app" /\ m_infoMap[k] = MemInfo(k)

(* What a frame has done to the records of its addresses.                  *)
DoneInv(t, d) ==
    LET p == pc[t][d]
        c == call[t][d]
    IN  /\ p \in {"unlock", "release"} /\ c.op \in FreeingOps =>
              \A k \in c.arg : m_infoMap[k] = NoInfo
        /\ p \in {"lock", "alloc"} /\ c.op = "realloc" => \A k \in c.arg : Settled(k)
        /\ p = "unlock" /\ c.op \notin FreeingOps => \A k \in Keys(t, d) : Settled(k)

Exclusive ==
    \A t, u \in Threads, d, e \in Depth :
        <<t, d>> # <<u, e>> => Keys(t, d) \cap Keys(u, e) = {}

InUse(k) == \E t \in Threads, d \in Depth : k \in Keys(t, d)

(* Before the handlers are in place nothing is on record.                  *)
MemoryInv(k) ==
    /\ k \in Addr => mem[k].owner # "libc"
    /\ installed < 8 => ~mem[k].seen /\ m_infoMap[k] = NoInfo

KeyInv(k) == SoundAt(k) /\ (Settled(k) \/ InUse(k)) /\ MemoryInv(k)

(* The mutex is held exactly as often as its owner's frames say.           *)
LockExact == \A t \in Threads : owner = t => depth = Locks(t)

ControlInv ==
    /\ \A t \in Threads, d \in Depth : FrameInv(t, d)
    /\ \A t \in Threads : NestInv(t)
    /\ LockExact

DataInv ==
    /\ \A t \in Threads, d \in Depth : HeldInv(t, d) /\ DoneInv(t, d)
    /\ Exclusive
    /\ \A k \in Key : KeyInv(k)

-----------------------------------------------------------------------------
(* What a step does to the frames.                                         *)

Untouched(t, d) ==
    \A u \in Threads, e \in Depth :
        u # t \/ e # d => pc'[u][e] = pc[u][e] /\ call'[u][e] = call[u][e]

SameCall(t, d) ==
    /\ call'[t][d].op = call[t][d].op
    /\ call'[t][d].hooked = call[t][d].hooked
    /\ call'[t][d].arg = call[t][d].arg
    /\ call'[t][d].size = call[t][d].size

Returned(t, d) ==
    Untouched(t, d) /\ pc'[t][d] = "idle" /\ call'[t][d] = NoCall

Moved(t, d, p, ks) ==
    Untouched(t, d) /\ pc'[t][d] = p /\ SameCall(t, d) /\ call'[t][d].ret = ks

LEMMA GotoEffect ==
    ASSUME TypeOK, NEW t \in Threads, NEW d \in Depth, NEW p, Goto(t, d, p)
    PROVE  /\ pc'[t][d] = p
           /\ \A u \in Threads, e \in Depth : u # t \/ e # d => pc'[u][e] = pc[u][e]
  BY DEF Goto, TypeOK

LEMMA ReturnEffect ==
    ASSUME TypeOK, NEW t \in Threads, NEW d \in Depth, Return(t, d)
    PROVE  Returned(t, d)
  <1>1. /\ pc'[t][d] = "idle"
        /\ \A u \in Threads, e \in Depth : u # t \/ e # d => pc'[u][e] = pc[u][e]
    BY GotoEffect DEF Return
  <1>2. /\ call'[t][d] = NoCall
        /\ \A u \in Threads, e \in Depth : u # t \/ e # d => call'[u][e] = call[u][e]
    BY DEF Return, TypeOK
  <1> QED
    BY <1>1, <1>2 DEF Returned, Untouched

LEMMA MoveEffect ==
    ASSUME TypeOK, NEW t \in Threads, NEW d \in Depth, NEW p, Goto(t, d, p), UNCHANGED call
    PROVE  Moved(t, d, p, call[t][d].ret)
  BY GotoEffect DEF Moved, Untouched, SameCall

LEMMA ObtainEffect ==
    ASSUME TypeOK, NEW t \in Threads, NEW d \in Depth, NEW p, NEW ks, Goto(t, d, p),
           call' = [call EXCEPT ![t][d].ret = ks]
    PROVE  Moved(t, d, p, ks)
  <1> DEFINE c == call[t][d]
             r == [op |-> c.op, hooked |-> c.hooked, arg |-> c.arg, ret |-> ks, size |-> c.size]
  <1>1. c \in Calls
    BY DEF TypeOK
  <1>2. [c EXCEPT !.ret = ks] = r
    BY <1>1 DEF Calls
  <1>3. call' = [call EXCEPT ![t] = [call[t] EXCEPT ![d] = [c EXCEPT !.ret = ks]]]
    OBVIOUS
  <1>4. call' = [call EXCEPT ![t] = [call[t] EXCEPT ![d] = r]]
    BY <1>2, <1>3
  <1>5. /\ call'[t][d] = r
        /\ \A u \in Threads, e \in Depth : u # t \/ e # d => call'[u][e] = call[u][e]
    <2> HIDE DEF r
    <2> QED
      BY <1>4 DEF TypeOK
  <1>6. SameCall(t, d) /\ call'[t][d].ret = ks
    BY <1>5 DEF SameCall
  <1> QED
    BY <1>5, <1>6, GotoEffect DEF Moved, Untouched
(* Where each step of a handler leaves its frame.                          *)
LEMMA StepEffect ==
    ASSUME TypeOK, NEW t \in Threads, NEW d \in Depth
    PROVE  /\ Map(t, d) => \/ Returned(t, d) /\ UNCHANGED mem
                           \/ \E ps : Moved(t, d, "lock", ps) /\ call[t][d].hooked /\ ps \subseteq Page
                           \/ Returned(t, d) /\ ~call[t][d].hooked
           /\ Lock(t, d) => Moved(t, d, AfterLock(call[t][d].op), call[t][d].ret)
           /\ AllocSucceeds(t, d) => \/ \E a \in Addr : Moved(t, d, "record", {a}) /\ call[t][d].hooked
                                     \/ Returned(t, d) /\ ~call[t][d].hooked
           /\ AllocFails(t, d) => \/ Moved(t, d, "unlock", call[t][d].ret) /\ call[t][d].hooked
                                  \/ Returned(t, d) /\ (call[t][d].hooked => MemalignFails)
           /\ Record(t, d) \/ Forget(t, d) => Moved(t, d, "unlock", call[t][d].ret)
           /\ Unlock(t, d) => \/ Moved(t, d, "release", call[t][d].ret) /\ call[t][d].op \in FreeingOps
                              \/ Returned(t, d) /\ call[t][d].op \notin FreeingOps
           /\ Release(t, d) => Returned(t, d)
  <1>1. ASSUME Map(t, d)
        PROVE  \/ Returned(t, d) /\ UNCHANGED mem
               \/ \E ps : Moved(t, d, "lock", ps) /\ call[t][d].hooked /\ ps \subseteq Page
               \/ Returned(t, d) /\ ~call[t][d].hooked
    <2>1. CASE Return(t, d) /\ UNCHANGED mem
      BY <2>1, ReturnEffect
    <2>2. CASE Return(t, d) /\ ~call[t][d].hooked
      BY <2>2, ReturnEffect
    <2>3. ASSUME NEW ps \in SUBSET Page, call[t][d].hooked, Goto(t, d, "lock"),
                 call' = [call EXCEPT ![t][d].ret = ps]
          PROVE  Moved(t, d, "lock", ps)
      BY <2>3, ObtainEffect
    <2>4. CASE \E ps \in SUBSET Page : /\ call[t][d].hooked /\ Goto(t, d, "lock")
                                       /\ call' = [call EXCEPT ![t][d].ret = ps]
      BY <2>3, <2>4
    <2> QED
      BY <1>1, <2>1, <2>2, <2>4 DEF Map
  <1>2. ASSUME AllocSucceeds(t, d)
        PROVE  \/ \E a \in Addr : Moved(t, d, "record", {a}) /\ call[t][d].hooked
               \/ Returned(t, d) /\ ~call[t][d].hooked
    <2>1. CASE Return(t, d) /\ ~call[t][d].hooked
      BY <2>1, ReturnEffect
    <2>2. ASSUME NEW a \in Addr, call[t][d].hooked, Goto(t, d, "record"),
                 call' = [call EXCEPT ![t][d].ret = {a}]
          PROVE  Moved(t, d, "record", {a})
      BY <2>2, ObtainEffect
    <2>3. CASE \E a \in Addr : /\ call[t][d].hooked /\ Goto(t, d, "record")
                               /\ call' = [call EXCEPT ![t][d].ret = {a}]
      BY <2>2, <2>3
    <2> QED
      BY <1>2, <2>1, <2>3 DEF AllocSucceeds
  <1>3. Lock(t, d) => Moved(t, d, AfterLock(call[t][d].op), call[t][d].ret)
    BY MoveEffect DEF Lock
  <1>4. Record(t, d) \/ Forget(t, d) => Moved(t, d, "unlock", call[t][d].ret)
    BY MoveEffect DEF Record, Forget
  <1>5. AllocFails(t, d) => \/ Moved(t, d, "unlock", call[t][d].ret) /\ call[t][d].hooked
                            \/ Returned(t, d) /\ (call[t][d].hooked => MemalignFails)
    BY MoveEffect, ReturnEffect DEF AllocFails, AfterNull
  <1>6. Unlock(t, d) => \/ Moved(t, d, "release", call[t][d].ret) /\ call[t][d].op \in FreeingOps
                        \/ Returned(t, d) /\ call[t][d].op \notin FreeingOps
    BY MoveEffect, ReturnEffect DEF Unlock
  <1>7. Release(t, d) => Returned(t, d)
    BY ReturnEffect DEF Release
  <1> QED
    BY <1>1, <1>2, <1>3, <1>4, <1>5, <1>6, <1>7

(* Where a new call starts.                                                *)
LEMMA EnterEffect ==
    ASSUME TypeOK, NEW t \in Threads, NEW d \in Depth, NEW op \in AllOps, NEW arg, NEW size,
           Enter(t, d, op, arg, size)
    PROVE  /\ Untouched(t, d)
           /\ pc'[t][d] = FirstPc(op, Hooked(op))
           /\ call'[t][d].op = op /\ call'[t][d].hooked = Hooked(op)
           /\ call'[t][d].arg = arg /\ call'[t][d].ret = {}
  <1> DEFINE c == [op |-> op, hooked |-> Hooked(op), arg |-> arg, ret |-> {}, size |-> size]
  <1>1. call' = [call EXCEPT ![t][d] = c] /\ Goto(t, d, FirstPc(op, Hooked(op)))
    BY DEF Enter
  <1>2. /\ call'[t][d] = c
        /\ \A u \in Threads, e \in Depth : u # t \/ e # d => call'[u][e] = call[u][e]
    <2> HIDE DEF c
    <2> QED
      BY <1>1 DEF TypeOK
  <1>3. /\ pc'[t][d] = FirstPc(op, Hooked(op))
        /\ \A u \in Threads, e \in Depth : u # t \/ e # d => pc'[u][e] = pc[u][e]
    BY <1>1, GotoEffect
  <1> QED
    BY <1>2, <1>3 DEF Untouched
-----------------------------------------------------------------------------
(* The control layer: steps, nesting and the lock.                         *)

LEMMA AllHooked ==
    ASSUME NEW op \in AllOps, installed \in {0, 8}
    PROVE  Hooked(op) <=> installed = 8
  BY DEF Hooked, HandlerOrder, AllOps, AllocOps, FreeingOps

LEMMA LocksByFrame ==
    ASSUME NEW t \in Threads, NEW d \in Depth, Untouched(t, d)
    PROVE  /\ \A u \in Threads \ {t} : Locks(u)' = Locks(u)
           /\ (InLock(t, d)' <=> InLock(t, d)) => Locks(t)' = Locks(t)
           /\ ~InLock(t, d) /\ InLock(t, d)' => Locks(t)' = Locks(t) + 1
           /\ InLock(t, d) /\ ~InLock(t, d)' => Locks(t) = Locks(t)' + 1
  <1>1. \A u \in Threads, e \in Depth : u # t \/ e # d => (InLock(u, e)' <=> InLock(u, e))
    BY DEF Untouched, InLock
  <1>2. \A u \in Threads \ {t} : Locks(u)' = Locks(u)
    BY <1>1 DEF Locks, Depth
  <1>3. CASE d = 1
    BY <1>1, <1>2, <1>3 DEF Locks, Depth
  <1>4. CASE d = 2
    BY <1>1, <1>2, <1>4 DEF Locks, Depth
  <1> QED
    BY <1>3, <1>4 DEF Depth

(* A frame enters its critical section in Lock and leaves it in Unlock.    *)
LEMMA InLockByStep ==
    ASSUME LedgerAssumptions, TypeOK, ControlInv, NEW t \in Threads, NEW d \in Depth
    PROVE  /\ Lock(t, d) => ~InLock(t, d) /\ InLock(t, d)'
           /\ Unlock(t, d) => InLock(t, d) /\ ~InLock(t, d)'
           /\ \/ Map(t, d) \/ AllocSucceeds(t, d) \/ AllocFails(t, d)
              \/ Record(t, d) \/ Forget(t, d) \/ Release(t, d)
              => (InLock(t, d)' <=> InLock(t, d))
  <1>0. FrameInv(t, d)
    BY DEF ControlInv
  <1>1. Lock(t, d) => ~InLock(t, d) /\ InLock(t, d)'
    BY <1>0, StepEffect DEF Lock, InLock, Moved, AfterLock, SameCall, FrameInv
  <1>2. Unlock(t, d) => InLock(t, d) /\ ~InLock(t, d)'
    BY StepEffect DEF Unlock, InLock, Moved, Returned
  <1>3. Map(t, d) => ~InLock(t, d) /\ ~InLock(t, d)'
    BY StepEffect DEF Map, InLock, Moved, Returned
  <1>4. AllocSucceeds(t, d) => (InLock(t, d)' <=> InLock(t, d))
    BY StepEffect DEF AllocSucceeds, InLock, Moved, Returned
  <1>5. AllocFails(t, d) => (InLock(t, d)' <=> InLock(t, d))
    BY StepEffect DEF AllocFails, InLock, Moved, Returned, LedgerAssumptions
  <1>6. Record(t, d) \/ Forget(t, d) => InLock(t, d) /\ InLock(t, d)'
    BY StepEffect DEF Record, Forget, InLock, Moved
  <1>7. Release(t, d) => ~InLock(t, d) /\ ~InLock(t, d)'
    BY StepEffect DEF Release, InLock, Returned
  <1> QED
    BY <1>1, <1>2, <1>3, <1>4, <1>5, <1>6, <1>7

LEMMA StepLockExact ==
    ASSUME LedgerAssumptions, TypeOK, LockInv, ControlInv,
           NEW t \in Threads, NEW d \in Depth, Step(t, d)
    PROVE  LockExact'
  <1>0. Untouched(t, d)
    BY StepEffect DEF Step, Moved, Returned
  <1>1. LockExact /\ \A u \in Threads : Locks(u) \in Nat /\ Locks(u)' \in Nat
    BY DEF ControlInv, Locks
  <1>2. CASE Lock(t, d)
    <2>1. Locks(t)' = Locks(t) + 1
      BY <1>0, <1>2, InLockByStep, LocksByFrame
    <2>2. owner \in {None, t} /\ owner' = t /\ depth' = depth + 1
      BY <1>2 DEF Lock, lockHeapInfo
    <2>3. depth = Locks(t)
      <3>1. CASE owner = t
        BY <1>1, <3>1 DEF LockExact
      <3>2. CASE owner = None
        <4>1. owner # t /\ depth = 0
          BY <3>2, ServerAssumption DEF LockInv
        <4> QED
          BY <1>1, <4>1 DEF LockInv
      <3> QED
        BY <2>2, <3>1, <3>2
    <2> QED
      BY <2>1, <2>2, <2>3 DEF LockExact
  <1>3. CASE Unlock(t, d)
    <2>1. Locks(t) = Locks(t)' + 1
      BY <1>0, <1>3, InLockByStep, LocksByFrame
    <2>2. owner' = (IF depth = 1 THEN None ELSE owner) /\ depth' = depth - 1
      BY <1>3 DEF Unlock, unlockHeapInfo
    <2>3. owner = t /\ depth = Locks(t)
      BY <1>1, <2>1 DEF LockInv, LockExact
    <2> QED
      BY <1>1, <2>1, <2>2, <2>3, ServerAssumption DEF LockExact
  <1>4. CASE \/ Map(t, d) \/ AllocSucceeds(t, d) \/ AllocFails(t, d)
             \/ Record(t, d) \/ Forget(t, d) \/ Release(t, d)
    <2>1. \A u \in Threads : Locks(u)' = Locks(u)
      BY <1>0, <1>4, InLockByStep, LocksByFrame
    <2>2. owner' = owner /\ depth' = depth
      BY <1>4 DEF Map, AllocSucceeds, AllocFails, Record, Forget, Release, lockVars
    <2> QED
      BY <1>1, <2>1, <2>2 DEF LockExact
  <1> QED
    BY <1>2, <1>3, <1>4 DEF Step
LEMMA StepFrame ==
    ASSUME LedgerAssumptions, TypeOK, ControlInv, NEW t \in Threads, NEW d \in Depth, Step(t, d)
    PROVE  FrameInv(t, d)'
  <1>0. FrameInv(t, d) /\ installed' = installed
    BY DEF ControlInv, Step, Map, Lock, AllocSucceeds, AllocFails, Record, Forget, Unlock, Release
  <1>1. CASE Returned(t, d)
    BY <1>1 DEF Returned, FrameInv, NoCall, AllOps, AllocOps, FreeingOps, Obtaining
  <1>2. ASSUME NEW p, NEW ks, Moved(t, d, p, ks), pc[t][d] # "idle",
               p \in {"lock", "record", "unlock", "release", "forget", "alloc"},
               p # "release" /\ p # "alloc" => call[t][d].hooked,
               p = "record" => call[t][d].op \in Obtaining \cup {"mmap"},
               p \in {"forget", "release"} => call[t][d].op \in FreeingOps,
               p = "alloc" => call[t][d].op \in Obtaining /\ ks = {},
               p = "lock" /\ call[t][d].op \in Obtaining => ks = {},
               call[t][d].op \in Obtaining => ks \subseteq Addr,
               call[t][d].op = "mmap" => ks \subseteq Page,
               call[t][d].op \in FreeingOps => ks = {}
        PROVE  FrameInv(t, d)'
    BY <1>0, <1>2 DEF Moved, SameCall, FrameInv
  <1>3. CASE Map(t, d)
    <2>1. ASSUME NEW ps, Moved(t, d, "lock", ps), call[t][d].hooked, ps \subseteq Page
          PROVE  FrameInv(t, d)'
      <3>1. pc[t][d] = "map" /\ call[t][d].op = "mmap"
        BY <1>0, <1>3 DEF Map, FrameInv
      <3> QED
        BY <1>2, <2>1, <3>1 DEF Obtaining, AllocOps, FreeingOps
    <2> QED
      BY <1>1, <1>3, <2>1, StepEffect
  <1>4. CASE Lock(t, d)
    <2>1. Moved(t, d, AfterLock(call[t][d].op), call[t][d].ret)
      BY <1>4, StepEffect
    <2>2. pc[t][d] = "lock" /\ call[t][d].hooked /\ call[t][d].op \in AllOps
      BY <1>0, <1>4 DEF Lock, FrameInv
    <2>3. CASE call[t][d].op = "mmap"
      BY <1>0, <1>2, <2>1, <2>2, <2>3 DEF AfterLock, FrameInv, Obtaining, AllocOps, FreeingOps
    <2>4. CASE call[t][d].op \in FreeingOps
      BY <1>0, <1>2, <2>1, <2>2, <2>4 DEF AfterLock, FrameInv, Obtaining, AllocOps, FreeingOps
    <2>5. CASE call[t][d].op \in Obtaining
      BY <1>0, <1>2, <2>1, <2>2, <2>5 DEF AfterLock, FrameInv, Obtaining, AllocOps, FreeingOps
    <2> QED
      BY <2>2, <2>3, <2>4, <2>5 DEF AllOps, Obtaining
  <1>5. CASE AllocSucceeds(t, d)
    <2>1. ASSUME NEW a \in Addr, Moved(t, d, "record", {a}), call[t][d].hooked
          PROVE  FrameInv(t, d)'
      <3>1. pc[t][d] = "alloc" /\ call[t][d].op \in Obtaining
        BY <1>0, <1>5 DEF AllocSucceeds, FrameInv
      <3> QED
        BY <1>2, <2>1, <3>1 DEF Obtaining, AllocOps, FreeingOps
    <2> QED
      BY <1>1, <1>5, <2>1, StepEffect
  <1>6. CASE AllocFails(t, d)
    <2>1. pc[t][d] = "alloc" /\ call[t][d].op \in Obtaining /\ call[t][d].ret = {}
      BY <1>0, <1>6 DEF AllocFails, FrameInv
    <2> QED
      BY <1>1, <1>2, <1>6, <2>1, StepEffect DEF Obtaining, AllocOps, FreeingOps
  <1>7. CASE Record(t, d) \/ Forget(t, d)
    <2>1. Moved(t, d, "unlock", call[t][d].ret)
      BY <1>7, StepEffect
    <2>2. pc[t][d] \in {"record", "forget"}
      BY <1>7 DEF Record, Forget
    <2> QED
      BY <1>0, <1>2, <2>1, <2>2 DEF FrameInv, Obtaining, AllocOps, FreeingOps
  <1>8. CASE Unlock(t, d)
    <2>1. pc[t][d] = "unlock"
      BY <1>8 DEF Unlock
    <2>2. CASE Moved(t, d, "release", call[t][d].ret) /\ call[t][d].op \in FreeingOps
      BY <1>0, <1>2, <2>1, <2>2 DEF FrameInv, Obtaining, AllocOps, FreeingOps
    <2> QED
      BY <1>1, <1>8, <2>2, StepEffect
  <1>9. CASE Release(t, d)
    BY <1>1, <1>9, StepEffect
  <1> QED
    BY <1>3, <1>4, <1>5, <1>6, <1>7, <1>8, <1>9 DEF Step

LEMMA StepControl ==
    ASSUME LedgerAssumptions, TypeOK, LockInv, ControlInv,
           NEW t \in Threads, NEW d \in Depth, Step(t, d)
    PROVE  ControlInv'
  <1>0. Untouched(t, d) /\ installed' = installed
    BY StepEffect DEF Step, Moved, Returned, Map, Lock, AllocSucceeds, AllocFails,
                      Record, Forget, Unlock, Release
  <1>1. \A u \in Threads, e \in Depth : FrameInv(u, e)'
    <2>1. ASSUME NEW u \in Threads, NEW e \in Depth, u # t \/ e # d
          PROVE  FrameInv(u, e)'
      <3>1. pc'[u][e] = pc[u][e] /\ call'[u][e] = call[u][e] /\ FrameInv(u, e)
        BY <1>0, <2>1 DEF Untouched, ControlInv
      <3> QED
        BY <1>0, <3>1 DEF FrameInv
    <2> QED
      BY <2>1, StepFrame
  <1>2. \A u \in Threads : NestInv(u)'
    <2>1. ASSUME NEW u \in Threads, u # t
          PROVE  NestInv(u)'
      BY <1>0, <2>1 DEF Untouched, ControlInv, NestInv, InLock, Depth
    <2>2. CASE d = 1
      <3>1. pc'[t][2] = "idle"
        BY <1>0, <2>2 DEF Untouched, Depth, Step, Runnable, Map, Lock, AllocSucceeds,
                          AllocFails, Record, Forget, Unlock, Release
      <3> QED
        BY <2>1, <3>1 DEF NestInv
    <2>3. CASE d = 2
      <3>1. pc'[t][1] = pc[t][1] /\ call'[t][1] = call[t][1]
        BY <1>0, <2>3 DEF Untouched, Depth
      <3>2. pc[t][2] # "idle"
        BY <2>3 DEF Step, Map, Lock, AllocSucceeds, AllocFails, Record, Forget, Unlock, Release
      <3>3. Returned(t, 2) \/ SameCall(t, 2)
        BY <2>3, StepEffect DEF Step, Moved
      <3>4. NestInv(t)
        BY DEF ControlInv
      <3>5. NestInv(t)'
        BY <3>1, <3>2, <3>3, <3>4 DEF NestInv, InLock, Returned, SameCall
      <3> QED
        BY <2>1, <3>5
    <2> QED
      BY <2>2, <2>3 DEF Depth
  <1> QED
    BY <1>1, <1>2, StepLockExact DEF ControlInv
(* A new call: what its thread and its addresses are like.                 *)
Entered(t, d, op, arg) ==
    /\ installed \in {0, 8}
    /\ op \in AllOps
    /\ arg \subseteq Available(Holder(d))
    /\ op \in AllocOps \cup {"mmap"} => arg = {}
    /\ op = "realloc" => arg \subseteq Addr
    /\ d = 1 => pc[t][2] = "idle"
    /\ d = 2 => /\ op \in {"mmap", "munmap"} /\ arg \subseteq Page
                /\ pc[t][1] # "idle"
                /\ op = "mmap" => pc[t][1] \in {"alloc", "record", "forget"}

LEMMA StartEntered ==
    ASSUME LedgerAssumptions, TypeOK, NEW t \in Threads, Start(t)
    PROVE  \E op, arg, size : Enter(t, 1, op, arg, size) /\ Entered(t, 1, op, arg)
  <1>1. ASSUME NEW op \in AllOps, NEW arg \in SUBSET Available("app"), NEW size,
               Call(t, op, arg, size),
               op \in AllocOps \cup {"mmap"} => arg = {},
               op = "realloc" => arg \subseteq Addr
        PROVE  Enter(t, 1, op, arg, size) /\ Entered(t, 1, op, arg)
    BY <1>1 DEF Call, MayCall, Runnable, Entered, LedgerAssumptions, Holder
  <1>2. CASE CallAlloc(t)
    <2>1. PICK op \in AllocOps, s \in Sizes : Call(t, op, {}, s)
      BY <1>2 DEF CallAlloc
    <2>2. op \in AllOps /\ op # "realloc"
      BY DEF AllOps, AllocOps
    <2> QED
      BY <1>1, <2>1, <2>2
  <1>3. CASE CallFree(t)
    <2>1. PICK a \in Available("app") : Call(t, "free", {a}, 0)
      BY <1>3 DEF CallFree
    <2>2. "free" \in AllOps /\ "free" \notin AllocOps
      BY DEF AllOps, AllocOps, FreeingOps
    <2> QED
      BY <1>1, <2>1, <2>2
  <1>4. CASE CallRealloc(t)
    <2>1. PICK arg \in SUBSET (Available("app") \cap Addr), s \in Sizes \cup {0} : Call(t, "realloc", arg, s)
      BY <1>4 DEF CallRealloc
    <2>2. "realloc" \in AllOps /\ "realloc" \notin AllocOps
      BY DEF AllOps, AllocOps
    <2> QED
      BY <1>1, <2>1, <2>2
  <1>5. CASE CallMmap(t)
    <2>1. "mmap" \in AllOps
      BY DEF AllOps
    <2> QED
      BY <1>1, <1>5, <2>1 DEF CallMmap
  <1>6. CASE CallMunmap(t)
    <2>1. PICK ps \in SUBSET (Available("app") \cap Page) : Call(t, "munmap", ps, 0)
      BY <1>6 DEF CallMunmap
    <2>2. "munmap" \in AllOps /\ "munmap" \notin AllocOps
      BY DEF AllOps, AllocOps, FreeingOps
    <2> QED
      BY <1>1, <2>1, <2>2
  <1> QED
    BY <1>2, <1>3, <1>4, <1>5, <1>6 DEF Start

LEMMA CallBackEntered ==
    ASSUME TypeOK, ControlInv, NEW t \in Threads, CallBack(t)
    PROVE  \E op, arg, size : Enter(t, 2, op, arg, size) /\ Entered(t, 2, op, arg)
  <1>0. FrameInv(t, 1) /\ {"mmap", "munmap"} \subseteq AllOps \ AllocOps
    BY DEF ControlInv, Depth, AllOps, AllocOps, FreeingOps
  <1>1. pc[t][1] # "idle" /\ installed \in {0, 8}
    BY <1>0 DEF CallBack, FrameInv
  <1>2. CASE Enter(t, 2, "mmap", {}, PageSize) /\ pc[t][1] \in {"alloc", "record", "forget"}
    BY <1>0, <1>1, <1>2 DEF Entered
  <1>3. ASSUME NEW p \in Available("libc") \cap Page, Enter(t, 2, "munmap", {p}, 0)
        PROVE  Entered(t, 2, "munmap", {p})
    BY <1>0, <1>1, <1>3 DEF Entered, Holder
  <1> QED
    BY <1>2, <1>3 DEF CallBack

LEMMA EnterControl ==
    ASSUME TypeOK, ControlInv, NEW t \in Threads, NEW d \in Depth, NEW op, NEW arg, NEW size,
           Enter(t, d, op, arg, size), Entered(t, d, op, arg)
    PROVE  ControlInv'
  <1> DEFINE p == FirstPc(op, Hooked(op))
  <1>0. /\ op \in AllOps /\ UNCHANGED <<installed, owner, depth>> /\ pc[t][d] = "idle"
        /\ Hooked(op) <=> installed = 8
    BY AllHooked DEF Entered, Enter, lockVars
  <1>1. /\ Untouched(t, d) /\ pc'[t][d] = p
        /\ call'[t][d].op = op /\ call'[t][d].hooked = Hooked(op)
        /\ call'[t][d].arg = arg /\ call'[t][d].ret = {}
    BY <1>0, EnterEffect
  <1>2. \/ p = "map" /\ op = "mmap"
        \/ p = "lock" /\ Hooked(op) /\ op # "mmap"
        \/ p = "release" /\ op \in FreeingOps /\ ~Hooked(op)
        \/ p = "alloc" /\ op \in Obtaining /\ ~Hooked(op)
    BY <1>0 DEF FirstPc, AllOps, Obtaining
  <1>3. FrameInv(t, d)'
    BY <1>0, <1>1, <1>2 DEF FrameInv, Entered, AllOps, AllocOps, FreeingOps, Obtaining
  <1>4. \A u \in Threads, e \in Depth : FrameInv(u, e)'
    <2>1. ASSUME NEW u \in Threads, NEW e \in Depth, u # t \/ e # d
          PROVE  FrameInv(u, e)'
      <3>1. pc'[u][e] = pc[u][e] /\ call'[u][e] = call[u][e] /\ FrameInv(u, e)
        BY <1>1, <2>1 DEF Untouched, ControlInv
      <3> QED
        BY <1>0, <3>1 DEF FrameInv
    <2> QED
      BY <1>3, <2>1
  <1>5. \A u \in Threads : NestInv(u)'
    <2>1. ASSUME NEW u \in Threads, u # t
          PROVE  NestInv(u)'
      BY <1>1, <2>1 DEF Untouched, ControlInv, NestInv, InLock, Depth
    <2>2. CASE d = 1
      <3>1. pc'[t][2] = "idle"
        BY <1>1, <2>2 DEF Untouched, Depth, Entered
      <3> QED
        BY <2>1, <3>1 DEF NestInv
    <2>3. CASE d = 2
      <3>1. pc'[t][1] = pc[t][1] /\ call'[t][1] = call[t][1] /\ FrameInv(t, 1)
        BY <1>1, <2>3 DEF Untouched, Depth, ControlInv
      <3>2. NestInv(t)'
        BY <1>0, <1>1, <2>3, <3>1 DEF NestInv, InLock, Entered, FrameInv
      <3> QED
        BY <2>1, <3>2
    <2> QED
      BY <2>2, <2>3 DEF Depth
  <1>6. ~InLock(t, d) /\ ~InLock(t, d)'
    BY <1>0, <1>1, <1>2 DEF InLock
  <1>7. LockExact'
    <2>1. \A u \in Threads : Locks(u)' = Locks(u)
      BY <1>1, <1>6, LocksByFrame
    <2> QED
      BY <1>0, <2>1 DEF LockExact, ControlInv
  <1> QED
    BY <1>4, <1>5, <1>7 DEF ControlInv

LEMMA NextControl ==
    ASSUME LedgerAssumptions, TypeOK, LockInv, ControlInv, [Next]_vars
    PROVE  ControlInv'
  <1>1. CASE Install
    <2>1. \A t \in Threads : pc[t][1] = "idle" /\ pc[t][2] = "idle"
      BY <1>1 DEF Install, LedgerAssumptions, ControlInv, NestInv
    <2>2. UNCHANGED <<pc, call, owner, depth>>
      BY <1>1 DEF Install, threadVars, lockVars
    <2>3. \A t \in Threads, d \in Depth : FrameInv(t, d)'
      <3> SUFFICES ASSUME NEW t \in Threads, NEW d \in Depth
                   PROVE  FrameInv(t, d)'
        OBVIOUS
      <3>1. FrameInv(t, d) /\ pc[t][d] = "idle"
        BY <2>1 DEF ControlInv, Depth
      <3> QED
        BY <2>2, <3>1 DEF FrameInv
    <2>4. \A t \in Threads : NestInv(t)'
      BY <2>1, <2>2 DEF NestInv
    <2>5. LockExact'
      BY <2>2 DEF LockExact, ControlInv, Locks, InLock
    <2> QED
      BY <2>3, <2>4, <2>5 DEF ControlInv
  <1>2. ASSUME NEW t \in Threads, Start(t) \/ CallBack(t)
        PROVE  ControlInv'
    BY <1>2, StartEntered, CallBackEntered, EnterControl DEF Depth
  <1>3. ASSUME NEW t \in Threads, NEW d \in Depth, Step(t, d)
        PROVE  ControlInv'
    BY <1>3, StepControl
  <1>4. CASE Accept \/ ServerStep \/ UNCHANGED vars
    <2>1. UNCHANGED <<pc, call, installed>>
      BY <1>4 DEF Accept, ServerStep, LockServer, Walk, UnlockServer, vars, threadVars
    <2>2. UNCHANGED <<owner, depth>> \/ owner' \notin Threads
      BY <1>4, ServerAssumption DEF Accept, ServerStep, LockServer, Walk, UnlockServer,
                                    vars, lockVars, lockHeapInfo, unlockHeapInfo, LockInv
    <2>3. \A t \in Threads, d \in Depth : FrameInv(t, d)'
      BY <2>1 DEF ControlInv, FrameInv
    <2>4. \A t \in Threads : NestInv(t)'
      BY <2>1 DEF ControlInv, NestInv, InLock
    <2>5. LockExact'
      BY <2>1, <2>2 DEF LockExact, ControlInv, Locks, InLock
    <2> QED
      BY <2>3, <2>4, <2>5 DEF ControlInv
  <1> QED
    BY <1>1, <1>2, <1>3, <1>4 DEF Next
-----------------------------------------------------------------------------
(* The data layer: a step of a frame matters only to that frame and to the *)
(* addresses K it passes on, obtains or gives back.                        *)

Alone(t, d, k) ==
    \A u \in Threads, e \in Depth : u # t \/ e # d => k \notin Keys(u, e)

LEMMA KeysInKey ==
    ASSUME TypeOK, NEW t \in Threads, NEW d \in Depth
    PROVE  Keys(t, d) \subseteq Key
  BY DEF TypeOK, Keys, Calls

LEMMA OwnKeysAlone ==
    ASSUME DataInv, NEW t \in Threads, NEW d \in Depth, NEW k \in Keys(t, d)
    PROVE  Alone(t, d, k)
  BY DEF DataInv, Exclusive, Alone

LEMMA LocalStep ==
    ASSUME TypeOK, DataInv, NEW t \in Threads, NEW d \in Depth, NEW K,
           Untouched(t, d), installed' = installed,
           Keys(t, d)' \subseteq K,
           \A k \in K : Alone(t, d, k),
           \A k \in Key \ K : mem'[k] = mem[k] /\ m_infoMap'[k] = m_infoMap[k],
           Keys(t, d) \subseteq K,
           HeldInv(t, d)', DoneInv(t, d)', \A k \in Key \cap K : KeyInv(k)'
    PROVE  DataInv'
  <1>1. \A u \in Threads, e \in Depth :
          u # t \/ e # d => /\ pc'[u][e] = pc[u][e] /\ call'[u][e] = call[u][e]
                            /\ Keys(u, e)' = Keys(u, e) /\ Keys(u, e) \cap K = {}
    BY DEF Untouched, Keys, Alone
  <1>2. \A u \in Threads, e \in Depth : HeldInv(u, e)' /\ DoneInv(u, e)'
    <2>1. ASSUME NEW u \in Threads, NEW e \in Depth, u # t \/ e # d
          PROVE  HeldInv(u, e)' /\ DoneInv(u, e)'
      <3>1. \A k \in Keys(u, e) : mem'[k] = mem[k] /\ m_infoMap'[k] = m_infoMap[k]
        BY <1>1, <2>1, KeysInKey
      <3>2. \A k \in Keys(u, e) : Settled(k)' <=> Settled(k)
        BY <3>1 DEF Settled, MemInfo
      <3>3. HeldInv(u, e) /\ DoneInv(u, e)
        BY DEF DataInv
      <3>4. pc'[u][e] = pc[u][e] /\ call'[u][e] = call[u][e]
        BY <1>1, <2>1
      <3>5. HeldInv(u, e)'
        BY <3>1, <3>3, <3>4 DEF HeldInv, Keys
      <3>6. DoneInv(u, e)'
        BY <3>1, <3>2, <3>3, <3>4 DEF DoneInv, Keys
      <3> QED
        BY <3>5, <3>6
    <2> QED
      BY <2>1
  <1>3. Exclusive'
    <2> SUFFICES ASSUME NEW u \in Threads, NEW v \in Threads, NEW e \in Depth, NEW f \in Depth,
                        <<u, e>> # <<v, f>>
                 PROVE  Keys(u, e)' \cap Keys(v, f)' = {}
      BY DEF Exclusive
    <2>1. CASE u = t /\ e = d
      BY <1>1, <2>1
    <2>2. CASE v = t /\ f = d
      BY <1>1, <2>2
    <2>3. CASE (u # t \/ e # d) /\ (v # t \/ f # d)
      BY <1>1, <2>3 DEF DataInv, Exclusive
    <2> QED
      BY <2>1, <2>2, <2>3
  <1>4. ASSUME NEW k \in Key \ K
        PROVE  KeyInv(k)'
    <2>1. KeyInv(k) /\ mem'[k] = mem[k] /\ m_infoMap'[k] = m_infoMap[k] /\ k \notin Keys(t, d)
      BY <1>4 DEF DataInv
    <2>2. BeingRenewed(k) => BeingRenewed(k)'
      BY <1>1, <2>1 DEF BeingRenewed, Keys
    <2>3. InUse(k) => InUse(k)'
      BY <1>1, <2>1 DEF InUse
    <2>4. Settled(k) => Settled(k)'
      BY <2>1 DEF Settled, MemInfo
    <2>5. SoundAt(k)'
      BY <2>1, <2>2 DEF KeyInv, SoundAt, MemInfo
    <2>6. MemoryInv(k)'
      BY <2>1 DEF KeyInv, MemoryInv
    <2> QED
      BY <2>1, <2>3, <2>4, <2>5, <2>6 DEF KeyInv
  <1> QED
    BY <1>2, <1>3, <1>4 DEF DataInv

(* A key no frame is renewing is recorded soundly as it is.                *)
LEMMA SoundAlone ==
    ASSUME NEW k, SoundAt(k), NEW t \in Threads, NEW d \in Depth, Alone(t, d, k),
           pc[t][d] # "record" \/ k \notin Keys(t, d) \/ call[t][d].op # "realloc"
    PROVE  m_infoMap[k] = NoInfo \/ (mem[k].owner = "app" /\ m_infoMap[k] = MemInfo(k))
  BY DEF SoundAt, BeingRenewed, Alone, Keys

LEMMA KeyKept ==
    ASSUME NEW k, KeyInv(k), NEW t \in Threads, NEW d \in Depth, Alone(t, d, k),
           pc[t][d] # "record" \/ k \notin Keys(t, d) \/ call[t][d].op # "realloc",
           mem'[k] = mem[k], m_infoMap'[k] = m_infoMap[k], installed' = installed,
           Settled(k) \/ k \in Keys(t, d)'
    PROVE  KeyInv(k)'
  <1>1. SoundAt(k)'
    BY SoundAlone DEF KeyInv, SoundAt, MemInfo
  <1>2. MemoryInv(k)'
    BY DEF KeyInv, MemoryInv
  <1>3. Settled(k)' \/ InUse(k)'
    BY DEF Settled, MemInfo, InUse
  <1> QED
    BY <1>1, <1>2, <1>3 DEF KeyInv

(* A frame that has returned holds nothing.                                *)
LEMMA ReturnedFrame ==
    ASSUME NEW t \in Threads, NEW d \in Depth, Returned(t, d)
    PROVE  Keys(t, d)' = {} /\ HeldInv(t, d)' /\ DoneInv(t, d)'
  <1>1. call'[t][d].arg = {} /\ call'[t][d].ret = {} /\ pc'[t][d] = "idle"
    BY DEF Returned, NoCall
  <1> QED
    BY <1>1 DEF Keys, HeldInv, DoneInv
-----------------------------------------------------------------------------
(* One step at a time.                                                     *)

LEMMA EnterData ==
    ASSUME TypeOK, ControlInv, DataInv, NEW t \in Threads, NEW d \in Depth,
           NEW op, NEW arg, NEW size,
           Enter(t, d, op, arg, size), Entered(t, d, op, arg)
    PROVE  DataInv'
  <1>0. /\ op \in AllOps /\ pc[t][d] = "idle"
        /\ UNCHANGED <<installed, mem, m_infoMap>>
        /\ Hooked(op) <=> installed = 8
        /\ installed \in {0, 8}
    BY AllHooked DEF Entered, Enter
  <1>1. /\ Untouched(t, d) /\ pc'[t][d] = FirstPc(op, Hooked(op))
        /\ call'[t][d].op = op /\ call'[t][d].hooked = Hooked(op)
        /\ call'[t][d].arg = arg /\ call'[t][d].ret = {}
    BY <1>0, EnterEffect
  <1>2. Keys(t, d) = {} /\ Keys(t, d)' = arg
    BY <1>0, <1>1 DEF ControlInv, FrameInv, Keys
  <1>3. \A k \in arg : k \in Key /\ mem[k].owner = Holder(d) /\ Alone(t, d, k) /\ ~InUse(k)
    BY DEF Entered, Available, Alone, InUse, Keys
  <1>4. \A k \in arg : KeyInv(k) /\ Settled(k)
    BY <1>3 DEF DataInv, KeyInv
  <1>5. HeldInv(t, d)'
    BY <1>0, <1>1, <1>3 DEF HeldInv, FirstPc
  <1>6. DoneInv(t, d)'
    <2>1. \A k \in arg : Settled(k)'
      BY <1>0, <1>4 DEF Settled, MemInfo
    <2>2. pc'[t][d] = "release" => \A k \in arg : m_infoMap[k] = NoInfo
      <3>1. pc'[t][d] = "release" => installed < 8
        BY <1>0, <1>1 DEF FirstPc
      <3> QED
        BY <1>4, <3>1 DEF KeyInv, MemoryInv
    <2>3. pc'[t][d] # "unlock"
      BY <1>1 DEF FirstPc
    <2> QED
      BY <1>0, <1>1, <2>1, <2>2, <2>3 DEF DoneInv
  <1>7. \A k \in arg : KeyInv(k)'
    BY <1>0, <1>2, <1>3, <1>4, KeyKept
  <1> QED
    BY <1>0, <1>1, <1>2, <1>3, <1>5, <1>6, <1>7, LocalStep

(* A step that leaves memory and ledger alone and keeps its addresses.     *)
LEMMA QuietMove ==
    ASSUME TypeOK, DataInv, NEW t \in Threads, NEW d \in Depth, NEW p,
           Moved(t, d, p, call[t][d].ret), UNCHANGED <<installed, mem, m_infoMap>>,
           pc[t][d] # "record" \/ call[t][d].op # "realloc",
           HeldInv(t, d)', DoneInv(t, d)'
    PROVE  DataInv'
  <1>1. Untouched(t, d) /\ Keys(t, d)' = Keys(t, d)
    BY DEF Moved, SameCall, Keys
  <1>2. \A k \in Keys(t, d) : k \in Key /\ Alone(t, d, k) /\ KeyInv(k)
    BY KeysInKey, OwnKeysAlone DEF DataInv
  <1>3. \A k \in Keys(t, d) : KeyInv(k)'
    BY <1>1, <1>2, KeyKept
  <1> QED
    BY <1>1, <1>2, <1>3, LocalStep

(* A step that leaves memory and ledger alone and ends its call.           *)
LEMMA QuietReturn ==
    ASSUME TypeOK, DataInv, NEW t \in Threads, NEW d \in Depth,
           Returned(t, d), UNCHANGED <<installed, mem, m_infoMap>>,
           pc[t][d] # "record",
           \A k \in Keys(t, d) : Settled(k)
    PROVE  DataInv'
  <1>1. Untouched(t, d) /\ Keys(t, d)' = {} /\ HeldInv(t, d)' /\ DoneInv(t, d)'
    BY ReturnedFrame DEF Returned
  <1>2. \A k \in Keys(t, d) : k \in Key /\ Alone(t, d, k) /\ KeyInv(k)
    BY KeysInKey, OwnKeysAlone DEF DataInv
  <1>3. \A k \in Keys(t, d) : KeyInv(k)'
    BY <1>2, KeyKept
  <1> QED
    BY <1>1, <1>2, <1>3, LocalStep

LEMMA LockData ==
    ASSUME TypeOK, ControlInv, DataInv, NEW t \in Threads, NEW d \in Depth, Lock(t, d)
    PROVE  DataInv'
  <1> DEFINE c == call[t][d]
  <1>1. /\ Moved(t, d, AfterLock(c.op), c.ret) /\ UNCHANGED <<installed, mem, m_infoMap>>
        /\ pc[t][d] = "lock"
    BY StepEffect DEF Lock
  <1>2. FrameInv(t, d) /\ HeldInv(t, d) /\ DoneInv(t, d)
    BY DEF ControlInv, DataInv
  <1>3. /\ pc'[t][d] = AfterLock(c.op) /\ call'[t][d].op = c.op /\ call'[t][d].arg = c.arg
        /\ call'[t][d].ret = c.ret /\ call'[t][d].size = c.size
    BY <1>1 DEF Moved, SameCall
  <1>4. pc'[t][d] = "record" => c.arg = {}
    BY <1>2, <1>3 DEF AfterLock, FrameInv
  <1>5. HeldInv(t, d)'
    BY <1>1, <1>2, <1>3, <1>4 DEF HeldInv
  <1>6. DoneInv(t, d)'
    <2>1. \A k \in c.arg : Settled(k) => Settled(k)'
      BY <1>1 DEF Settled, MemInfo
    <2>2. pc'[t][d] \in {"record", "forget", "alloc"}
      BY <1>3 DEF AfterLock
    <2> QED
      BY <1>1, <1>2, <1>3, <2>1, <2>2 DEF DoneInv
  <1> QED
    BY <1>1, <1>5, <1>6, QuietMove

LEMMA UnlockData ==
    ASSUME TypeOK, ControlInv, DataInv, NEW t \in Threads, NEW d \in Depth, Unlock(t, d)
    PROVE  DataInv'
  <1> DEFINE c == call[t][d]
  <1>1. UNCHANGED <<installed, mem, m_infoMap>> /\ pc[t][d] = "unlock"
    BY DEF Unlock
  <1>2. FrameInv(t, d) /\ HeldInv(t, d) /\ DoneInv(t, d)
    BY DEF ControlInv, DataInv
  <1>3. CASE Moved(t, d, "release", c.ret) /\ c.op \in FreeingOps
    <2>1. /\ pc'[t][d] = "release" /\ call'[t][d].op = c.op /\ call'[t][d].arg = c.arg
          /\ call'[t][d].ret = c.ret /\ call'[t][d].size = c.size
      BY <1>3 DEF Moved, SameCall
    <2>2. c.op # "realloc"
      BY <1>3 DEF FreeingOps
    <2>3. HeldInv(t, d)'
      BY <1>1, <1>2, <2>1, <2>2 DEF HeldInv
    <2>4. DoneInv(t, d)'
      BY <1>1, <1>2, <1>3, <2>1 DEF DoneInv
    <2> QED
      BY <1>1, <1>3, <2>3, <2>4, QuietMove
  <1>4. CASE Returned(t, d) /\ c.op \notin FreeingOps
    <2>1. \A k \in Keys(t, d) : Settled(k)
      BY <1>1, <1>2, <1>4 DEF DoneInv
    <2> QED
      BY <1>1, <1>4, <2>1, QuietReturn
  <1> QED
    BY <1>3, <1>4, StepEffect

LEMMA AllocFailsData ==
    ASSUME LedgerAssumptions, TypeOK, ControlInv, DataInv,
           NEW t \in Threads, NEW d \in Depth, AllocFails(t, d)
    PROVE  DataInv'
  <1> DEFINE c == call[t][d]
  <1>1. UNCHANGED <<installed, mem, m_infoMap>> /\ pc[t][d] = "alloc"
    BY DEF AllocFails, LedgerAssumptions
  <1>2. FrameInv(t, d) /\ HeldInv(t, d) /\ DoneInv(t, d)
    BY DEF ControlInv, DataInv
  <1>3. c.op \in Obtaining /\ c.ret = {} /\ (c.op # "realloc" => c.arg = {})
    BY <1>1, <1>2 DEF FrameInv, Obtaining
  <1>4. \A k \in Keys(t, d) : Settled(k)
    BY <1>1, <1>2, <1>3 DEF DoneInv, Keys
  <1>5. CASE Moved(t, d, "unlock", c.ret)
    <2>1. /\ pc'[t][d] = "unlock" /\ call'[t][d].op = c.op /\ call'[t][d].arg = c.arg
          /\ call'[t][d].ret = c.ret /\ call'[t][d].size = c.size
      BY <1>5 DEF Moved, SameCall
    <2>2. HeldInv(t, d)'
      BY <1>1, <1>2, <1>3, <2>1 DEF HeldInv
    <2>3. Keys(t, d)' = Keys(t, d) /\ \A k \in Keys(t, d) : Settled(k)'
      BY <1>1, <1>4, <2>1 DEF Keys, Settled, MemInfo
    <2>4. c.op \notin FreeingOps
      BY <1>3 DEF Obtaining, AllocOps, FreeingOps
    <2>5. DoneInv(t, d)'
      BY <2>1, <2>3, <2>4 DEF DoneInv
    <2> QED
      BY <1>1, <1>5, <2>2, <2>5, QuietMove
  <1>6. CASE Returned(t, d)
    BY <1>1, <1>4, <1>6, QuietReturn
  <1> QED
    BY <1>5, <1>6, StepEffect
(* Memory nobody owns is in no other frame, unless a realloc that holds    *)
(* the lock is about to unregister it.                                     *)
LEMMA FreeIsAlone ==
    ASSUME TypeOK, ControlInv, DataInv, NEW k \in Key, mem[k].owner = "none",
           NEW t \in Threads, NEW d \in Depth, NEW u \in Threads, NEW e \in Depth,
           k \in Keys(u, e)
    PROVE  k \in Addr /\ InLock(u, e) /\ pc[u][e] # "idle" /\ installed = 8
  <1> DEFINE c == call[u][e]
  <1>1. FrameInv(u, e) /\ HeldInv(u, e)
    BY DEF ControlInv, DataInv
  <1>2. k \notin c.ret
    BY <1>1 DEF HeldInv, Holder
  <1>3. k \in c.arg \ c.ret
    BY <1>2 DEF Keys
  <1>4. c.op = "realloc" /\ pc[u][e] \in {"record", "unlock"}
    BY <1>1, <1>3 DEF HeldInv, Holder
  <1>5. k \in Addr
    BY <1>1, <1>3, <1>4 DEF FrameInv, Obtaining
  <1> QED
    BY <1>1, <1>4, <1>5 DEF InLock, FrameInv

LEMMA MapData ==
    ASSUME TypeOK, ControlInv, DataInv, NEW t \in Threads, NEW d \in Depth, Map(t, d)
    PROVE  DataInv'
  <1> DEFINE c == call[t][d]
  <1>1. UNCHANGED <<installed, m_infoMap>> /\ pc[t][d] = "map"
    BY DEF Map
  <1>2. FrameInv(t, d) /\ c.op = "mmap" /\ Keys(t, d) = {}
    BY <1>1 DEF ControlInv, FrameInv, Keys
  <1>3. CASE Return(t, d) /\ UNCHANGED mem
    BY <1>1, <1>2, <1>3, ReturnEffect, QuietReturn
  <1>4. ASSUME NEW ps \in SUBSET {p \in Page : mem[p].owner = "none"},
               mem' = [k \in Key |->
                          IF k \in ps
                          THEN [owner |-> Holder(d), size |-> PageSize, seen |-> c.hooked]
                          ELSE mem[k]],
               IF c.hooked
               THEN Goto(t, d, "lock") /\ call' = [call EXCEPT ![t][d].ret = ps]
               ELSE Return(t, d)
        PROVE  DataInv'
    <2>1. \A k \in ps : k \in Key /\ k \notin Addr /\ mem[k].owner = "none"
      BY <1>4, KeyAssumption DEF Key
    <2>2. \A k \in ps : Alone(t, d, k)
      BY <2>1, FreeIsAlone DEF Alone
    <2>3. \A k \in ps : mem'[k].owner = Holder(d) /\ mem'[k].seen = c.hooked
      BY <1>4, <2>1
    <2>4. \A k \in Key \ ps : mem'[k] = mem[k]
      BY <1>4
    <2>5. \A k \in ps : m_infoMap[k] = NoInfo
      <3> SUFFICES ASSUME NEW k \in ps
                   PROVE  m_infoMap[k] = NoInfo
        OBVIOUS
      <3>1. SoundAt(k) /\ Alone(t, d, k)
        BY <2>1, <2>2 DEF DataInv, KeyInv
      <3> QED
        BY <1>1, <2>1, <3>1, SoundAlone
    <2>6. \A k \in ps : SoundAt(k)'
      BY <1>1, <2>5 DEF SoundAt
    <2>7. \A k \in ps : (installed < 8 => ~c.hooked) => MemoryInv(k)'
      BY <1>1, <2>1, <2>3, <2>5 DEF MemoryInv
    <2>8. installed < 8 => ~c.hooked
      BY <1>1, <1>2 DEF FrameInv
    <2>9. CASE c.hooked
      <3>1. Moved(t, d, "lock", ps)
        BY <1>4, <2>9, ObtainEffect
      <3>2. /\ Untouched(t, d) /\ pc'[t][d] = "lock" /\ call'[t][d].op = "mmap"
            /\ call'[t][d].arg = {} /\ call'[t][d].ret = ps
        BY <1>2, <3>1 DEF Moved, SameCall, Keys
      <3>3. Keys(t, d)' = ps
        BY <3>2 DEF Keys
      <3>4. HeldInv(t, d)'
        BY <2>1, <2>3, <3>2 DEF HeldInv
      <3>5. DoneInv(t, d)'
        BY <3>2 DEF DoneInv
      <3>6. \A k \in ps : KeyInv(k)'
        BY <2>6, <2>7, <2>8, <3>3 DEF KeyInv, InUse
      <3> QED
        BY <1>1, <1>2, <2>2, <2>4, <3>2, <3>3, <3>4, <3>5, <3>6, LocalStep
    <2>10. CASE ~c.hooked
      <3>1. Returned(t, d)
        BY <1>4, <2>10, ReturnEffect
      <3>2. \A k \in ps : Settled(k)'
        BY <2>3, <2>10 DEF Settled
      <3>3. \A k \in ps : KeyInv(k)'
        BY <2>6, <2>7, <2>8, <3>2 DEF KeyInv
      <3>4. Untouched(t, d) /\ Keys(t, d)' = {} /\ HeldInv(t, d)' /\ DoneInv(t, d)'
        BY <3>1, ReturnedFrame DEF Returned
      <3> QED
        BY <1>1, <1>2, <2>2, <2>4, <3>3, <3>4, LocalStep
    <2> QED
      BY <2>9, <2>10
  <1> QED
    BY <1>3, <1>4 DEF Map
(* Two frames in their critical sections are frames of one thread.         *)
LEMMA InLockAlone ==
    ASSUME LockInv, NEW t \in Threads, NEW d \in Depth, InLock(t, d),
           NEW u \in Threads, NEW e \in Depth, InLock(u, e)
    PROVE  u = t
  <1>1. Locks(t) > 0 /\ Locks(u) > 0
    BY DEF Locks, Depth
  <1> QED
    BY <1>1 DEF LockInv

LEMMA AllocSucceedsData ==
    ASSUME TypeOK, LockInv, ControlInv, DataInv,
           NEW t \in Threads, NEW d \in Depth, AllocSucceeds(t, d)
    PROVE  DataInv'
  <1> DEFINE c == call[t][d]
  <1>1. UNCHANGED <<installed, m_infoMap>> /\ pc[t][d] = "alloc" /\ Runnable(t, d)
    BY DEF AllocSucceeds
  <1>2. FrameInv(t, d) /\ HeldInv(t, d) /\ DoneInv(t, d)
    BY DEF ControlInv, DataInv
  <1>3. /\ c.op \in Obtaining /\ c.ret = {} /\ (c.op # "realloc" => c.arg = {})
        /\ c.arg \subseteq Addr /\ installed \in {0, 8} /\ (c.hooked <=> installed = 8)
    BY <1>1, <1>2 DEF FrameInv, Obtaining
  <1>4. d = 1 /\ pc[t][2] = "idle"
    BY <1>1, <1>2, <1>3 DEF FrameInv, Depth, Runnable, Obtaining, AllocOps
  <1>5. PICK a \in Addr :
          /\ mem[a].owner = "none" \/ a \in c.arg
          /\ mem' = [k \in Key |->
                       IF k = a
                       THEN [owner |-> Holder(d), size |-> c.size, seen |-> c.hooked]
                       ELSE IF k \in c.arg THEN FreeMem ELSE mem[k]]
          /\ IF c.hooked
             THEN /\ Goto(t, d, "record")
                  /\ call' = [call EXCEPT ![t][d].ret = {a}]
             ELSE Return(t, d)
    BY DEF AllocSucceeds
  <1> DEFINE K == {a} \cup c.arg
  <1>6. a \in Key /\ c.arg \subseteq Key /\ K \subseteq Addr /\ Keys(t, d) = c.arg
    BY <1>3, <1>5 DEF Key, Keys
  <1>7. /\ mem'[a].owner = "app" /\ mem'[a].size = c.size /\ mem'[a].seen = c.hooked
        /\ \A k \in c.arg \ {a} : mem'[k].owner = "none" /\ mem'[k].seen = FALSE
        /\ \A k \in Key \ K : mem'[k] = mem[k]
    BY <1>4, <1>5, <1>6 DEF FreeMem, Holder
  <1>8. \A k \in K : Alone(t, d, k)
    <2>1. ASSUME a \notin c.arg, NEW u \in Threads, NEW e \in Depth, u # t \/ e # d,
                 a \in Keys(u, e)
          PROVE  FALSE
      <3>1. InLock(u, e) /\ pc[u][e] # "idle" /\ installed = 8
        BY <1>5, <1>6, <2>1, FreeIsAlone
      <3>2. InLock(t, d)
        BY <1>1, <1>3, <3>1 DEF InLock
      <3>3. u = t
        BY <3>1, <3>2, InLockAlone
      <3> QED
        BY <1>4, <2>1, <3>1, <3>3 DEF Depth
    <2>2. a \notin c.arg => Alone(t, d, a)
      BY <2>1 DEF Alone
    <2>3. \A k \in c.arg : Alone(t, d, k)
      BY <1>6, OwnKeysAlone
    <2> QED
      BY <2>2, <2>3
  <1>9. a \notin c.arg => m_infoMap[a] = NoInfo
    <2>1. ASSUME a \notin c.arg
          PROVE  m_infoMap[a] = NoInfo
      <3>1. SoundAt(a) /\ Alone(t, d, a) /\ mem[a].owner = "none"
        BY <1>5, <1>6, <1>8, <2>1 DEF DataInv, KeyInv
      <3> QED
        BY <1>1, <3>1, SoundAlone
    <2> QED
      BY <2>1
  <1>10. \A k \in K : MemoryInv(k)'
    <2>1. installed < 8 => ~c.hooked
      BY <1>3
    <2>2. \A k \in K : installed < 8 => m_infoMap[k] = NoInfo
      BY <1>6 DEF DataInv, KeyInv, MemoryInv
    <2> QED
      BY <1>1, <1>7, <2>1, <2>2 DEF MemoryInv
  <1>11. CASE c.hooked
    <2>1. Moved(t, d, "record", {a})
      BY <1>5, <1>11, ObtainEffect
    <2>2. /\ Untouched(t, d) /\ pc'[t][d] = "record" /\ call'[t][d].op = c.op
          /\ call'[t][d].arg = c.arg /\ call'[t][d].ret = {a} /\ call'[t][d].size = c.size
      BY <2>1 DEF Moved, SameCall
    <2>3. Keys(t, d)' = K
      BY <2>2 DEF Keys
    <2>4. HeldInv(t, d)'
      BY <1>3, <1>4, <1>7, <2>2 DEF HeldInv, Holder
    <2>5. DoneInv(t, d)'
      BY <2>2 DEF DoneInv
    <2>6. \A k \in K : SoundAt(k)'
      <3>1. \A k \in c.arg : BeingRenewed(k)'
        BY <1>3, <2>2 DEF BeingRenewed
      <3> QED
        BY <1>1, <1>9, <3>1 DEF SoundAt
    <2>7. \A k \in K : KeyInv(k)'
      BY <1>10, <2>3, <2>6 DEF KeyInv, InUse
    <2>8. Keys(t, d) \subseteq K
      BY <1>6
    <2> HIDE DEF K
    <2> QED
      BY <1>1, <1>7, <1>8, <2>2, <2>3, <2>4, <2>5, <2>7, <2>8, LocalStep
  <1>12. CASE ~c.hooked
    <2>1. Returned(t, d)
      BY <1>5, <1>12, ReturnEffect
    <2>2. Untouched(t, d) /\ Keys(t, d)' = {} /\ HeldInv(t, d)' /\ DoneInv(t, d)'
      BY <2>1, ReturnedFrame DEF Returned
    <2>3. \A k \in K : m_infoMap[k] = NoInfo
      BY <1>3, <1>6, <1>12 DEF DataInv, KeyInv, MemoryInv
    <2>4. \A k \in K : SoundAt(k)'
      BY <1>1, <2>3 DEF SoundAt
    <2>5. \A k \in K : Settled(k)'
      BY <1>7, <1>12 DEF Settled
    <2>6. \A k \in K : KeyInv(k)'
      BY <1>10, <2>4, <2>5 DEF KeyInv
    <2>7. Keys(t, d) \subseteq K
      BY <1>6
    <2> HIDE DEF K
    <2> QED
      BY <1>1, <1>7, <1>8, <2>2, <2>6, <2>7, LocalStep
  <1> QED
    BY <1>11, <1>12

LEMMA ReleaseData ==
    ASSUME TypeOK, ControlInv, DataInv, NEW t \in Threads, NEW d \in Depth, Release(t, d)
    PROVE  DataInv'
  <1> DEFINE c == call[t][d]
  <1>1. /\ UNCHANGED <<installed, m_infoMap>> /\ pc[t][d] = "release"
        /\ mem' = [k \in Key |-> IF k \in c.arg THEN FreeMem ELSE mem[k]]
    BY DEF Release
  <1>2. c.op \in FreeingOps /\ Keys(t, d) = c.arg
    BY <1>1 DEF ControlInv, FrameInv, Keys
  <1>3. \A k \in c.arg : k \in Key /\ Alone(t, d, k) /\ m_infoMap[k] = NoInfo
    BY <1>1, <1>2, KeysInKey, OwnKeysAlone DEF DataInv, DoneInv
  <1>4. /\ \A k \in c.arg : mem'[k].owner = "none" /\ ~mem'[k].seen
        /\ \A k \in Key \ c.arg : mem'[k] = mem[k]
    BY <1>1, <1>3 DEF FreeMem
  <1>5. \A k \in c.arg : KeyInv(k)'
    <2>1. \A k \in c.arg : SoundAt(k)'
      BY <1>1, <1>3 DEF SoundAt
    <2>2. \A k \in c.arg : Settled(k)' /\ MemoryInv(k)'
      BY <1>1, <1>3, <1>4 DEF Settled, MemoryInv
    <2> QED
      BY <2>1, <2>2 DEF KeyInv
  <1>6. Returned(t, d)
    BY StepEffect
  <1>7. Untouched(t, d) /\ Keys(t, d)' = {} /\ HeldInv(t, d)' /\ DoneInv(t, d)'
    BY <1>6, ReturnedFrame DEF Returned
  <1> QED
    BY <1>1, <1>2, <1>3, <1>4, <1>5, <1>7, LocalStep
(* The outer frame is the one the handlers record for; a nested one finds  *)
(* the count above one and leaves the ledger alone.                        *)
LEMMA RecursiveIsNested ==
    ASSUME TypeOK, LockInv, ControlInv, NEW t \in Threads, NEW d \in Depth,
           InLock(t, d), Runnable(t, d)
    PROVE  /\ d = 1 => ~isCurrentThreadLockedRecursive
           /\ d = 2 /\ InLock(t, 1) => isCurrentThreadLockedRecursive
  <1>1. Locks(t) > 0 /\ Locks(t) \in Nat
    BY DEF Locks, Depth
  <1>2. s_lockCount = Locks(t)
    BY <1>1 DEF LockInv, ControlInv, LockExact
  <1>3. CASE d = 1
    <2>1. pc[t][2] = "idle"
      BY <1>3 DEF Runnable
    <2>2. ~InLock(t, 2)
      BY <2>1 DEF InLock
    <2> QED
      BY <1>2, <1>3, <2>2 DEF Locks, isCurrentThreadLockedRecursive
  <1>4. CASE d = 2
    BY <1>2, <1>4 DEF Locks, isCurrentThreadLockedRecursive
  <1> QED
    BY <1>3, <1>4 DEF Depth

LEMMA RecordData ==
    ASSUME TypeOK, LockInv, ControlInv, DataInv,
           NEW t \in Threads, NEW d \in Depth, Record(t, d)
    PROVE  DataInv'
  <1> DEFINE c == call[t][d]
  <1>1. UNCHANGED <<installed, mem>> /\ pc[t][d] = "record" /\ Runnable(t, d)
    BY DEF Record
  <1>2. FrameInv(t, d) /\ HeldInv(t, d)
    BY DEF ControlInv, DataInv
  <1>3. /\ c.op \in Obtaining \cup {"mmap"} /\ c.op \notin FreeingOps /\ c.hooked
        /\ installed = 8 /\ (c.op # "realloc" => c.arg = {})
    BY <1>1, <1>2 DEF FrameInv, Obtaining, AllocOps, FreeingOps
  <1>4. Moved(t, d, "unlock", c.ret) /\ InLock(t, d)
    BY <1>1, StepEffect DEF InLock
  <1>5. /\ Untouched(t, d) /\ pc'[t][d] = "unlock" /\ call'[t][d].op = c.op
        /\ call'[t][d].arg = c.arg /\ call'[t][d].ret = c.ret /\ call'[t][d].size = c.size
        /\ Keys(t, d)' = Keys(t, d)
    BY <1>4 DEF Moved, SameCall, Keys
  <1>6. HeldInv(t, d)'
    BY <1>1, <1>2, <1>3, <1>5 DEF HeldInv
  <1>7. \A k \in Keys(t, d) : k \in Key /\ Alone(t, d, k) /\ KeyInv(k)
    BY KeysInKey, OwnKeysAlone DEF DataInv
  <1>8. CASE d = 1
    <2>1. ~isCurrentThreadLockedRecursive
      BY <1>1, <1>4, <1>8, RecursiveIsNested
    <2>2. m_infoMap' = registerChunkInfo(c.ret, InfoFor(c), unregisterChunkInfo(c.arg, m_infoMap))
      BY <2>1 DEF Record
    <2>3. /\ \A k \in c.ret : m_infoMap'[k] = InfoFor(c)
          /\ \A k \in c.arg \ c.ret : m_infoMap'[k] = NoInfo
          /\ \A k \in Key \ Keys(t, d) : m_infoMap'[k] = m_infoMap[k]
      BY <1>7, <2>2 DEF registerChunkInfo, unregisterChunkInfo, Keys
    <2>4. \A k \in c.ret : mem'[k].owner = "app" /\ m_infoMap'[k] = MemInfo(k)'
      <3> SUFFICES ASSUME NEW k \in c.ret
                   PROVE  mem'[k].owner = "app" /\ m_infoMap'[k] = MemInfo(k)'
        OBVIOUS
      <3>1. mem'[k].owner = "app" /\ (k \in Addr => mem'[k].size = c.size)
        BY <1>1, <1>2, <1>8 DEF HeldInv, Holder
      <3>2. CASE c.op = "mmap"
        BY <1>2, <2>3, <3>1, <3>2 DEF FrameInv, InfoFor, MemInfo
      <3>3. CASE c.op \in Obtaining
        <4>1. k \in Addr /\ k \notin Page /\ c.op # "mmap"
          BY <1>2, <3>3, KeyAssumption DEF FrameInv, Obtaining, AllocOps
        <4> QED
          BY <2>3, <3>1, <4>1 DEF InfoFor, MemInfo
      <3> QED
        BY <1>3, <3>2, <3>3
    <2>5. \A k \in c.arg \ c.ret : mem'[k].owner = "none" /\ m_infoMap'[k] = NoInfo
      BY <1>1, <1>2, <2>3 DEF HeldInv
    <2>6. \A k \in Keys(t, d) : Settled(k)'
      BY <2>4, <2>5 DEF Settled, Keys
    <2>7. \A k \in Keys(t, d) : SoundAt(k)'
      BY <2>4, <2>5 DEF SoundAt, Keys
    <2>8. \A k \in Keys(t, d) : MemoryInv(k)'
      BY <1>1, <1>3, <1>7 DEF MemoryInv, KeyInv
    <2>9. DoneInv(t, d)'
      BY <1>3, <1>5, <2>6 DEF DoneInv
    <2>10. \A k \in Keys(t, d) : KeyInv(k)'
      BY <2>6, <2>7, <2>8 DEF KeyInv
    <2> QED
      BY <1>1, <1>5, <1>6, <1>7, <2>3, <2>9, <2>10, LocalStep
  <1>9. CASE d = 2
    <2>1. c.op = "mmap" /\ InLock(t, 1) /\ c.arg = {}
      BY <1>1, <1>2, <1>3, <1>9 DEF FrameInv, ControlInv, NestInv, Obtaining, AllocOps
    <2>2. m_infoMap' = m_infoMap
      BY <1>1, <1>4, <1>9, <2>1, RecursiveIsNested DEF Record
    <2>3. \A k \in Keys(t, d) : Settled(k)'
      BY <1>1, <1>2, <1>9, <2>1 DEF Settled, HeldInv, Holder, Keys
    <2>4. DoneInv(t, d)'
      BY <1>3, <1>5, <2>3 DEF DoneInv
    <2> QED
      BY <1>1, <1>4, <1>6, <2>1, <2>2, <2>4, QuietMove
  <1> QED
    BY <1>8, <1>9 DEF Depth

LEMMA ForgetData ==
    ASSUME TypeOK, LockInv, ControlInv, DataInv,
           NEW t \in Threads, NEW d \in Depth, Forget(t, d)
    PROVE  DataInv'
  <1> DEFINE c == call[t][d]
  <1>1. UNCHANGED <<installed, mem>> /\ pc[t][d] = "forget" /\ Runnable(t, d)
    BY DEF Forget
  <1>2. FrameInv(t, d) /\ HeldInv(t, d)
    BY DEF ControlInv, DataInv
  <1>3. c.op \in FreeingOps /\ c.op # "realloc" /\ c.ret = {} /\ Keys(t, d) = c.arg
    BY <1>1, <1>2 DEF FrameInv, FreeingOps, Keys
  <1>4. Moved(t, d, "unlock", c.ret) /\ InLock(t, d)
    BY <1>1, StepEffect DEF InLock
  <1>5. /\ Untouched(t, d) /\ pc'[t][d] = "unlock" /\ call'[t][d].op = c.op
        /\ call'[t][d].arg = c.arg /\ call'[t][d].ret = c.ret /\ call'[t][d].size = c.size
        /\ Keys(t, d)' = Keys(t, d)
    BY <1>4 DEF Moved, SameCall, Keys
  <1>6. HeldInv(t, d)'
    BY <1>1, <1>2, <1>3, <1>5 DEF HeldInv
  <1>7. \A k \in c.arg : k \in Key /\ Alone(t, d, k) /\ KeyInv(k)
    BY <1>3, KeysInKey, OwnKeysAlone DEF DataInv
  <1>8. /\ m_infoMap' = m_infoMap \/ m_infoMap' = unregisterChunkInfo(c.arg, m_infoMap)
        /\ d = 1 => m_infoMap' = unregisterChunkInfo(c.arg, m_infoMap)
    BY <1>1, <1>4, RecursiveIsNested DEF Forget
  <1>9. d = 2 => \A k \in c.arg : m_infoMap[k] = NoInfo
    <2> SUFFICES ASSUME d = 2, NEW k \in c.arg
                 PROVE  m_infoMap[k] = NoInfo
      OBVIOUS
    <2>1. mem[k].owner = "libc"
      BY <1>2, <1>3 DEF HeldInv, Holder
    <2>2. SoundAt(k) /\ Alone(t, d, k)
      BY <1>7 DEF KeyInv
    <2> QED
      BY <1>1, <2>1, <2>2, SoundAlone
  <1>10. /\ \A k \in c.arg : m_infoMap'[k] = NoInfo
         /\ \A k \in Key \ c.arg : m_infoMap'[k] = m_infoMap[k]
    BY <1>7, <1>8, <1>9 DEF unregisterChunkInfo, Depth
  <1>11. DoneInv(t, d)'
    BY <1>3, <1>5, <1>10 DEF DoneInv
  <1>12. \A k \in c.arg : KeyInv(k)'
    <2>1. \A k \in c.arg : SoundAt(k)'
      BY <1>10 DEF SoundAt
    <2>2. \A k \in c.arg : MemoryInv(k)'
      BY <1>1, <1>7, <1>10 DEF KeyInv, MemoryInv
    <2>3. \A k \in c.arg : InUse(k)'
      BY <1>3, <1>5 DEF InUse
    <2> QED
      BY <2>1, <2>2, <2>3 DEF KeyInv
  <1> QED
    BY <1>1, <1>3, <1>5, <1>6, <1>7, <1>10, <1>11, <1>12, LocalStep
LEMMA NextData ==
    ASSUME LedgerAssumptions, TypeOK, LockInv, ControlInv, DataInv, [Next]_vars
    PROVE  DataInv'
  <1>1. ASSUME NEW t \in Threads, Start(t) \/ CallBack(t)
        PROVE  DataInv'
    BY <1>1, StartEntered, CallBackEntered, EnterData DEF Depth
  <1>2. ASSUME NEW t \in Threads, NEW d \in Depth, Step(t, d)
        PROVE  DataInv'
    BY <1>2, MapData, LockData, AllocSucceedsData, AllocFailsData, RecordData, ForgetData,
       UnlockData, ReleaseData DEF Step
  <1>3. CASE Install \/ Accept \/ ServerStep \/ UNCHANGED vars
    <2>1. /\ UNCHANGED <<pc, call, mem, m_infoMap>>
          /\ installed' = installed \/ (installed < 8 /\ installed' = installed + 1)
      BY <1>3 DEF Install, Accept, ServerStep, LockServer, Walk, UnlockServer, vars, threadVars
    <2>2. \A k \in Key : MemoryInv(k)'
      BY <2>1 DEF DataInv, KeyInv, MemoryInv, TypeOK
    <2>3. \A k \in Key : SoundAt(k)' /\ (Settled(k)' \/ InUse(k)')
      BY <2>1 DEF DataInv, KeyInv, SoundAt, BeingRenewed, MemInfo, Settled, InUse, Keys
    <2>4. \A t \in Threads, d \in Depth : HeldInv(t, d)'
      BY <2>1 DEF DataInv, HeldInv
    <2>5. \A t \in Threads, d \in Depth : DoneInv(t, d)'
      BY <2>1 DEF DataInv, DoneInv, Settled, MemInfo, Keys
    <2>6. Exclusive'
      BY <2>1 DEF DataInv, Exclusive, Keys
    <2> QED
      BY <2>2, <2>3, <2>4, <2>5, <2>6 DEF DataInv, KeyInv
  <1> QED
    BY <1>1, <1>2, <1>3 DEF Next

LEMMA InitLedger == Init => ControlInv /\ DataInv
  <1> SUFFICES ASSUME Init
               PROVE  ControlInv /\ DataInv
    OBVIOUS
  <1>1. /\ \A t \in Threads, d \in Depth : pc[t][d] = "idle" /\ call[t][d] = NoCall
        /\ \A k \in Key : mem[k] = FreeMem /\ m_infoMap[k] = NoInfo
        /\ installed = 0 /\ owner = None
    BY DEF Init
  <1>2. \A t \in Threads, d \in Depth :
          FrameInv(t, d) /\ HeldInv(t, d) /\ DoneInv(t, d) /\ Keys(t, d) = {}
    BY <1>1 DEF NoCall, FrameInv, HeldInv, DoneInv, Keys, AllOps, AllocOps, FreeingOps, Obtaining
  <1>3. \A t \in Threads : NestInv(t)
    BY <1>1 DEF NestInv, Depth
  <1>4. LockExact
    BY <1>1, ServerAssumption DEF LockExact
  <1>5. Exclusive
    BY <1>2 DEF Exclusive
  <1>6. \A k \in Key : KeyInv(k)
    BY <1>1 DEF KeyInv, SoundAt, Settled, MemoryInv, FreeMem
  <1> QED
    BY <1>2, <1>3, <1>4, <1>5, <1>6 DEF ControlInv, DataInv

(* The inductive invariant holds in every reachable state.                 *)
THEOREM LedgerInvariant ==
    ASSUME LedgerAssumptions
    PROVE  Spec => [](TypeOK /\ LockInv /\ ControlInv /\ DataInv)
  <1> DEFINE I == TypeOK /\ LockInv /\ ControlInv /\ DataInv
  <1>1. Init => I
    BY InitType, InitLock, InitLedger
  <1>2. I /\ [Next]_vars => I'
    BY NextType, NextLock, NextControl, NextData
  <1> QED
    BY <1>1, <1>2, PTL DEF Spec

(* No stale record, for any number of threads: what the ledger holds is    *)
(* memory the application owns, with the size it last asked for, whatever  *)
(* other threads allocate between a handler's unlock and its myfree.       *)
THEOREM NothingStale ==
    ASSUME LedgerAssumptions
    PROVE  Spec => []LedgerSound
  <1>1. DataInv => LedgerSound
    BY DEF DataInv, KeyInv, SoundAt, LedgerSound, Recorded
  <1> QED
    BY <1>1, LedgerInvariant, PTL

(* No lost record: what the application obtained through the handlers and  *)
(* is free to use is on record with its size.                              *)
THEOREM NothingLost ==
    ASSUME LedgerAssumptions
    PROVE  Spec => []LedgerComplete
  <1>1. DataInv => LedgerComplete
    <2> SUFFICES ASSUME DataInv, NEW k \in Available("app"), mem[k].seen
                 PROVE  m_infoMap[k] = MemInfo(k)
      BY DEF LedgerComplete
    <2>1. k \in Key /\ mem[k].owner = "app" /\ ~InUse(k)
      BY DEF Available, InUse, Keys
    <2> QED
      BY <2>1 DEF DataInv, KeyInv, Settled
  <1> QED
    BY <1>1, LedgerInvariant, PTL

(* libc's arena pages, mapped through the hooks from inside a handler,     *)
(* never reach the ledger.                                                 *)
THEOREM ArenaUnrecorded ==
    ASSUME LedgerAssumptions
    PROVE  Spec => []LibcUnrecorded
  <1>1. ControlInv /\ DataInv => LibcUnrecorded
    <2> SUFFICES ASSUME ControlInv, DataInv, NEW k \in Recorded
                 PROVE  mem[k].owner # "libc"
      BY DEF LibcUnrecorded
    <2>1. k \in Key /\ m_infoMap[k] # NoInfo /\ SoundAt(k) /\ MemoryInv(k)
      BY DEF Recorded, DataInv, KeyInv
    <2>2. CASE BeingRenewed(k)
      <3>1. PICK t \in Threads, d \in Depth : call[t][d].op = "realloc" /\ k \in call[t][d].arg
        BY <2>2 DEF BeingRenewed
      <3>2. k \in Addr
        BY <3>1 DEF ControlInv, FrameInv, Obtaining
      <3> QED
        BY <2>1, <3>2 DEF MemoryInv
    <2> QED
      BY <2>1, <2>2 DEF SoundAt
  <1> QED
    BY <1>1, LedgerInvariant, PTL

-----------------------------------------------------------------------------
(* The refinement.  HeapInterpose implements LedgerSpec: a call of the     *)
(* application changes the ledger in one step, the one that registers or   *)
(* unregisters, and a walk that takes one step per slot sends what the     *)
(* ledger held at a single moment.                                         *)
(*                                                                         *)
(* To the invariant above this adds what a frame is about to put on record *)
(* (it must not be there yet) and what a walk has left behind.             *)

(* What the application may ask for.                                       *)
Shape(op, arg, size) ==
    /\ op \in Obtaining => size \in Sizes \cup {0}
    /\ op = "realloc" => arg = {} \/ \E a \in Addr : arg = {a}
    /\ op = "free" => \E a \in Addr : arg = {a}
    /\ op = "munmap" => arg \subseteq Page

ShapeInv(t, d) == Shape(call[t][d].op, call[t][d].arg, call[t][d].size)

(* What a frame has obtained and is about to register.                     *)
FreshInv(t, d) ==
    LET c == call[t][d]
    IN  pc[t][d] \in {"lock", "record"} =>
            /\ c.op = "mmap" => c.ret # {}
            /\ pc[t][d] = "record" /\ c.op \in Obtaining => \E a \in Addr : c.ret = {a}
            /\ \A k \in c.ret \ c.arg : m_infoMap[k] = NoInfo

(* Every block on record in a slot the walk has left was sent.             *)
WalkedInv ==
    spc = "walk" => \A k \in (Recorded \cap Addr) \ todo : WalkEntry(k) \in sent

CallInv == \A t \in Threads, d \in Depth : ShapeInv(t, d) /\ FreshInv(t, d)

LedgerIInv == TypeOK /\ LockInv /\ ControlInv /\ DataInv

-----------------------------------------------------------------------------
(* The calls.                                                              *)

LEMMA EnterShape ==
    ASSUME TypeOK, CallInv, NEW t \in Threads, NEW d \in Depth, NEW op \in AllOps,
           NEW arg, NEW size, Enter(t, d, op, arg, size), Shape(op, arg, size)
    PROVE  CallInv'
  <1> DEFINE c == [op |-> op, hooked |-> Hooked(op), arg |-> arg, ret |-> {}, size |-> size]
  <1>1. call' = [call EXCEPT ![t][d] = c] /\ m_infoMap' = m_infoMap
    BY DEF Enter
  <1>2. call'[t][d] = c
    <2> HIDE DEF c
    <2> QED
      BY <1>1 DEF TypeOK
  <1>3. /\ call'[t][d].op = op /\ call'[t][d].arg = arg
        /\ call'[t][d].size = size /\ call'[t][d].ret = {}
    BY <1>2
  <1>4. Untouched(t, d) /\ pc'[t][d] = FirstPc(op, Hooked(op))
    BY EnterEffect
  <1>5. ShapeInv(t, d)'
    BY <1>3 DEF ShapeInv, Shape
  <1>6. FreshInv(t, d)'
    BY <1>3, <1>4 DEF FreshInv, FirstPc
  <1>7. \A u \in Threads, e \in Depth :
          u # t \/ e # d => ShapeInv(u, e)' /\ FreshInv(u, e)'
    BY <1>1, <1>4 DEF CallInv, Untouched, ShapeInv, Shape, FreshInv
  <1> QED
    BY <1>5, <1>6, <1>7 DEF CallInv

LEMMA StartShape ==
    ASSUME TypeOK, CallInv, NEW t \in Threads, Start(t) \/ CallBack(t)
    PROVE  CallInv'
  <1>1. ASSUME NEW op \in AllOps, NEW arg, NEW size, Call(t, op, arg, size),
               Shape(op, arg, size)
        PROVE  CallInv'
    BY <1>1, EnterShape DEF Call, Depth
  <1>2. CASE CallAlloc(t)
    <2>1. PICK op \in AllocOps, s \in Sizes : Call(t, op, {}, s)
      BY <1>2 DEF CallAlloc
    <2>2. op \in AllOps /\ Shape(op, {}, s)
      BY DEF AllOps, AllocOps, Shape
    <2> QED
      BY <1>1, <2>1, <2>2
  <1>3. CASE CallFree(t)
    <2>1. PICK a \in Addr : Call(t, "free", {a}, 0)
      BY <1>3 DEF CallFree
    <2>2. "free" \in AllOps /\ Shape("free", {a}, 0)
      BY DEF AllOps, FreeingOps, AllocOps, Obtaining, Shape
    <2> QED
      BY <1>1, <2>1, <2>2
  <1>4. CASE CallRealloc(t)
    <2>1. PICK arg \in {{}} \cup {{a} : a \in Addr}, s \in Sizes \cup {0} :
            Call(t, "realloc", arg, s)
      BY <1>4 DEF CallRealloc
    <2>2. "realloc" \in AllOps /\ Shape("realloc", arg, s)
      BY <2>1 DEF AllOps, Shape
    <2> QED
      BY <1>1, <2>1, <2>2
  <1>5. CASE CallMmap(t)
    <2>1. "mmap" \in AllOps /\ Shape("mmap", {}, PageSize)
      BY DEF AllOps, AllocOps, Obtaining, Shape
    <2> QED
      BY <1>1, <1>5, <2>1 DEF CallMmap
  <1>6. CASE CallMunmap(t)
    <2>1. PICK ps \in SUBSET Page : Call(t, "munmap", ps, 0)
      BY <1>6 DEF CallMunmap
    <2>2. "munmap" \in AllOps /\ Shape("munmap", ps, 0)
      BY DEF AllOps, FreeingOps, AllocOps, Obtaining, Shape
    <2> QED
      BY <1>1, <2>1, <2>2
  <1>7. CASE CallBack(t)
    <2>1. \/ Enter(t, 2, "mmap", {}, PageSize)
          \/ \E p \in Page : Enter(t, 2, "munmap", {p}, 0)
      BY <1>7 DEF CallBack
    <2>2. "mmap" \in AllOps /\ Shape("mmap", {}, PageSize)
      BY DEF AllOps, AllocOps, Obtaining, Shape
    <2>3. \A p \in Page : "munmap" \in AllOps /\ Shape("munmap", {p}, 0)
      BY DEF AllOps, FreeingOps, AllocOps, Obtaining, Shape
    <2> QED
      BY <2>1, <2>2, <2>3, EnterShape DEF Depth
  <1> QED
    BY <1>2, <1>3, <1>4, <1>5, <1>6, <1>7 DEF Start

(* Free memory is not on record, except for the block of a reallocation    *)
(* that is about to renew its record.                                      *)
LEMMA FreeUnrecorded ==
    ASSUME ControlInv, DataInv, NEW k \in Key, mem[k].owner = "none", m_infoMap[k] # NoInfo
    PROVE  k \in Addr /\ \E u \in Threads : pc[u][1] = "record"
  <1>1. PICK u \in Threads, e \in Depth :
          call[u][e].op = "realloc" /\ pc[u][e] = "record" /\ k \in call[u][e].arg
    BY DEF DataInv, KeyInv, SoundAt, BeingRenewed
  <1> QED
    BY <1>1 DEF ControlInv, FrameInv, Obtaining, Depth

(* A hooked allocation, alone under the lock, gets memory not on record.   *)
LEMMA FreshBlock ==
    ASSUME LockInv, ControlInv, DataInv, NEW t \in Threads, NEW d \in Depth,
           pc[t][d] = "alloc", call[t][d].hooked,
           NEW k \in Key, mem[k].owner = "none"
    PROVE  m_infoMap[k] = NoInfo
  <1> SUFFICES ASSUME m_infoMap[k] # NoInfo
               PROVE  FALSE
    OBVIOUS
  <1>1. PICK u \in Threads : pc[u][1] = "record"
    BY FreeUnrecorded
  <1>2. d = 1
    BY DEF ControlInv, FrameInv, Obtaining, AllocOps, Depth
  <1>3. u = t
    BY <1>1, InLockAlone DEF InLock, Depth
  <1> QED
    BY <1>1, <1>2, <1>3

(* A step changes the records of its own frame's addresses only.           *)
LEMMA OwnRecordsOnly ==
    ASSUME NEW t \in Threads, NEW d \in Depth, Step(t, d)
    PROVE  \A k \in Key \ Keys(t, d) : m_infoMap'[k] = m_infoMap[k]
  <1>1. CASE Record(t, d) \/ Forget(t, d)
    BY <1>1 DEF Record, Forget, registerChunkInfo, unregisterChunkInfo, Keys
  <1>2. CASE ~(Record(t, d) \/ Forget(t, d))
    BY <1>2 DEF Step, Map, Lock, AllocSucceeds, AllocFails, Unlock, Release
  <1> QED
    BY <1>1, <1>2

LEMMA StepFresh ==
    ASSUME LedgerIInv, CallInv, NEW t \in Threads, NEW d \in Depth, Step(t, d)
    PROVE  FreshInv(t, d)'
  <1> DEFINE c == call[t][d]
  <1> USE DEF LedgerIInv
  <1>0. FrameInv(t, d) /\ FreshInv(t, d)
    BY DEF ControlInv, CallInv
  <1>1. CASE pc'[t][d] \notin {"lock", "record"}
    BY <1>1 DEF FreshInv
  <1>2. CASE Lock(t, d)
    <2>1. /\ pc'[t][d] = AfterLock(c.op) /\ call'[t][d] = c
          /\ m_infoMap' = m_infoMap /\ pc[t][d] = "lock"
      BY <1>2, GotoEffect DEF Lock
    <2>2. pc'[t][d] = "record" => c.op = "mmap" /\ c.op \notin Obtaining
      BY <2>1 DEF AfterLock, Obtaining, AllocOps
    <2> QED
      BY <1>0, <2>1, <2>2 DEF FreshInv, AfterLock
  <1>3. CASE Map(t, d)
    <2>1. pc[t][d] = "map" /\ m_infoMap' = m_infoMap /\ c.op = "mmap"
      BY <1>0, <1>3 DEF Map, FrameInv
    <2>2. ASSUME NEW ps \in (SUBSET {p \in Page : mem[p].owner = "none"}) \ {{}},
                 Goto(t, d, "lock"), call' = [call EXCEPT ![t][d].ret = ps]
          PROVE  FreshInv(t, d)'
      <3>1. Moved(t, d, "lock", ps)
        BY <2>2, ObtainEffect
      <3>2. \A k \in ps : k \in Key /\ k \notin Addr /\ mem[k].owner = "none"
        BY <2>2, KeyAssumption DEF Key
      <3>3. \A k \in ps : m_infoMap[k] = NoInfo
        BY <3>2, FreeUnrecorded
      <3> QED
        BY <2>1, <2>2, <3>1, <3>3 DEF FreshInv, Moved
    <2>3. CASE Return(t, d)
      BY <1>1, <2>3, ReturnEffect DEF Returned
    <2> QED
      BY <1>3, <2>2, <2>3 DEF Map
  <1>4. CASE AllocSucceeds(t, d)
    <2>1. pc[t][d] = "alloc" /\ m_infoMap' = m_infoMap /\ c.op # "mmap"
      BY <1>0, <1>4 DEF AllocSucceeds, FrameInv, Obtaining, AllocOps
    <2>2. ASSUME NEW a \in Addr, mem[a].owner = "none" \/ a \in c.arg, c.hooked,
                 Goto(t, d, "record"), call' = [call EXCEPT ![t][d].ret = {a}]
          PROVE  FreshInv(t, d)'
      <3>1. Moved(t, d, "record", {a})
        BY <2>2, ObtainEffect
      <3>2. a \notin c.arg => m_infoMap[a] = NoInfo
        BY <2>1, <2>2, FreshBlock DEF Key
      <3> QED
        BY <2>1, <3>1, <3>2 DEF FreshInv, Moved, SameCall
    <2>3. CASE Return(t, d)
      BY <1>1, <2>3, ReturnEffect DEF Returned
    <2> QED
      BY <1>4, <2>2, <2>3 DEF AllocSucceeds
  <1>5. CASE AllocFails(t, d) \/ Record(t, d) \/ Forget(t, d) \/ Unlock(t, d) \/ Release(t, d)
    BY <1>1, <1>5, StepEffect DEF Moved, Returned
  <1> QED
    BY <1>2, <1>3, <1>4, <1>5 DEF Step

LEMMA StepShape ==
    ASSUME LedgerIInv, CallInv, NEW t \in Threads, NEW d \in Depth, Step(t, d)
    PROVE  CallInv'
  <1> USE DEF LedgerIInv
  <1>1. Untouched(t, d) /\ (SameCall(t, d) \/ call'[t][d] = NoCall)
    BY StepEffect DEF Step, Moved, Returned
  <1>2. ShapeInv(t, d)'
    <2>1. CASE SameCall(t, d)
      BY <2>1 DEF SameCall, CallInv, ShapeInv, Shape
    <2>2. CASE call'[t][d] = NoCall
      BY <2>2 DEF NoCall, ShapeInv, Shape, Obtaining, AllocOps
    <2> QED
      BY <1>1, <2>1, <2>2
  <1>3. ASSUME NEW u \in Threads, NEW e \in Depth, u # t \/ e # d
        PROVE  ShapeInv(u, e)' /\ FreshInv(u, e)'
    <2>1. pc'[u][e] = pc[u][e] /\ call'[u][e] = call[u][e]
      BY <1>1, <1>3 DEF Untouched
    <2>2. Keys(u, e) \subseteq Key /\ Keys(u, e) \cap Keys(t, d) = {}
      BY <1>3, KeysInKey DEF DataInv, Exclusive
    <2>3. \A k \in call[u][e].ret : m_infoMap'[k] = m_infoMap[k]
      BY <2>2, OwnRecordsOnly DEF Keys
    <2> QED
      BY <2>1, <2>3 DEF CallInv, ShapeInv, Shape, FreshInv
  <1>4. FreshInv(t, d)'
    BY StepFresh
  <1> QED
    BY <1>2, <1>3, <1>4 DEF CallInv

LEMMA NextCalls ==
    ASSUME LedgerIInv, CallInv, [Next]_vars
    PROVE  CallInv'
  <1>1. CASE Install \/ Accept \/ ServerStep \/ UNCHANGED vars
    <2>1. UNCHANGED <<pc, call, m_infoMap>>
      BY <1>1 DEF Install, Accept, ServerStep, LockServer, Walk, UnlockServer, vars, threadVars
    <2> QED
      BY <2>1 DEF CallInv, ShapeInv, Shape, FreshInv
  <1> QED
    BY <1>1, StartShape, StepShape DEF Next, LedgerIInv

-----------------------------------------------------------------------------
(* The walk.                                                               *)

(* While the server holds the lock no reallocation is under way, so the    *)
(* record of a block is a block's record.                                  *)
LEMMA BlockInWalk ==
    ASSUME LedgerIInv, spc = "walk", NEW k \in Recorded \cap Addr
    PROVE  m_infoMap[k].flag = "heap"
  <1> USE DEF LedgerIInv
  <1>1. ~BeingRenewed(k)
    <2> SUFFICES ASSUME NEW t \in Threads, NEW d \in Depth, pc[t][d] = "record"
                 PROVE  FALSE
      BY DEF BeingRenewed
    <2>1. Locks(t) > 0
      BY DEF InLock, Locks, Depth
    <2> QED
      BY <2>1, ServerAssumption DEF LockInv
  <1>2. k \in Key /\ k \notin Page /\ m_infoMap[k] # NoInfo
    BY KeyAssumption DEF Recorded
  <1>3. m_infoMap[k] = MemInfo(k)
    BY <1>1, <1>2 DEF DataInv, KeyInv, SoundAt
  <1> QED
    BY <1>2, <1>3 DEF MemInfo, HeapInfo

LEMMA NextWalked ==
    ASSUME LedgerIInv, WalkedInv, [Next]_vars
    PROVE  WalkedInv'
  <1> USE DEF LedgerIInv
  <1>1. CASE spc' # "walk"
    BY <1>1 DEF WalkedInv
  <1>2. CASE LockServer
    <2>1. todo' = Key /\ m_infoMap' = m_infoMap
      BY <1>2 DEF LockServer
    <2> QED
      BY <2>1 DEF WalkedInv, Key
  <1>3. ASSUME NEW k \in Key, Walk(k)
        PROVE  WalkedInv'
    <2>1. /\ spc = "walk" /\ m_infoMap' = m_infoMap /\ todo' = todo \ {k}
          /\ \/ sent' = sent \cup {WalkEntry(k)}
             \/ m_infoMap[k].flag \in {"none", "mmap"} /\ sent' = sent
      BY <1>3 DEF Walk
    <2>2. k \in Recorded \cap Addr => WalkEntry(k) \in sent'
      BY <2>1, BlockInWalk
    <2>3. \A j \in (Recorded \cap Addr) \ todo : WalkEntry(j) \in sent'
      BY <2>1 DEF WalkedInv
    <2>4. Recorded' = Recorded /\ \A j : WalkEntry(j)' = WalkEntry(j)
      BY <2>1 DEF Recorded, WalkEntry
    <2> QED
      BY <2>1, <2>2, <2>3, <2>4 DEF WalkedInv
  <1>4. CASE UNCHANGED <<spc, todo, sent>>
    <2>1. spc = "walk" => m_infoMap' = m_infoMap
      BY LedgerStillInWalk
    <2> QED
      BY <1>4, <2>1 DEF WalkedInv, Recorded, WalkEntry
  <1>5. ASSUME NEW t \in Threads, Start(t) \/ CallBack(t) \/ \E d \in Depth : Step(t, d)
        PROVE  UNCHANGED <<spc, todo, sent>>
    <2>1. ASSUME NEW d \in Depth, Step(t, d)
          PROVE  UNCHANGED serverVars
      BY <2>1 DEF Step, Map, Lock, AllocSucceeds, AllocFails, Record, Forget, Unlock, Release
    <2>2. ASSUME Start(t) \/ CallBack(t)
          PROVE  UNCHANGED serverVars
      BY <2>2 DEF Start, CallAlloc, CallFree, CallRealloc, CallMmap, CallMunmap, Call,
                  CallBack, Enter
    <2> QED
      BY <1>5, <2>1, <2>2 DEF serverVars
  <1>6. CASE Install \/ UNCHANGED vars
    BY <1>4, <1>6 DEF Install, vars, serverVars
  <1>7. CASE Accept \/ UnlockServer
    BY <1>1, <1>7 DEF Accept, UnlockServer
  <1> QED
    BY <1>2, <1>3, <1>4, <1>5, <1>6, <1>7 DEF Next, ServerStep

-----------------------------------------------------------------------------
(* The refinement, step by step.                                           *)

(* Rounding up to whole words, as hashWalk computes it.                    *)
LEMMA WholeWords ==
    ASSUME NEW s \in Nat
    PROVE  (CHOOSE n \in s .. s + 3 : n % 4 = 0) = ((s + 3) \div 4) * 4
  <1> DEFINE m == ((s + 3) \div 4) * 4
  <1>1. m \in s .. s + 3 /\ m % 4 = 0
    OBVIOUS
  <1>2. \A n \in s .. s + 3 : n % 4 = 0 => n = m
    OBVIOUS
  <1> HIDE DEF m
  <1>3. (CHOOSE n \in s .. s + 3 : n % 4 = 0) = m
    BY <1>1, <1>2
  <1> QED
    BY <1>3 DEF m

LEMMA EntryIsWalkEntry ==
    ASSUME TypeOK, NEW k \in Key
    PROVE  Ledger!Entry(k) = WalkEntry(k)
  <1>1. m_infoMap[k].size \in Nat
    BY DEF TypeOK, Infos
  <1> QED
    BY <1>1, WholeWords DEF Ledger!Entry, WalkEntry

(* Both modules speak of the same addresses and records.                   *)
LEMMA SameLedger == Ledger!Key = Key /\ Ledger!Recorded = Recorded
  BY DEF Ledger!Key, Ledger!Recorded, Key, Recorded

(* The step that registers is the whole call: malloc and its kin register  *)
(* a block, mmap its pages, and realloc renews a record or registers.      *)
LEMMA RecordRefines ==
    ASSUME LedgerIInv, CallInv, NEW t \in Threads, NEW d \in Depth, Record(t, d)
    PROVE  Ledger!Next \/ UNCHANGED Ledger!vars
  <1> DEFINE c == call[t][d]
             i == InfoFor(c)
  <1>1. report' = report /\ pc[t][d] = "record"
    BY DEF Record, serverVars
  <1>2. CASE m_infoMap' = m_infoMap
    BY <1>1, <1>2 DEF Ledger!vars
  <1>3. CASE m_infoMap' = registerChunkInfo(c.ret, i, unregisterChunkInfo(c.arg, m_infoMap))
    <2>1. /\ FrameInv(t, d) /\ ShapeInv(t, d) /\ FreshInv(t, d)
          /\ m_infoMap \in [Key -> Infos]
      BY DEF LedgerIInv, ControlInv, CallInv, TypeOK
    <2>2. m_infoMap' = [k \in Key |-> IF k \in c.ret THEN i
                                      ELSE IF k \in c.arg THEN NoInfo ELSE m_infoMap[k]]
      BY <1>3 DEF registerChunkInfo, unregisterChunkInfo
    <2>3. \A k \in c.ret \ c.arg : m_infoMap[k] = NoInfo
      BY <1>1, <2>1 DEF FreshInv
    <2>4. ASSUME NEW ks, ks \subseteq Key, c.ret = ks, \A k \in ks \cup c.arg : m_infoMap[k] = NoInfo
          PROVE  Ledger!Register(ks, i)
      <3>1. ks \cap Ledger!Recorded = {}
        BY <2>4, SameLedger DEF Recorded
      <3>2. m_infoMap' = [k \in Key |-> IF k \in ks THEN i ELSE m_infoMap[k]]
        BY <2>2, <2>4
      <3> QED
        BY <1>1, <3>1, <3>2, SameLedger DEF Ledger!Register
    <2>5. CASE c.op = "mmap"
      <3>1. c.arg = {} /\ c.ret \subseteq Page /\ c.ret # {} /\ i = PageInfo
        BY <1>1, <2>1, <2>5 DEF FrameInv, FreshInv, InfoFor
      <3>2. Ledger!Register(c.ret, PageInfo)
        BY <2>3, <2>4, <3>1 DEF Key
      <3>3. Ledger!RegisterPages
        BY <3>1, <3>2 DEF Ledger!RegisterPages
      <3> QED
        BY <3>3 DEF Ledger!Next
    <2>6. CASE c.op \in Obtaining
      <3>1. PICK a \in Addr : c.ret = {a}
        BY <1>1, <2>1, <2>6 DEF FreshInv
      <3>2. i \in {HeapInfo(s) : s \in Sizes \cup {0}}
        BY <2>1, <2>6 DEF ShapeInv, Shape, InfoFor, Obtaining, AllocOps
      <3>3. c.arg = {} \/ \E b \in Addr : c.arg = {b}
        BY <2>1, <2>6 DEF ShapeInv, Shape, FrameInv, Obtaining
      <3>4. CASE \A k \in c.arg : m_infoMap[k] = NoInfo
        <4>1. Ledger!Register({a}, i)
          BY <2>3, <2>4, <3>1, <3>4 DEF Key
        <4>2. Ledger!RegisterBlock
          BY <3>2, <4>1 DEF Ledger!RegisterBlock
        <4> QED
          BY <4>2 DEF Ledger!Next
      <3>5. ASSUME NEW b \in Addr, c.arg = {b}, m_infoMap[b] # NoInfo
            PROVE  Ledger!Renew
        <4>1. b \in Ledger!Recorded
          BY <3>5, SameLedger DEF Recorded, Key
        <4>2. a = b \/ a \notin Ledger!Recorded
          BY <2>3, <3>1, <3>5, SameLedger DEF Recorded
        <4>3. m_infoMap' = [m_infoMap EXCEPT ![b] = NoInfo, ![a] = i]
          BY <2>1, <2>2, <3>1, <3>5
        <4> QED
          BY <1>1, <3>2, <4>1, <4>2, <4>3 DEF Ledger!Renew
      <3> QED
        BY <3>3, <3>4, <3>5 DEF Ledger!Next
    <2> QED
      BY <1>1, <2>1, <2>5, <2>6 DEF FrameInv
  <1> QED
    BY <1>2, <1>3 DEF Record

(* The step that unregisters is the whole call of free or munmap.          *)
LEMMA ForgetRefines ==
    ASSUME LedgerIInv, CallInv, NEW t \in Threads, NEW d \in Depth, Forget(t, d)
    PROVE  Ledger!Next \/ UNCHANGED Ledger!vars
  <1> DEFINE c == call[t][d]
             ks == c.arg \cap Recorded
  <1>1. report' = report /\ pc[t][d] = "forget"
    BY DEF Forget, serverVars
  <1>2. CASE m_infoMap' = m_infoMap
    BY <1>1, <1>2 DEF Ledger!vars
  <1>3. CASE m_infoMap' = unregisterChunkInfo(c.arg, m_infoMap)
    <2>1. m_infoMap \in [Key -> Infos] /\ FrameInv(t, d) /\ ShapeInv(t, d)
      BY DEF LedgerIInv, TypeOK, ControlInv, CallInv
    <2>2. m_infoMap' = [k \in Key |-> IF k \in ks THEN NoInfo ELSE m_infoMap[k]]
      BY <1>3 DEF unregisterChunkInfo, Recorded
    <2>3. CASE ks = {}
      <3>1. m_infoMap' = m_infoMap
        BY <2>1, <2>2, <2>3
      <3> QED
        BY <1>2, <3>1
    <2>4. CASE ks # {}
      <3>1. ks \subseteq Page \/ \E a \in Addr : ks = {a}
        BY <1>1, <2>1, <2>4 DEF FrameInv, FreeingOps, ShapeInv, Shape
      <3>2. ks \in SUBSET Ledger!Recorded
        BY SameLedger
      <3>3. m_infoMap' = [k \in Ledger!Key |-> IF k \in ks THEN NoInfo ELSE m_infoMap[k]]
        BY <2>2, SameLedger
      <3>4. Ledger!Unregister
        <4> HIDE DEF ks
        <4> QED
          BY <1>1, <2>4, <3>1, <3>2, <3>3 DEF Ledger!Unregister
      <3> QED
        BY <3>4 DEF Ledger!Next
    <2> QED
      BY <2>3, <2>4
  <1> QED
    BY <1>2, <1>3 DEF Forget

(* The end of a walk reports the ledger as it is at that moment.           *)
LEMMA UnlockServerRefines ==
    ASSUME LedgerIInv, SentInv, WalkedInv, UnlockServer
    PROVE  Ledger!Next
  <1> DEFINE resident == {p \in Page : \E e \in sent : e.key = p}
             reported == Recorded \ (Page \ resident)
  <1>1. report' = sent /\ m_infoMap' = m_infoMap /\ spc = "walk" /\ todo = {}
    BY DEF UnlockServer
  <1>2. \A k \in Recorded : k \in Key /\ Ledger!Entry(k) = WalkEntry(k)
    BY EntryIsWalkEntry DEF LedgerIInv, Recorded
  <1>3. ASSUME NEW e \in sent
        PROVE  e.key \in reported /\ e = Ledger!Entry(e.key)
    <2>1. e.key \in Recorded /\ e = WalkEntry(e.key)
      BY DEF SentInv, SentIsRecorded
    <2> QED
      BY <1>2, <2>1
  <1>4. ASSUME NEW k \in reported
        PROVE  Ledger!Entry(k) \in sent
    <2>1. CASE k \in Addr
      BY <1>1, <1>2, <2>1 DEF WalkedInv
    <2>2. CASE k \in resident
      <3>1. PICK e \in sent : e.key = k
        BY <2>2
      <3> QED
        BY <1>3, <3>1
    <2> QED
      BY <1>2, <2>1, <2>2 DEF Key
  <1>5. sent = {Ledger!Entry(k) : k \in reported}
    <2> HIDE DEF reported
    <2> QED
      BY <1>3, <1>4
  <1>6. resident \in SUBSET Page
    OBVIOUS
  <1>7. Ledger!Report
    <2> HIDE DEF resident
    <2> QED
      BY <1>1, <1>5, <1>6, SameLedger DEF Ledger!Report
  <1> QED
    BY <1>7 DEF Ledger!Next

(* Every other step leaves the ledger and the last report alone.           *)
LEMMA NextRefines ==
    ASSUME LedgerIInv, SentInv, CallInv, WalkedInv, [Next]_vars
    PROVE  Ledger!Next \/ UNCHANGED Ledger!vars
  <1>1. CASE UNCHANGED <<m_infoMap, report>>
    BY <1>1 DEF Ledger!vars
  <1>2. ASSUME NEW t \in Threads, NEW d \in Depth, Step(t, d),
               ~Record(t, d), ~Forget(t, d)
        PROVE  UNCHANGED <<m_infoMap, report>>
    BY <1>2 DEF Step, Map, Lock, AllocSucceeds, AllocFails, Unlock, Release, serverVars
  <1>3. ASSUME NEW t \in Threads, Start(t) \/ CallBack(t)
        PROVE  UNCHANGED <<m_infoMap, report>>
    <2>1. UNCHANGED <<m_infoMap, serverVars>>
      BY <1>3 DEF Start, CallAlloc, CallFree, CallRealloc, CallMmap, CallMunmap, Call,
                  CallBack, Enter
    <2> QED
      BY <2>1 DEF serverVars
  <1>4. CASE Install \/ Accept \/ LockServer \/ (\E k \in Key : Walk(k)) \/ UNCHANGED vars
    BY <1>1, <1>4 DEF Install, Accept, LockServer, Walk, vars, serverVars
  <1> QED
    BY <1>1, <1>2, <1>3, <1>4, RecordRefines, ForgetRefines, UnlockServerRefines
       DEF Next, ServerStep

(* The ledger and its reports behave as LedgerSpec promises, for every     *)
(* number of threads, addresses, calls and walks: a call changes the       *)
(* ledger once, never gives out what is still on record, and a report is   *)
(* of a single moment although it is sent one entry at a time.             *)
THEOREM LedgerImplemented ==
    ASSUME LedgerAssumptions
    PROVE  Spec => LedgerSpecHolds
  <1> DEFINE I == LedgerIInv /\ SentInv /\ CallInv /\ WalkedInv
  <1>1. Init => I
    <2> SUFFICES ASSUME Init
                 PROVE  I
      OBVIOUS
    <2>1. LedgerIInv
      BY InitType, InitLock, InitLedger DEF LedgerIInv
    <2>2. SentInv /\ WalkedInv
      BY DEF Init, SentInv, SentIsRecorded, WalkedInv
    <2>3. \A t \in Threads, d \in Depth : pc[t][d] = "idle" /\ call[t][d] = NoCall
      BY DEF Init
    <2>4. CallInv
      BY <2>3 DEF CallInv, ShapeInv, Shape, FreshInv, NoCall, Obtaining, AllocOps
    <2> QED
      BY <2>1, <2>2, <2>4
  <1>2. I /\ [Next]_vars => I'
    <2> SUFFICES ASSUME I, [Next]_vars
                 PROVE  I'
      OBVIOUS
    <2>1. LedgerIInv'
      BY NextType, NextLock, NextControl, NextData DEF LedgerIInv
    <2> QED
      BY <2>1, NextSent, NextCalls, NextWalked DEF LedgerIInv
  <1>3. Init => Ledger!Init
    BY DEF Init, Ledger!Init, Ledger!Key, Key
  <1>4. I /\ [Next]_vars => [Ledger!Next]_(Ledger!vars)
    BY NextRefines
  <1> QED
    BY <1>1, <1>2, <1>3, <1>4, PTL DEF Spec, LedgerSpecHolds, Ledger!Spec
=============================================================================
