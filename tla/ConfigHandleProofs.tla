------------------------- MODULE ConfigHandleProofs -------------------------
(***************************************************************************)
(* Proofs about ConfigHandle, for any references, keys, goroutines and     *)
(* bounds: IInv is inductive; the safety properties follow from it; and    *)
(* ConfigHandle implements AtomicConfig.                                   *)
(***************************************************************************)
EXTENDS ConfigHandle, TLAPS

USE KeysAssumption, ProcessAssumption, SentinelAssumption, BoundAssumption

LEMMA ProcessSets ==
    /\ Refresher \subseteq Process
    /\ Reader \subseteq Process
    /\ Refresher \cap Reader = {}
    /\ Process = Refresher \cup Reader
BY DEF Process, Reader

\* The actions of Next, one by one.
LEMMA NextCases ==
    ASSUME Next
    PROVE  \/ \E r \in Refresher :
                 \/ StartLoad(r) \/ FinishLoad(r) \/ StartRefresh(r)
                 \/ ReadOriginal(r) \/ AwaitLock(r) \/ Swap(r)
                 \/ FinishRefresh(r) \/ Cancel(r)
                 \/ \E l \in Leaf : ResolveLeaf(r, l)
           \/ \E p \in Reader :
                 \/ StartRead(p) \/ TakeTree(p) \/ Release(p)
                 \/ EndNavigation(p) \/ FinishRead(p)
                 \/ \E l \in Leaf : ReadLeaf(p, l)
           \/ \E o \in Object : Rotate(o) \/ Outage(o)
           \/ Tick
BY DEF Next, RefresherStep, ReaderStep, Environment

\* A resolved value is a secret value of its key.
LEMMA ResolutionType ==
    ASSUME TypeOK, NEW k \in Key
    PROVE  /\ Resolution(k) \in SecretValue
           /\ Resolution(k).key = k
           /\ Resolution(k).version = version[ObjectOf[k]]
<1>1. version[ObjectOf[k]] \in Nat /\ now \in Nat
  BY DEF TypeOK
<1>2. (IF Ttl[k] = 0 THEN 0 ELSE now + Ttl[k]) \in Nat
  BY <1>1
<1> QED
  BY <1>1, <1>2 DEF Resolution, SecretValue

-----------------------------------------------------------------------------
(* Initially.                                                              *)

LEMMA InitIInv == Init => IInv
<1> SUFFICES ASSUME Init PROVE IInv
  OBVIOUS
<1>1. TypeOK
  BY ProcessSets DEF Init, LockInit, TypeOK, Blank, EmptyCache
<1>2. ControlInv
  BY ProcessSets DEF Init, ControlInv
<1>3. LockInv
  BY ProcessSets DEF Init, LockInit, LockInv
<1>4. PointerInv
  BY ProcessSets DEF Init, PointerInv
<1>5. WalkInv /\ ActiveInv
  BY DEF Init, WalkInv, ActiveInv
<1>6. SeenInv
  BY ProcessSets DEF Init, SeenInv, Blank
<1> QED
  BY <1>1, <1>2, <1>3, <1>4, <1>5, <1>6 DEF IInv

-----------------------------------------------------------------------------
(* Type correctness.                                                       *)

LEMMA BeginWalkType ==
    ASSUME TypeOK, NEW r \in Refresher, BeginWalk(r)
    PROVE  /\ tree' \in TreeId \cup {NoTree}
           /\ heap' \in [TreeId -> [Leaf -> LeafValue \cup {Unset}]]
           /\ born' \in [TreeId -> [Object -> Nat]]
           /\ mine' \in [Refresher -> TreeId \cup {NoTree}]
           /\ cache' \in [Refresher -> [Key -> SecretValue \cup {NoEntry}]]
<1>1. PICK id \in Free : BeginWalk(r)!(id)
  BY DEF BeginWalk
<1>2. id \in TreeId
  BY DEF Free
<1>3. Blank \in [Leaf -> LeafValue \cup {Unset}]
  BY DEF Blank
<1>4. EmptyCache \in [Key -> SecretValue \cup {NoEntry}]
  BY DEF EmptyCache
<1>5. heap' \in [TreeId -> [Leaf -> LeafValue \cup {Unset}]]
  BY <1>1, <1>2, <1>3 DEF TypeOK
<1>6. cache' \in [Refresher -> [Key -> SecretValue \cup {NoEntry}]]
  BY <1>1, <1>4 DEF TypeOK
<1> QED
  BY <1>1, <1>2, <1>5, <1>6 DEF TypeOK

LEMMA SetLeafType ==
    ASSUME TypeOK, NEW r \in Refresher, NEW l \in Leaf, NEW v \in LeafValue,
           SetLeaf(r, l, v)
    PROVE  heap' \in [TreeId -> [Leaf -> LeafValue \cup {Unset}]]
BY DEF TypeOK, SetLeaf

LEMMA ResolveLeafType ==
    ASSUME TypeOK, NEW r \in Refresher, NEW l \in Leaf, ResolveLeaf(r, l)
    PROVE  TypeOK'
<1>1. KeyOf[l] \in Key
  OBVIOUS
<1>2. CASE FromCache(r, l)
  <2>1. cache[r][KeyOf[l]] \in LeafValue
    BY <1>1, <1>2 DEF FromCache, CacheHit, TypeOK, LeafValue
  <2>2. heap' \in [TreeId -> [Leaf -> LeafValue \cup {Unset}]]
    BY <1>2, <2>1, SetLeafType DEF FromCache
  <2> QED
    BY <1>2, <2>2 DEF FromCache, ResolveLeaf, TypeOK, lockVars, readVars, backendVars
<1>3. CASE FromSource(r, l)
  <2>1. Resolution(KeyOf[l]) \in SecretValue
    BY <1>1, ResolutionType
  <2>2. heap' \in [TreeId -> [Leaf -> LeafValue \cup {Unset}]]
    BY <1>3, <2>1, SetLeafType DEF FromSource, LeafValue
  <2>3. cache' \in [Refresher -> [Key -> SecretValue \cup {NoEntry}]]
    BY <1>3, <2>1 DEF FromSource, TypeOK
  <2> QED
    BY <1>3, <2>2, <2>3 DEF FromSource, ResolveLeaf, TypeOK, lockVars, readVars, backendVars
<1>4. CASE FromDefault(r, l)
  <2>1. heap' \in [TreeId -> [Leaf -> LeafValue \cup {Unset}]]
    BY <1>4, SetLeafType DEF FromDefault, LeafValue
  <2> QED
    BY <1>4, <2>1 DEF FromDefault, ResolveLeaf, TypeOK, lockVars, readVars, backendVars
<1>5. CASE Abandon(r)
  BY <1>5, ProcessSets DEF Abandon, ResolveLeaf, TypeOK, lockVars, readVars, backendVars
<1> QED
  BY <1>2, <1>3, <1>4, <1>5 DEF ResolveLeaf

\* Type correctness is kept by every step, given where readers' pointers are.
LEMMA TypeStep == TypeOK /\ PointerInv /\ Next => TypeOK'
<1> SUFFICES ASSUME TypeOK, PointerInv, Next PROVE TypeOK'
  OBVIOUS
<1> USE ProcessSets DEF lockVars, treeVars, readVars, backendVars
<1>1. ASSUME NEW r \in Refresher, StartLoad(r) PROVE TypeOK'
  BY <1>1, BeginWalkType DEF StartLoad, TypeOK
<1>2. ASSUME NEW r \in Refresher, FinishLoad(r) PROVE TypeOK'
  BY <1>2 DEF FinishLoad, TypeOK
<1>3. ASSUME NEW r \in Refresher, StartRefresh(r) PROVE TypeOK'
  BY <1>3 DEF StartRefresh, RLock, TypeOK
<1>4. ASSUME NEW r \in Refresher, ReadOriginal(r) PROVE TypeOK'
  BY <1>4, BeginWalkType DEF ReadOriginal, RUnlock, TypeOK
<1>5. ASSUME NEW r \in Refresher, AwaitLock(r) PROVE TypeOK'
  BY <1>5 DEF AwaitLock, Announce, TypeOK
<1>6. ASSUME NEW r \in Refresher, Swap(r) PROVE TypeOK'
  BY <1>6 DEF Swap, TypeOK
<1>7. ASSUME NEW r \in Refresher, FinishRefresh(r) PROVE TypeOK'
  BY <1>7 DEF FinishRefresh, Unlock, TypeOK
<1>8. ASSUME NEW r \in Refresher, Cancel(r) PROVE TypeOK'
  BY <1>8 DEF Cancel, TypeOK
<1>9. ASSUME NEW r \in Refresher, NEW l \in Leaf, ResolveLeaf(r, l) PROVE TypeOK'
  BY <1>9, ResolveLeafType
<1>10. ASSUME NEW p \in Reader, StartRead(p) PROVE TypeOK'
  BY <1>10 DEF StartRead, RLock, TypeOK
<1>11. ASSUME NEW p \in Reader, TakeTree(p) PROVE TypeOK'
  BY <1>11 DEF TakeTree, TypeOK
<1>12. ASSUME NEW p \in Reader, Release(p) PROVE TypeOK'
  BY <1>12 DEF Release, RUnlock, TypeOK
<1>13. ASSUME NEW p \in Reader, EndNavigation(p) PROVE TypeOK'
  BY <1>13 DEF EndNavigation, RUnlock, TypeOK
<1>14. ASSUME NEW p \in Reader, FinishRead(p) PROVE TypeOK'
  BY <1>14 DEF FinishRead, Blank, TypeOK
<1>15. ASSUME NEW p \in Reader, NEW l \in Leaf, ReadLeaf(p, l) PROVE TypeOK'
  <2>1. held[p] \in TreeId
    BY <1>15 DEF ReadLeaf, PointerInv, TypeOK
  <2>2. heap[held[p]][l] \in LeafValue \cup {Unset}
    BY <2>1 DEF TypeOK
  <2>3. seen' \in [Reader -> [Leaf -> LeafValue \cup {Unset}]]
    BY <1>15, <2>2 DEF ReadLeaf, TypeOK
  <2> QED
    BY <1>15, <2>3 DEF ReadLeaf, TypeOK
<1>16. ASSUME NEW o \in Object, Rotate(o) PROVE TypeOK'
  BY <1>16 DEF Rotate, TypeOK
<1>17. ASSUME NEW o \in Object, Outage(o) PROVE TypeOK'
  BY <1>17 DEF Outage, TypeOK
<1>18. ASSUME Tick PROVE TypeOK'
  BY <1>18 DEF Tick, TypeOK
<1> QED
  BY NextCases, <1>1, <1>2, <1>3, <1>4, <1>5, <1>6, <1>7, <1>8, <1>9, <1>10,
     <1>11, <1>12, <1>13, <1>14, <1>15, <1>16, <1>17, <1>18

-----------------------------------------------------------------------------
(* Control, the lock and the pointers.                                     *)

\* Where goroutines stand.
LEMMA ControlStep == TypeOK /\ ControlInv /\ PointerInv /\ Next => ControlInv'
<1> SUFFICES ASSUME TypeOK, ControlInv, PointerInv, Next PROVE ControlInv'
  OBVIOUS
<1> USE ProcessSets DEF lockVars, treeVars, readVars, backendVars, TypeOK, ControlInv, PointerInv
<1>1. ASSUME NEW r \in Refresher, StartLoad(r) PROVE ControlInv'
  BY <1>1 DEF StartLoad, BeginWalk
<1>2. ASSUME NEW r \in Refresher, FinishLoad(r) PROVE ControlInv'
  BY <1>2 DEF FinishLoad
<1>3. ASSUME NEW r \in Refresher, StartRefresh(r) PROVE ControlInv'
  BY <1>3 DEF StartRefresh, RLock
<1>4. ASSUME NEW r \in Refresher, ReadOriginal(r) PROVE ControlInv'
  BY <1>4 DEF ReadOriginal, RUnlock, BeginWalk
<1>5. ASSUME NEW r \in Refresher, AwaitLock(r) PROVE ControlInv'
  BY <1>5 DEF AwaitLock, Announce
<1>6. ASSUME NEW r \in Refresher, Swap(r) PROVE ControlInv'
  BY <1>6 DEF Swap, Locked
<1>7. ASSUME NEW r \in Refresher, FinishRefresh(r) PROVE ControlInv'
  BY <1>7 DEF FinishRefresh, Unlock
<1>8. ASSUME NEW r \in Refresher, Cancel(r) PROVE ControlInv'
  BY <1>8 DEF Cancel, Walking
<1>9. ASSUME NEW r \in Refresher, NEW l \in Leaf, ResolveLeaf(r, l) PROVE ControlInv'
  <2>1. CASE Abandon(r)
    BY <1>9, <2>1 DEF Abandon, ResolveLeaf, Walking
  <2>2. CASE UNCHANGED <<lockVars, pc, mine>>
    BY <1>9, <2>2 DEF ResolveLeaf
  <2> QED
    BY <1>9, <2>1, <2>2 DEF ResolveLeaf, FromCache, FromSource, FromDefault
<1>10. ASSUME NEW p \in Reader, StartRead(p) PROVE ControlInv'
  BY <1>10 DEF StartRead, RLock
<1>11. ASSUME NEW p \in Reader, TakeTree(p) PROVE ControlInv'
  BY <1>11 DEF TakeTree
<1>12. ASSUME NEW p \in Reader, Release(p) PROVE ControlInv'
  BY <1>12 DEF Release, RUnlock
<1>13. ASSUME NEW p \in Reader, EndNavigation(p) PROVE ControlInv'
  BY <1>13 DEF EndNavigation, RUnlock
<1>14. ASSUME NEW p \in Reader, FinishRead(p) PROVE ControlInv'
  BY <1>14 DEF FinishRead
<1>15. ASSUME NEW p \in Reader, NEW l \in Leaf, ReadLeaf(p, l) PROVE ControlInv'
  BY <1>15 DEF ReadLeaf
<1>16. ASSUME NEW o \in Object, Rotate(o) PROVE ControlInv'
  BY <1>16 DEF Rotate
<1>17. ASSUME NEW o \in Object, Outage(o) PROVE ControlInv'
  BY <1>17 DEF Outage
<1>18. ASSUME Tick PROVE ControlInv'
  BY <1>18 DEF Tick
<1> QED
  BY NextCases, <1>1, <1>2, <1>3, <1>4, <1>5, <1>6, <1>7, <1>8, <1>9, <1>10,
     <1>11, <1>12, <1>13, <1>14, <1>15, <1>16, <1>17, <1>18

\* Who is inside the write lock.
LEMMA LockStep == TypeOK /\ ControlInv /\ LockInv /\ Next => LockInv'
<1> SUFFICES ASSUME TypeOK, ControlInv, LockInv, Next PROVE LockInv'
  OBVIOUS
<1> USE ProcessSets DEF lockVars, treeVars, readVars, backendVars, TypeOK, ControlInv, LockInv
<1>1. ASSUME NEW r \in Refresher, StartLoad(r) PROVE LockInv'
  BY <1>1 DEF StartLoad, BeginWalk
<1>2. ASSUME NEW r \in Refresher, FinishLoad(r) PROVE LockInv'
  BY <1>2 DEF FinishLoad
<1>3. ASSUME NEW r \in Refresher, StartRefresh(r) PROVE LockInv'
  BY <1>3 DEF StartRefresh, RLock
<1>4. ASSUME NEW r \in Refresher, ReadOriginal(r) PROVE LockInv'
  BY <1>4 DEF ReadOriginal, RUnlock, BeginWalk
<1>5. ASSUME NEW r \in Refresher, AwaitLock(r) PROVE LockInv'
  BY <1>5 DEF AwaitLock, Announce
<1>6. ASSUME NEW r \in Refresher, Swap(r) PROVE LockInv'
  BY <1>6 DEF Swap, Locked
<1>7. ASSUME NEW r \in Refresher, FinishRefresh(r) PROVE LockInv'
  BY <1>7 DEF FinishRefresh, Unlock
<1>8. ASSUME NEW r \in Refresher, Cancel(r) PROVE LockInv'
  BY <1>8 DEF Cancel, Walking
<1>9. ASSUME NEW r \in Refresher, NEW l \in Leaf, ResolveLeaf(r, l) PROVE LockInv'
  BY <1>9 DEF ResolveLeaf, FromCache, FromSource, FromDefault, Abandon, Walking, SetLeaf
<1>10. ASSUME NEW p \in Reader, StartRead(p) PROVE LockInv'
  BY <1>10 DEF StartRead, RLock
<1>11. ASSUME NEW p \in Reader, TakeTree(p) PROVE LockInv'
  BY <1>11 DEF TakeTree
<1>12. ASSUME NEW p \in Reader, Release(p) PROVE LockInv'
  BY <1>12 DEF Release, RUnlock
<1>13. ASSUME NEW p \in Reader, EndNavigation(p) PROVE LockInv'
  BY <1>13 DEF EndNavigation, RUnlock
<1>14. ASSUME NEW p \in Reader, FinishRead(p) PROVE LockInv'
  BY <1>14 DEF FinishRead
<1>15. ASSUME NEW p \in Reader, NEW l \in Leaf, ReadLeaf(p, l) PROVE LockInv'
  BY <1>15 DEF ReadLeaf
<1>16. ASSUME NEW o \in Object, Rotate(o) PROVE LockInv'
  BY <1>16 DEF Rotate
<1>17. ASSUME NEW o \in Object, Outage(o) PROVE LockInv'
  BY <1>17 DEF Outage
<1>18. ASSUME Tick PROVE LockInv'
  BY <1>18 DEF Tick
<1> QED
  BY NextCases, <1>1, <1>2, <1>3, <1>4, <1>5, <1>6, <1>7, <1>8, <1>9, <1>10,
     <1>11, <1>12, <1>13, <1>14, <1>15, <1>16, <1>17, <1>18

\* Who points where.
LEMMA PointerStep == TypeOK /\ ControlInv /\ PointerInv /\ Next => PointerInv'
<1> SUFFICES ASSUME TypeOK, ControlInv, PointerInv, Next PROVE PointerInv'
  OBVIOUS
<1> USE ProcessSets DEF lockVars, treeVars, readVars, backendVars, TypeOK, ControlInv, PointerInv, Free
<1>1. ASSUME NEW r \in Refresher, StartLoad(r) PROVE PointerInv'
  BY <1>1 DEF StartLoad, BeginWalk
<1>2. ASSUME NEW r \in Refresher, FinishLoad(r) PROVE PointerInv'
  BY <1>2 DEF FinishLoad
<1>3. ASSUME NEW r \in Refresher, StartRefresh(r) PROVE PointerInv'
  BY <1>3 DEF StartRefresh, RLock
<1>4. ASSUME NEW r \in Refresher, ReadOriginal(r) PROVE PointerInv'
  BY <1>4 DEF ReadOriginal, RUnlock, BeginWalk
<1>5. ASSUME NEW r \in Refresher, AwaitLock(r) PROVE PointerInv'
  BY <1>5 DEF AwaitLock, Announce
<1>6. ASSUME NEW r \in Refresher, Swap(r) PROVE PointerInv'
  BY <1>6 DEF Swap, Locked
<1>7. ASSUME NEW r \in Refresher, FinishRefresh(r) PROVE PointerInv'
  BY <1>7 DEF FinishRefresh, Unlock
<1>8. ASSUME NEW r \in Refresher, Cancel(r) PROVE PointerInv'
  BY <1>8 DEF Cancel, Walking
<1>9. ASSUME NEW r \in Refresher, NEW l \in Leaf, ResolveLeaf(r, l) PROVE PointerInv'
  <2>1. CASE Abandon(r)
    BY <1>9, <2>1 DEF Abandon, ResolveLeaf, Walking
  <2>2. CASE UNCHANGED <<lockVars, pc, mine>>
    BY <1>9, <2>2 DEF ResolveLeaf
  <2> QED
    BY <1>9, <2>1, <2>2 DEF ResolveLeaf, FromCache, FromSource, FromDefault
<1>10. ASSUME NEW p \in Reader, StartRead(p) PROVE PointerInv'
  BY <1>10 DEF StartRead, RLock
<1>11. ASSUME NEW p \in Reader, TakeTree(p) PROVE PointerInv'
  BY <1>11 DEF TakeTree
<1>12. ASSUME NEW p \in Reader, Release(p) PROVE PointerInv'
  BY <1>12 DEF Release, RUnlock
<1>13. ASSUME NEW p \in Reader, EndNavigation(p) PROVE PointerInv'
  BY <1>13 DEF EndNavigation, RUnlock
<1>14. ASSUME NEW p \in Reader, FinishRead(p) PROVE PointerInv'
  BY <1>14 DEF FinishRead
<1>15. ASSUME NEW p \in Reader, NEW l \in Leaf, ReadLeaf(p, l) PROVE PointerInv'
  BY <1>15 DEF ReadLeaf
<1>16. ASSUME NEW o \in Object, Rotate(o) PROVE PointerInv'
  BY <1>16 DEF Rotate
<1>17. ASSUME NEW o \in Object, Outage(o) PROVE PointerInv'
  BY <1>17 DEF Outage
<1>18. ASSUME Tick PROVE PointerInv'
  BY <1>18 DEF Tick
<1> QED
  BY NextCases, <1>1, <1>2, <1>3, <1>4, <1>5, <1>6, <1>7, <1>8, <1>9, <1>10,
     <1>11, <1>12, <1>13, <1>14, <1>15, <1>16, <1>17, <1>18

-----------------------------------------------------------------------------
(* What trees and caches hold.                                             *)

\* Neither the clock nor the backend goes back.
Monotone == /\ now \in Nat /\ now' \in Nat /\ now <= now'
            /\ \A o \in Object : /\ version[o] \in Nat /\ version'[o] \in Nat
                                 /\ version[o] <= version'[o]

LEMMA MonotoneStep == TypeOK /\ [Next]_vars => Monotone
<1> SUFFICES ASSUME TypeOK, [Next]_vars PROVE Monotone
  OBVIOUS
<1> USE DEF TypeOK, Monotone, backendVars
<1>1. CASE UNCHANGED vars
  BY <1>1 DEF vars
<1>2. ASSUME NEW o \in Object, Rotate(o) PROVE Monotone
  BY <1>2 DEF Rotate
<1>3. ASSUME NEW o \in Object, Outage(o) PROVE Monotone
  BY <1>3 DEF Outage
<1>4. CASE Tick
  BY <1>4 DEF Tick
<1>5. ASSUME NEW r \in Refresher,
             \/ StartLoad(r) \/ FinishLoad(r) \/ StartRefresh(r)
             \/ ReadOriginal(r) \/ AwaitLock(r) \/ Swap(r)
             \/ FinishRefresh(r) \/ Cancel(r)
             \/ \E l \in Leaf : ResolveLeaf(r, l)
      PROVE  Monotone
  BY <1>5 DEF StartLoad, FinishLoad, StartRefresh, ReadOriginal, AwaitLock, Swap,
              FinishRefresh, Cancel, ResolveLeaf
<1>6. ASSUME NEW p \in Reader,
             \/ StartRead(p) \/ TakeTree(p) \/ Release(p)
             \/ EndNavigation(p) \/ FinishRead(p)
             \/ \E l \in Leaf : ReadLeaf(p, l)
      PROVE  Monotone
  BY <1>6 DEF StartRead, TakeTree, Release, EndNavigation, FinishRead, ReadLeaf
<1> QED
  BY NextCases, <1>1, <1>2, <1>3, <1>4, <1>5, <1>6

\* An expired value stays expired.
LEMMA ExpiredForGood ==
    ASSUME Monotone, NEW v \in SecretValue, IsExpired(v.until)
    PROVE  IsExpired(v.until)'
<1>1. v.until \in Nat
  BY DEF SecretValue
<1> QED
  BY <1>1 DEF Monotone, IsExpired

LEMMA AgreeFrame ==
    ASSUME Monotone, NEW t, AgreeUnlessExpired(t)
    PROVE  \A l, m \in Leaf :
              /\ KeyOf[l] = KeyOf[m]
              /\ t[l] \in SecretValue /\ t[m] \in SecretValue
              /\ t[l] # t[m]
              => IsExpired(t[l].until)' \/ IsExpired(t[m].until)'
BY ExpiredForGood DEF AgreeUnlessExpired

\* A tree no step writes to stays sound and keeps agreeing.
LEMMA TreeFrame ==
    ASSUME Monotone, TypeOK, NEW id \in TreeId,
           Sound(id), AgreeUnlessExpired(heap[id]),
           heap'[id] = heap[id], born'[id] = born[id]
    PROVE  Sound(id)' /\ AgreeUnlessExpired(heap[id])'
<1>1. Sound(id)'
  <2> SUFFICES ASSUME NEW l \in Leaf
               PROVE  /\ heap[id][l] # Unset => Admissible(l, heap[id][l])
                      /\ heap[id][l] \in SecretValue =>
                            /\ born[id][ObjectOf[heap[id][l].key]] <= heap[id][l].version
                            /\ heap[id][l].version <= version'[ObjectOf[heap[id][l].key]]
    <3>1. \A o \in Object : born[id][o] \in Nat /\ born[id][o] <= version'[o]
      BY DEF Sound, Monotone, TypeOK
    <3> QED
      BY <3>1 DEF Sound, WithinWalk, Admissible
  <2>1. ASSUME heap[id][l] \in SecretValue
        PROVE  heap[id][l].version <= version'[ObjectOf[heap[id][l].key]]
    <3>1. /\ ObjectOf[heap[id][l].key] \in Object
          /\ heap[id][l].version \in Nat
      BY <2>1 DEF SecretValue
    <3> QED
      BY <2>1, <3>1 DEF Sound, WithinWalk, Monotone
  <2> QED
    BY <2>1 DEF Sound, WithinWalk
<1>2. AgreeUnlessExpired(heap[id])'
  BY AgreeFrame DEF AgreeUnlessExpired
<1> QED
  BY <1>1, <1>2

\* What a walk has resolved so far.
WalkSound(r) == /\ Sound(mine[r])
                /\ CacheSound(r)
                /\ AgreeUnlessExpired(heap[mine[r]])

LEMMA WalkFrame ==
    ASSUME Monotone, TypeOK, NEW r \in Refresher, mine[r] \in TreeId, WalkSound(r),
           mine'[r] = mine[r], cache'[r] = cache[r],
           heap'[mine[r]] = heap[mine[r]], born'[mine[r]] = born[mine[r]]
    PROVE  WalkSound(r)'
<1>1. Sound(mine[r])' /\ AgreeUnlessExpired(heap[mine[r]])'
  BY TreeFrame DEF WalkSound, Sound, AgreeUnlessExpired, WithinWalk
<1>2. ASSUME NEW k \in Key, cache[r][k] # NoEntry
      PROVE  /\ cache[r][k].key = k
             /\ k \in Registered
             /\ born[mine[r]][ObjectOf[cache[r][k].key]] <= cache[r][k].version
             /\ cache[r][k].version <= version'[ObjectOf[cache[r][k].key]]
  <2>1. cache[r][k] \in SecretValue
    BY <1>2 DEF TypeOK
  <2>2. ObjectOf[cache[r][k].key] \in Object /\ cache[r][k].version \in Nat
    BY <2>1 DEF SecretValue
  <2> QED
    BY <1>2, <2>2 DEF WalkSound, CacheSound, WithinWalk, Monotone
<1>3. ASSUME NEW l \in Leaf, heap[mine[r]][l] \in SecretValue
      PROVE  \/ heap[mine[r]][l] = cache[r][KeyOf[l]]
             \/ IsExpired(heap[mine[r]][l].until)'
  BY <1>3, ExpiredForGood DEF WalkSound, CacheSound
<1>4. CacheSound(r)'
  BY <1>2, <1>3 DEF CacheSound, WithinWalk
<1> QED
  BY <1>1, <1>4 DEF WalkSound

\* A walk that begins has resolved nothing.
LEMMA BeginWalkSound ==
    ASSUME TypeOK, NEW r \in Refresher, BeginWalk(r), UNCHANGED version
    PROVE  WalkSound(r)'
<1>1. PICK id \in Free : BeginWalk(r)!(id)
  BY DEF BeginWalk
<1>2. /\ id \in TreeId
      /\ mine'[r] = id
      /\ heap'[id] = Blank
      /\ cache'[r] = EmptyCache
      /\ born'[id] = version
  BY <1>1 DEF Free, TypeOK
<1>3. \A l \in Leaf : heap'[id][l] = Unset /\ heap'[id][l] \notin SecretValue
  BY <1>2 DEF Blank, LeafValue
<1>4. \A k \in Key : cache'[r][k] = NoEntry
  BY <1>2 DEF EmptyCache
<1>5. \A o \in Object : born'[id][o] <= version'[o]
  BY <1>2 DEF TypeOK
<1> QED
  BY <1>2, <1>3, <1>4, <1>5 DEF WalkSound, Sound, CacheSound, AgreeUnlessExpired

\* One leaf more, a value v, keeps a walk sound: v is admissible and of this
\* walk, the cache answers for its key with v if v is a secret value, and the
\* values of the same key that v differs from have expired.
LEMMA LeafSound ==
    ASSUME TypeOK, NEW r \in Refresher, mine[r] \in TreeId, NEW l \in Leaf,
           NEW v \in LeafValue, SetLeaf(r, l, v),
           Sound(mine[r]), AgreeUnlessExpired(heap[mine[r]]),
           UNCHANGED <<mine, born, version, now>>,
           Admissible(l, v), v \in SecretValue => WithinWalk(mine[r], v),
           v \in SecretValue =>
              \A m \in Leaf : LET w == heap[mine[r]][m] IN
                  w \in SecretValue /\ KeyOf[m] = KeyOf[l] /\ w # v
                     => IsExpired(w.until)
    PROVE  /\ Sound(mine[r])'
           /\ AgreeUnlessExpired(heap[mine[r]])'
           /\ heap'[mine[r]] = [heap[mine[r]] EXCEPT ![l] = v]
<1>1. heap'[mine[r]] = [heap[mine[r]] EXCEPT ![l] = v]
  BY DEF SetLeaf, TypeOK
<1>2. \A m \in Leaf : heap'[mine[r]][m] = IF m = l THEN v ELSE heap[mine[r]][m]
  BY <1>1 DEF TypeOK
<1>3. Sound(mine[r])'
  <2>1. \A o \in Object : born[mine[r]][o] <= version[o]
    BY DEF Sound
  <2>2. ASSUME NEW m \in Leaf
        PROVE  LET w == heap'[mine[r]][m] IN
               /\ w # Unset => Admissible(m, w)
               /\ w \in SecretValue => WithinWalk(mine[r], w)
    <3>1. CASE m = l
      BY <1>2, <3>1
    <3>2. CASE m # l
      BY <1>2, <3>2 DEF Sound
    <3> QED
      BY <3>1, <3>2
  <2> QED
    BY <2>1, <2>2 DEF Sound, WithinWalk, Admissible
<1>4. AgreeUnlessExpired(heap[mine[r]])'
  BY <1>2 DEF AgreeUnlessExpired, IsExpired
<1> QED
  BY <1>1, <1>3, <1>4

LEMMA ResolveLeafSound ==
    ASSUME TypeOK, NEW r \in Refresher, mine[r] \in TreeId, NEW l \in Leaf,
           WalkSound(r), ResolveLeaf(r, l), mine'[r] # NoTree
    PROVE  WalkSound(r)'
<1> DEFINE k == KeyOf[l]  id == mine[r]
<1> USE DEF WalkSound
<1>1. k \in Key
  OBVIOUS
<1>2. UNCHANGED <<mine, born, version, now>>
  BY DEF ResolveLeaf, FromCache, FromSource, FromDefault, Abandon, readVars, backendVars, TypeOK
<1>3. CASE FromCache(r, l)
  <2> DEFINE v == cache[r][k]
  <2>1. v \in SecretValue /\ v \in LeafValue /\ v.key = k /\ k \in Registered
    BY <1>1, <1>3 DEF FromCache, CacheHit, TypeOK, CacheSound, LeafValue
  <2>2. Admissible(l, v) /\ WithinWalk(id, v)
    BY <1>1, <1>3, <2>1 DEF FromCache, CacheHit, CacheSound, Admissible
  <2>3. \A m \in Leaf : heap[id][m] \in SecretValue /\ KeyOf[m] = k /\ heap[id][m] # v
                          => IsExpired(heap[id][m].until)
    BY DEF CacheSound
  <2>4. /\ Sound(id)' /\ AgreeUnlessExpired(heap[id])'
        /\ heap'[id] = [heap[id] EXCEPT ![l] = v]
    BY <1>2, <1>3, <2>1, <2>2, <2>3, LeafSound DEF FromCache
  <2>5. \A m \in Leaf : heap'[id][m] = IF m = l THEN v ELSE heap[id][m]
    BY <2>4 DEF TypeOK
  <2>6. CacheSound(r)'
    BY <1>2, <1>3, <2>5 DEF FromCache, CacheSound, WithinWalk, IsExpired
  <2> QED
    BY <1>2, <2>4, <2>6
<1>4. CASE FromSource(r, l)
  <2> DEFINE v == Resolution(k)
  <2>1. v \in SecretValue /\ v \in LeafValue /\ v.key = k /\ k \in Registered
    BY <1>1, <1>4, ResolutionType DEF FromSource, LeafValue
  <2>2. Admissible(l, v)
    BY <2>1 DEF Admissible
  <2>3. WithinWalk(id, v)
    <3>1. v.version = version[ObjectOf[k]] /\ v.key = k
      BY <1>1, ResolutionType
    <3>2. born[id][ObjectOf[k]] \in Nat /\ version[ObjectOf[k]] \in Nat
      BY <1>1 DEF TypeOK
    <3>3. born[id][ObjectOf[k]] <= version[ObjectOf[k]]
      BY <1>1 DEF Sound
    <3> QED
      BY <3>1, <3>2, <3>3 DEF WithinWalk
  <2>4. \A m \in Leaf : heap[id][m] \in SecretValue /\ KeyOf[m] = k /\ heap[id][m] # v
                          => IsExpired(heap[id][m].until)
    BY <1>1, <1>4 DEF FromSource, CacheSound, CacheHit
  <2>5. /\ Sound(id)' /\ AgreeUnlessExpired(heap[id])'
        /\ heap'[id] = [heap[id] EXCEPT ![l] = v]
    <3>1. SetLeaf(r, l, v)
      BY <1>4 DEF FromSource
    <3> HIDE DEF v
    <3> QED
      BY <1>2, <2>1, <2>2, <2>3, <2>4, <3>1, LeafSound
  <2>6. \A m \in Leaf : heap'[id][m] = IF m = l THEN v ELSE heap[id][m]
    BY <2>5 DEF TypeOK
  <2>7. \A j \in Key : cache'[r][j] = IF j = k THEN v ELSE cache[r][j]
    BY <1>1, <1>4 DEF FromSource, TypeOK
  <2>8. ASSUME NEW j \in Key, cache'[r][j] # NoEntry
        PROVE  /\ cache'[r][j].key = j
               /\ j \in Registered
               /\ WithinWalk(id, cache'[r][j])
    BY <2>1, <2>3, <2>7, <2>8 DEF CacheSound
  <2>9. ASSUME NEW m \in Leaf, heap'[id][m] \in SecretValue
        PROVE  \/ heap'[id][m] = cache'[r][KeyOf[m]]
               \/ IsExpired(heap'[id][m].until)
    <3>1. KeyOf[m] \in Key
      OBVIOUS
    <3>2. CASE m = l
      BY <2>6, <2>7, <1>1, <3>2
    <3>3. CASE m # l /\ KeyOf[m] = k
      BY <2>4, <2>6, <2>7, <2>9, <3>1, <3>3
    <3>4. CASE m # l /\ KeyOf[m] # k
      BY <2>6, <2>7, <2>9, <3>1, <3>4 DEF CacheSound
    <3> QED
      BY <3>2, <3>3, <3>4
  <2>10. CacheSound(r)'
    BY <1>2, <2>8, <2>9 DEF CacheSound, WithinWalk, IsExpired
  <2> QED
    BY <1>2, <2>5, <2>10
<1>5. CASE FromDefault(r, l)
  <2>1. Fallback \in LeafValue /\ Fallback \notin SecretValue /\ Admissible(l, Fallback)
    BY <1>5 DEF FromDefault, Substitutable, Admissible, LeafValue
  <2>2. /\ Sound(id)' /\ AgreeUnlessExpired(heap[id])'
        /\ heap'[id] = [heap[id] EXCEPT ![l] = Fallback]
    BY <1>2, <1>5, <2>1, LeafSound DEF FromDefault
  <2>3. \A m \in Leaf : heap'[id][m] = IF m = l THEN Fallback ELSE heap[id][m]
    BY <2>2 DEF TypeOK
  <2>4. CacheSound(r)'
    <3>1. cache'[r] = cache[r] /\ mine'[r] = id
      BY <1>5 DEF FromDefault
    <3>2. ASSUME NEW m \in Leaf, heap'[id][m] \in SecretValue
          PROVE  heap'[id][m] = heap[id][m]
      BY <2>1, <2>3, <3>2
    <3>. QED
      BY <1>2, <1>5, <3>1, <3>2 DEF FromDefault, CacheSound, WithinWalk, IsExpired
  <2> QED
    BY <1>2, <2>2, <2>4
<1>6. CASE Abandon(r)
  BY <1>6 DEF Abandon, TypeOK
<1> QED
  BY <1>3, <1>4, <1>5, <1>6 DEF ResolveLeaf

\* Steps that leave every tree, its birth and the caches alone.
LEMMA WalkQuiet ==
    ASSUME Monotone, TypeOK, WalkInv, UNCHANGED <<heap, born, cache>>,
           \A r \in Refresher : mine'[r] \in {mine[r], NoTree},
           \A r \in Refresher : pc'[r] = "swap" => pc[r] = "swap" \/ Full(heap[mine[r]])
    PROVE  WalkInv'
<1> SUFFICES ASSUME NEW r \in Refresher, mine'[r] # NoTree
             PROVE  WalkSound(r)' /\ (pc'[r] = "swap" => Full(heap[mine[r]])')
  BY DEF WalkInv, WalkSound
<1>1. mine'[r] = mine[r] /\ mine[r] \in TreeId
  BY DEF TypeOK
<1>2. WalkSound(r)'
  BY <1>1, WalkFrame DEF WalkInv, WalkSound
<1>3. pc'[r] = "swap" => Full(heap[mine[r]])'
  BY <1>1 DEF WalkInv, Full
<1> QED
  BY <1>2, <1>3

\* A walk that begins disturbs no other walk.
LEMMA WalkBegins ==
    ASSUME Monotone, TypeOK, WalkInv, PointerInv, NEW r \in Refresher,
           BeginWalk(r), UNCHANGED version,
           pc'[r] # "swap", \A q \in Refresher \ {r} : pc'[q] = pc[q]
    PROVE  WalkInv'
<1> SUFFICES ASSUME NEW q \in Refresher, mine'[q] # NoTree
             PROVE  WalkSound(q)' /\ (pc'[q] = "swap" => Full(heap[mine[q]])')
  BY DEF WalkInv, WalkSound
<1>1. CASE q = r
  BY <1>1, BeginWalkSound
<1>2. CASE q # r
  <2>1. PICK id \in Free : BeginWalk(r)!(id)
    BY DEF BeginWalk
  <2>2. mine'[q] = mine[q] /\ cache'[q] = cache[q] /\ mine[q] \in TreeId
    BY <1>2, <2>1 DEF TypeOK
  <2>3. heap'[mine[q]] = heap[mine[q]] /\ born'[mine[q]] = born[mine[q]]
    BY <2>1, <2>2 DEF Free, TypeOK
  <2>4. WalkSound(q)'
    BY <2>2, <2>3, WalkFrame DEF WalkInv, WalkSound
  <2>5. pc'[q] = "swap" => Full(heap[mine[q]])'
    BY <1>2, <2>2, <2>3 DEF WalkInv, Full
  <2> QED
    BY <2>4, <2>5
<1> QED
  BY <1>1, <1>2

LEMMA WalkResolves ==
    ASSUME Monotone, TypeOK, WalkInv, ControlInv, PointerInv,
           NEW r \in Refresher, NEW l \in Leaf, ResolveLeaf(r, l)
    PROVE  WalkInv'
<1> SUFFICES ASSUME NEW q \in Refresher, mine'[q] # NoTree
             PROVE  WalkSound(q)' /\ (pc'[q] = "swap" => Full(heap[mine[q]])')
  BY DEF WalkInv, WalkSound
<1>1. mine[r] \in TreeId /\ pc[r] # "swap"
  BY DEF ResolveLeaf, Walking, PointerInv, TypeOK
<1>2. CASE q = r
  <2>1. WalkSound(r)'
    BY <1>1, <1>2, ResolveLeafSound DEF WalkInv, WalkSound
  <2>2. pc'[r] # "swap"
    BY <1>1, ProcessSets DEF ResolveLeaf, FromCache, FromSource, FromDefault, Abandon, TypeOK
  <2> QED
    BY <1>2, <2>1, <2>2
<1>3. CASE q # r
  <2>1. mine'[q] = mine[q] /\ cache'[q] = cache[q] /\ pc'[q] = pc[q]
    BY <1>3, ProcessSets DEF ResolveLeaf, FromCache, FromSource, FromDefault, Abandon, TypeOK
  <2>2. mine[q] \in TreeId /\ mine[q] # mine[r]
    BY <1>1, <1>3, <2>1 DEF PointerInv, TypeOK
  <2>3. heap'[mine[q]] = heap[mine[q]] /\ born'[mine[q]] = born[mine[q]]
    BY <2>2 DEF ResolveLeaf, FromCache, FromSource, FromDefault, Abandon, SetLeaf, TypeOK
  <2>4. WalkSound(q)'
    BY <2>1, <2>2, <2>3, WalkFrame DEF WalkInv, WalkSound
  <2>5. pc'[q] = "swap" => Full(heap[mine[q]])'
    BY <2>1, <2>2, <2>3 DEF WalkInv, Full
  <2> QED
    BY <2>4, <2>5
<1> QED
  BY <1>2, <1>3

LEMMA WalkStep == TypeOK /\ ControlInv /\ PointerInv /\ WalkInv /\ Next => WalkInv'
<1> SUFFICES ASSUME TypeOK, ControlInv, PointerInv, WalkInv, Next PROVE WalkInv'
  OBVIOUS
<1>0. Monotone
  BY MonotoneStep
<1> USE <1>0, ProcessSets DEF TypeOK, treeVars, backendVars
<1>1. ASSUME NEW r \in Refresher, StartLoad(r) PROVE WalkInv'
  BY <1>1, WalkBegins DEF StartLoad
<1>2. ASSUME NEW r \in Refresher, ReadOriginal(r) PROVE WalkInv'
  BY <1>2, WalkBegins DEF ReadOriginal
<1>3. ASSUME NEW r \in Refresher, NEW l \in Leaf, ResolveLeaf(r, l) PROVE WalkInv'
  BY <1>3, WalkResolves
<1>4. ASSUME NEW r \in Refresher, AwaitLock(r) PROVE WalkInv'
  BY <1>4, WalkQuiet DEF AwaitLock
<1>5. ASSUME NEW r \in Refresher, FinishLoad(r) \/ Swap(r) PROVE WalkInv'
  BY <1>5, WalkQuiet DEF FinishLoad, Swap
<1>6. ASSUME NEW r \in Refresher, StartRefresh(r) \/ FinishRefresh(r) \/ Cancel(r)
      PROVE  WalkInv'
  BY <1>6, WalkQuiet DEF StartRefresh, FinishRefresh, Cancel
<1>7. ASSUME NEW p \in Reader,
             \/ StartRead(p) \/ TakeTree(p) \/ Release(p)
             \/ EndNavigation(p) \/ FinishRead(p)
             \/ \E l \in Leaf : ReadLeaf(p, l)
      PROVE  WalkInv'
  BY <1>7, WalkQuiet DEF StartRead, TakeTree, Release, EndNavigation, FinishRead, ReadLeaf
<1>8. ASSUME \/ \E o \in Object : Rotate(o) \/ Outage(o)
             \/ Tick
      PROVE  WalkInv'
  BY <1>8, WalkQuiet DEF Rotate, Outage, Tick
<1> QED
  BY NextCases, <1>1, <1>2, <1>3, <1>4, <1>5, <1>6, <1>7, <1>8

-----------------------------------------------------------------------------
(* The active tree and the trees readers follow.                           *)

LEMMA BeginWalkElsewhere ==
    ASSUME TypeOK, NEW r \in Refresher, BeginWalk(r), NEW id \in TreeId, id \notin Free
    PROVE  heap'[id] = heap[id] /\ born'[id] = born[id]
BY DEF BeginWalk, TypeOK

LEMMA ResolveLeafElsewhere ==
    ASSUME TypeOK, NEW r \in Refresher, NEW l \in Leaf, ResolveLeaf(r, l),
           NEW id \in TreeId, id # mine[r]
    PROVE  heap'[id] = heap[id] /\ born'[id] = born[id]
BY DEF ResolveLeaf, FromCache, FromSource, FromDefault, Abandon, SetLeaf, TypeOK

\* A step of the handle writes to no tree that is shared: neither to the
\* active tree nor to one a reader follows.
LEMMA SharedKept ==
    ASSUME TypeOK, ControlInv, PointerInv, [Next]_vars, NEW id \in Shared
    PROVE  heap'[id] = heap[id] /\ born'[id] = born[id]
<1> USE DEF treeVars
<1>0. id \in TreeId /\ id \notin Free
  BY DEF Shared, Free
<1>1. CASE UNCHANGED vars
  BY <1>1 DEF vars
<1>2. ASSUME NEW r \in Refresher, StartLoad(r) \/ ReadOriginal(r)
      PROVE  heap'[id] = heap[id] /\ born'[id] = born[id]
  BY <1>0, <1>2, BeginWalkElsewhere DEF StartLoad, ReadOriginal
<1>3. ASSUME NEW r \in Refresher, NEW l \in Leaf, ResolveLeaf(r, l)
      PROVE  heap'[id] = heap[id] /\ born'[id] = born[id]
  <2>1. id # mine[r]
    BY <1>0, <1>3 DEF ResolveLeaf, Walking, PointerInv, Shared
  <2> QED
    BY <1>0, <1>3, <2>1, ResolveLeafElsewhere
<1>4. ASSUME NEW r \in Refresher,
             \/ FinishLoad(r) \/ StartRefresh(r) \/ AwaitLock(r)
             \/ Swap(r) \/ FinishRefresh(r) \/ Cancel(r)
      PROVE  heap'[id] = heap[id] /\ born'[id] = born[id]
  BY <1>4 DEF FinishLoad, StartRefresh, AwaitLock, Swap, FinishRefresh, Cancel
<1>5. ASSUME NEW p \in Reader,
             \/ StartRead(p) \/ TakeTree(p) \/ Release(p)
             \/ EndNavigation(p) \/ FinishRead(p)
             \/ \E l \in Leaf : ReadLeaf(p, l)
      PROVE  heap'[id] = heap[id] /\ born'[id] = born[id]
  BY <1>5 DEF StartRead, TakeTree, Release, EndNavigation, FinishRead, ReadLeaf
<1>6. ASSUME \/ \E o \in Object : Rotate(o) \/ Outage(o)
             \/ Tick
      PROVE  heap'[id] = heap[id] /\ born'[id] = born[id]
  BY <1>6 DEF Rotate, Outage, Tick
<1> QED
  BY NextCases, <1>1, <1>2, <1>3, <1>4, <1>5, <1>6

LEMMA ActiveStep ==
    TypeOK /\ ControlInv /\ PointerInv /\ WalkInv /\ ActiveInv /\ Next => ActiveInv'
<1> SUFFICES ASSUME TypeOK, ControlInv, PointerInv, WalkInv, ActiveInv, Next,
                    tree' # NoTree
             PROVE  Sound(tree)' /\ Full(heap[tree])' /\ AgreeUnlessExpired(heap[tree])'
  BY DEF ActiveInv
<1>0. Monotone
  BY MonotoneStep
<1>1. ASSUME NEW r \in Refresher, FinishLoad(r) \/ Swap(r)
      PROVE  Sound(tree)' /\ Full(heap[tree])' /\ AgreeUnlessExpired(heap[tree])'
  <2>1. /\ mine[r] \in TreeId
        /\ tree' = mine[r]
        /\ UNCHANGED <<heap, born>>
        /\ Full(heap[mine[r]])
    BY <1>1 DEF FinishLoad, Swap, PointerInv, TypeOK, WalkInv
  <2>2. Sound(mine[r]) /\ AgreeUnlessExpired(heap[mine[r]])
    BY <2>1 DEF WalkInv, TypeOK
  <2>3. heap'[mine[r]] = heap[mine[r]] /\ born'[mine[r]] = born[mine[r]]
    BY <2>1
  <2>4. UNCHANGED version /\ UNCHANGED now
    BY <1>1 DEF FinishLoad, Swap, backendVars
  <2> QED
    BY <2>1, <2>2, <2>4 DEF Sound, WithinWalk, Full, AgreeUnlessExpired, IsExpired
<1>2. ASSUME tree' = tree
      PROVE  Sound(tree)' /\ Full(heap[tree])' /\ AgreeUnlessExpired(heap[tree])'
  <2>1. tree \in Shared /\ tree \in TreeId
    BY <1>2 DEF Shared, TypeOK
  <2>2. heap'[tree] = heap[tree] /\ born'[tree] = born[tree]
    BY <2>1, SharedKept
  <2>3. Sound(tree) /\ Full(heap[tree]) /\ AgreeUnlessExpired(heap[tree])
    BY <1>2 DEF ActiveInv
  <2> HIDE DEF Sound, AgreeUnlessExpired
  <2>4. \A t : t = tree =>
           Sound(t)' /\ AgreeUnlessExpired(heap[t])'
    BY <1>0, <2>1, <2>2, <2>3, TreeFrame
  <2>5. Full(heap[tree])'
    BY <1>2, <2>2, <2>3 DEF Full
  <2> QED
    BY <1>2, <2>4, <2>5 DEF Sound, AgreeUnlessExpired, WithinWalk, Admissible, IsExpired
<1>3. ASSUME NEW r \in Refresher,
             \/ StartLoad(r) \/ ReadOriginal(r) \/ StartRefresh(r)
             \/ AwaitLock(r) \/ FinishRefresh(r) \/ Cancel(r)
             \/ \E l \in Leaf : ResolveLeaf(r, l)
      PROVE  tree' = tree
  BY <1>3 DEF StartLoad, ReadOriginal, BeginWalk, StartRefresh, AwaitLock,
              FinishRefresh, Cancel, ResolveLeaf, treeVars
<1>4. ASSUME NEW p \in Reader,
             \/ StartRead(p) \/ TakeTree(p) \/ Release(p)
             \/ EndNavigation(p) \/ FinishRead(p)
             \/ \E l \in Leaf : ReadLeaf(p, l)
      PROVE  tree' = tree
  BY <1>4 DEF StartRead, TakeTree, Release, EndNavigation, FinishRead, ReadLeaf, treeVars
<1>5. ASSUME \/ \E o \in Object : Rotate(o) \/ Outage(o)
             \/ Tick
      PROVE  tree' = tree
  BY <1>5 DEF Rotate, Outage, Tick, treeVars
<1> QED
  BY NextCases, <1>1, <1>2, <1>3, <1>4, <1>5

\* A step of a refresher changes nothing of what readers have read.
LEMMA SeenQuiet ==
    ASSUME TypeOK, ControlInv, PointerInv, SeenInv, Next, NEW r \in Refresher,
           UNCHANGED readVars, \A p \in Reader : pc'[p] = pc[p]
    PROVE  SeenInv'
<1> SUFFICES ASSUME NEW p \in Reader
             PROVE  /\ pc[p] = "navigate" =>
                          \A l \in Leaf : seen[p][l] \in {Unset, heap'[held[p]][l]}
                    /\ pc[p] \in {"idle", "take", "release"} => seen[p] = Blank
  BY DEF SeenInv, readVars
<1>1. pc[p] = "navigate" => held[p] \in Shared
  BY DEF PointerInv, Shared, TypeOK
<1>2. pc[p] = "navigate" => heap'[held[p]] = heap[held[p]]
  BY <1>1, SharedKept
<1> QED
  BY <1>2 DEF SeenInv

\* What readers have read.
LEMMA SeenStep == TypeOK /\ ControlInv /\ PointerInv /\ SeenInv /\ Next => SeenInv'
<1> SUFFICES ASSUME TypeOK, ControlInv, PointerInv, SeenInv, Next PROVE SeenInv'
  OBVIOUS
<1> USE ProcessSets DEF lockVars, treeVars, readVars, backendVars, TypeOK, ControlInv, SeenInv
<1>1. ASSUME NEW r \in Refresher, StartLoad(r) PROVE SeenInv'
  BY <1>1 DEF StartLoad, BeginWalk
<1>2. ASSUME NEW r \in Refresher, FinishLoad(r) PROVE SeenInv'
  BY <1>2 DEF FinishLoad
<1>3. ASSUME NEW r \in Refresher, StartRefresh(r) PROVE SeenInv'
  BY <1>3 DEF StartRefresh, RLock
<1>4. ASSUME NEW r \in Refresher, ReadOriginal(r) PROVE SeenInv'
  BY <1>4, SeenQuiet DEF ReadOriginal
<1>5. ASSUME NEW r \in Refresher, AwaitLock(r) PROVE SeenInv'
  BY <1>5 DEF AwaitLock, Announce
<1>6. ASSUME NEW r \in Refresher, Swap(r) PROVE SeenInv'
  BY <1>6 DEF Swap, Locked
<1>7. ASSUME NEW r \in Refresher, FinishRefresh(r) PROVE SeenInv'
  BY <1>7 DEF FinishRefresh, Unlock
<1>8. ASSUME NEW r \in Refresher, Cancel(r) PROVE SeenInv'
  BY <1>8 DEF Cancel, Walking
<1>9. ASSUME NEW r \in Refresher, NEW l \in Leaf, ResolveLeaf(r, l) PROVE SeenInv'
  <2>1. \A p \in Reader : pc'[p] = pc[p]
    BY <1>9 DEF ResolveLeaf, FromCache, FromSource, FromDefault, Abandon
  <2>2. UNCHANGED readVars
    BY <1>9 DEF ResolveLeaf
  <2> QED
    BY <2>1, <2>2, SeenQuiet
<1>10. ASSUME NEW p \in Reader, StartRead(p) PROVE SeenInv'
  BY <1>10 DEF StartRead, RLock
<1>11. ASSUME NEW p \in Reader, TakeTree(p) PROVE SeenInv'
  BY <1>11 DEF TakeTree, Blank
<1>12. ASSUME NEW p \in Reader, Release(p) PROVE SeenInv'
  BY <1>12 DEF Release, RUnlock, Blank
<1>13. ASSUME NEW p \in Reader, EndNavigation(p) PROVE SeenInv'
  BY <1>13 DEF EndNavigation, RUnlock
<1>14. ASSUME NEW p \in Reader, FinishRead(p) PROVE SeenInv'
  BY <1>14 DEF FinishRead
<1>15. ASSUME NEW p \in Reader, NEW l \in Leaf, ReadLeaf(p, l) PROVE SeenInv'
  BY <1>15 DEF ReadLeaf
<1>16. ASSUME NEW o \in Object, Rotate(o) PROVE SeenInv'
  BY <1>16 DEF Rotate
<1>17. ASSUME NEW o \in Object, Outage(o) PROVE SeenInv'
  BY <1>17 DEF Outage
<1>18. ASSUME Tick PROVE SeenInv'
  BY <1>18 DEF Tick
<1> QED
  BY NextCases, <1>1, <1>2, <1>3, <1>4, <1>5, <1>6, <1>7, <1>8, <1>9, <1>10,
     <1>11, <1>12, <1>13, <1>14, <1>15, <1>16, <1>17, <1>18

-----------------------------------------------------------------------------
(* The theorems.                                                           *)

LEMMA IInvStep == IInv /\ [Next]_vars => IInv'
<1> SUFFICES ASSUME IInv, [Next]_vars PROVE IInv'
  OBVIOUS
<1>1. CASE Next
  BY <1>1, TypeStep, ControlStep, LockStep, PointerStep, WalkStep, ActiveStep, SeenStep
     DEF IInv
<1>2. CASE UNCHANGED vars
  <2> USE <1>2 DEF vars, lockVars, treeVars, readVars, backendVars
  <2>1. TypeOK' /\ ControlInv' /\ LockInv' /\ PointerInv'
    BY DEF IInv, TypeOK, ControlInv, LockInv, PointerInv
  <2>2. WalkInv'
    <3> SUFFICES ASSUME NEW r \in Refresher, mine[r] # NoTree
                 PROVE  /\ Sound(mine[r])'
                        /\ CacheSound(r)'
                        /\ AgreeUnlessExpired(heap[mine[r]])'
                        /\ pc[r] = "swap" => Full(heap[mine[r]])
      BY DEF WalkInv, Full
    <3>1. /\ Sound(mine[r]) /\ CacheSound(r) /\ AgreeUnlessExpired(heap[mine[r]])
          /\ pc[r] = "swap" => Full(heap[mine[r]])
      BY DEF IInv, WalkInv
    <3>2. Sound(mine[r])'
      BY <3>1 DEF Sound, WithinWalk
    <3>3. CacheSound(r)'
      BY <3>1 DEF CacheSound, WithinWalk, IsExpired
    <3>4. AgreeUnlessExpired(heap[mine[r]])'
      BY <3>1 DEF AgreeUnlessExpired, IsExpired
    <3> QED
      BY <3>1, <3>2, <3>3, <3>4
  <2>3. ActiveInv'
    <3> SUFFICES ASSUME tree # NoTree
                 PROVE  /\ Sound(tree)'
                        /\ Full(heap[tree])
                        /\ AgreeUnlessExpired(heap[tree])'
      BY DEF ActiveInv, Full
    <3>1. Sound(tree) /\ Full(heap[tree]) /\ AgreeUnlessExpired(heap[tree])
      BY DEF IInv, ActiveInv
    <3>2. Sound(tree)'
      BY <3>1 DEF Sound, WithinWalk
    <3>3. AgreeUnlessExpired(heap[tree])'
      BY <3>1 DEF AgreeUnlessExpired, IsExpired
    <3> QED
      BY <3>1, <3>2, <3>3
  <2>4. SeenInv'
    BY DEF IInv, SeenInv
  <2> QED
    BY <2>1, <2>2, <2>3, <2>4 DEF IInv
<1> QED
  BY <1>1, <1>2

\* The invariant is inductive, so it holds of every reachable state.
THEOREM Invariance == Spec => []IInv
<1>1. Init => IInv
  BY InitIInv
<1>2. IInv /\ [Next]_vars => IInv'
  BY IInvStep
<1> QED
  BY <1>1, <1>2, PTL DEF Spec

\* Every variable keeps its type.
THEOREM TypeCorrectness == Spec => []TypeOK
<1>1. IInv => TypeOK
  BY DEF IInv
<1> QED
  BY <1>1, Invariance, PTL

\* A refresher that writes c.tree is alone inside the lock.
THEOREM NoRaceOnTreeHolds == Spec => []NoRaceOnTree
<1>1. IInv => NoRaceOnTree
  BY DEF IInv, LockInv, NoRaceOnTree
<1> QED
  BY <1>1, Invariance, PTL

\* The active tree is complete: failed walks are never shown.
THEOREM PublishedCompleteHolds == Spec => []PublishedComplete
<1>1. IInv => PublishedComplete
  <2> SUFFICES ASSUME IInv, tree # NoTree PROVE heap[tree] \in Complete
    BY DEF PublishedComplete
  <2>1. heap[tree] \in [Leaf -> LeafValue \cup {Unset}]
    BY DEF IInv, TypeOK
  <2>2. \A l \in Leaf : heap[tree][l] # Unset /\ Admissible(l, heap[tree][l])
    BY DEF IInv, ActiveInv, Sound, Full
  <2> QED
    BY <2>1, <2>2 DEF Complete
<1> QED
  BY <1>1, Invariance, PTL

\* The active tree holds no value older than the walk that built it.
THEOREM NoStaleCarryOverHolds == Spec => []NoStaleCarryOver
<1>1. IInv => NoStaleCarryOver
  BY DEF IInv, ActiveInv, Sound, WithinWalk, NoStaleCarryOver
<1> QED
  BY <1>1, Invariance, PTL

\* References to one key agree in the active tree, unless a value expired.
THEOREM SameKeyAgreeHolds == Spec => []SameKeyAgree
<1>1. IInv => SameKeyAgree
  BY DEF IInv, ActiveInv, SameKeyAgree
<1> QED
  BY <1>1, Invariance, PTL

\* No step writes to a tree that is shared, though readers hold no lock.
THEOREM PublishedImmutableHolds == Spec => PublishedImmutable
<1>1. IInv /\ [Next]_vars => [\A id \in Shared : heap'[id] = heap[id]]_vars
  BY SharedKept DEF IInv
<1> QED
  BY <1>1, Invariance, PTL DEF Spec, PublishedImmutable

-----------------------------------------------------------------------------
(* ConfigHandle implements AtomicConfig.                                   *)

LEMMA RefineInit == Init => Atomic!AtomicInit
BY ProcessSets DEF Init, Atomic!AtomicInit, ActiveTree, StatusOf, TakenBy, AnswerOf

\* What an abstract reader has is unchanged while the goroutine stands still.
LEMMA StandsStill ==
    ASSUME IInv, [Next]_vars, NEW p \in Reader,
           pc'[p] = pc[p], held'[p] = held[p], seen'[p] = seen[p]
    PROVE  StatusOf(p)' = StatusOf(p) /\ TakenBy(p)' = TakenBy(p) /\ AnswerOf(p)' = AnswerOf(p)
<1>1. held[p] # NoTree => held[p] \in Shared
  BY DEF IInv, TypeOK, Shared
<1>2. held[p] # NoTree => heap'[held[p]] = heap[held[p]]
  BY <1>1, SharedKept DEF IInv
<1> QED
  BY <1>2 DEF StatusOf, TakenBy, AnswerOf

\* The active tree is unchanged as long as c.tree is not assigned.
LEMMA ActiveStays ==
    ASSUME IInv, [Next]_vars, tree' = tree
    PROVE  ActiveTree' = ActiveTree
<1>1. tree # NoTree => tree \in Shared
  BY DEF IInv, TypeOK, Shared
<1>2. tree # NoTree => heap'[tree] = heap[tree]
  BY <1>1, SharedKept DEF IInv
<1> QED
  BY <1>2 DEF ActiveTree

\* Steps that are invisible to readers.
LEMMA RefineStutter ==
    ASSUME IInv, [Next]_vars, tree' = tree,
           \A p \in Reader : pc'[p] = pc[p] /\ held'[p] = held[p] /\ seen'[p] = seen[p]
    PROVE  UNCHANGED Atomic!atomicVars
<1>1. ActiveTree' = ActiveTree
  BY ActiveStays
<1>2. \A p \in Reader : /\ StatusOf(p)' = StatusOf(p)
                        /\ TakenBy(p)' = TakenBy(p)
                        /\ AnswerOf(p)' = AnswerOf(p)
  BY StandsStill
<1> QED
  BY <1>1, <1>2 DEF Atomic!atomicVars

\* LoadFrom and RefreshSecrets install a complete tree.
LEMMA RefineInstall ==
    ASSUME IInv, Next, NEW r \in Refresher, FinishLoad(r) \/ Swap(r)
    PROVE  Atomic!Install
<1> USE ProcessSets DEF IInv, readVars
<1>1. mine[r] \in TreeId /\ tree' = mine[r] /\ UNCHANGED heap /\ Full(heap[mine[r]])
  BY DEF FinishLoad, Swap, PointerInv, TypeOK, WalkInv
<1>2. tree' # NoTree /\ heap'[tree'] \in Complete
  <2>1. Sound(mine[r])
    BY <1>1 DEF WalkInv, TypeOK
  <2>2. heap[mine[r]] \in [Leaf -> LeafValue \cup {Unset}]
    BY <1>1 DEF TypeOK
  <2> QED
    BY <1>1, <2>1, <2>2 DEF Sound, Full, Complete
<1>3. ActiveTree' \in Complete
  BY <1>2 DEF ActiveTree
<1>4. \A p \in Reader : pc'[p] = pc[p] /\ held'[p] = held[p] /\ seen'[p] = seen[p]
  BY DEF FinishLoad, Swap, TypeOK
<1>5. \A p \in Reader : /\ StatusOf(p)' = StatusOf(p)
                        /\ TakenBy(p)' = TakenBy(p)
                        /\ AnswerOf(p)' = AnswerOf(p)
  BY <1>4, StandsStill
<1> QED
  BY <1>3, <1>5 DEF Atomic!Install

\* The abstract state changes for reader p alone.
OnlyReader(p) ==
    /\ ActiveTree' = ActiveTree
    /\ [q \in Reader |-> StatusOf(q)]' =
          [[q \in Reader |-> StatusOf(q)] EXCEPT ![p] = StatusOf(p)']
    /\ [q \in Reader |-> TakenBy(q)]' =
          [[q \in Reader |-> TakenBy(q)] EXCEPT ![p] = TakenBy(p)']
    /\ [q \in Reader |-> AnswerOf(q)]' =
          [[q \in Reader |-> AnswerOf(q)] EXCEPT ![p] = AnswerOf(p)']
    /\ TakenBy(p)' = TakenBy(p) =>
          [q \in Reader |-> TakenBy(q)]' = [q \in Reader |-> TakenBy(q)]
    /\ AnswerOf(p)' = AnswerOf(p) =>
          [q \in Reader |-> AnswerOf(q)]' = [q \in Reader |-> AnswerOf(q)]

\* A reader's step changes the abstract state of that reader alone.
LEMMA RefineReader ==
    ASSUME IInv, Next, NEW p \in Reader,
           tree' = tree,
           \A q \in Reader \ {p} : pc'[q] = pc[q] /\ held'[q] = held[q] /\ seen'[q] = seen[q]
    PROVE  OnlyReader(p)
<1>1. ActiveTree' = ActiveTree
  BY ActiveStays
<1>2. \A q \in Reader \ {p} : /\ StatusOf(q)' = StatusOf(q)
                              /\ TakenBy(q)' = TakenBy(q)
                              /\ AnswerOf(q)' = AnswerOf(q)
  BY StandsStill
<1>3. TakenBy(p)' = TakenBy(p) =>
         [q \in Reader |-> TakenBy(q)]' = [q \in Reader |-> TakenBy(q)]
  BY <1>2
<1>4. AnswerOf(p)' = AnswerOf(p) =>
         [q \in Reader |-> AnswerOf(q)]' = [q \in Reader |-> AnswerOf(q)]
  BY <1>2
<1> QED
  BY <1>1, <1>2, <1>3, <1>4 DEF OnlyReader

LEMMA RefineStep == IInv /\ [Next]_vars => [Atomic!AtomicNext]_(Atomic!atomicVars)
<1> SUFFICES ASSUME IInv, [Next]_vars, UNCHANGED Atomic!atomicVars => FALSE
             PROVE  Atomic!AtomicNext
  OBVIOUS
<1> USE ProcessSets DEF treeVars, readVars
<1>0. TypeOK /\ ControlInv /\ PointerInv /\ SeenInv
  BY DEF IInv
<1>1. CASE UNCHANGED vars
  BY <1>1, RefineStutter DEF vars
<1>2. ASSUME Next, NEW r \in Refresher, FinishLoad(r) \/ Swap(r)
      PROVE  Atomic!AtomicNext
  BY <1>2, RefineInstall DEF Atomic!AtomicNext
<1>3. ASSUME NEW r \in Refresher,
             \/ StartLoad(r) \/ ReadOriginal(r) \/ StartRefresh(r)
             \/ AwaitLock(r) \/ FinishRefresh(r) \/ Cancel(r)
      PROVE  Atomic!AtomicNext
  <2>1. tree' = tree /\ held' = held /\ seen' = seen
    BY <1>3 DEF StartLoad, ReadOriginal, BeginWalk, StartRefresh, AwaitLock,
                FinishRefresh, Cancel
  <2>2. \A p \in Reader : pc'[p] = pc[p]
    BY <1>0, <1>3 DEF StartLoad, ReadOriginal, StartRefresh, AwaitLock,
                FinishRefresh, Cancel, TypeOK
  <2> QED
    BY <2>1, <2>2, RefineStutter
<1>4. ASSUME NEW r \in Refresher, NEW l \in Leaf, ResolveLeaf(r, l)
      PROVE  Atomic!AtomicNext
  <2>1. tree' = tree /\ held' = held /\ seen' = seen
    BY <1>4 DEF ResolveLeaf
  <2>2. \A p \in Reader : pc'[p] = pc[p]
    BY <1>0, <1>4 DEF ResolveLeaf, FromCache, FromSource, FromDefault, Abandon, TypeOK
  <2> QED
    BY <2>1, <2>2, RefineStutter
<1>5. ASSUME \/ \E o \in Object : Rotate(o) \/ Outage(o)
             \/ Tick
      PROVE  Atomic!AtomicNext
  BY <1>5, RefineStutter DEF Rotate, Outage, Tick
<1>6. ASSUME Next, NEW p \in Reader, StartRead(p) PROVE Atomic!AtomicNext
  <2>1. pc[p] = "idle" /\ pc'[p] = "take" /\ UNCHANGED <<tree, heap, held, seen>>
    BY <1>0, <1>6 DEF StartRead, TypeOK
  <2>2. \A q \in Reader \ {p} : pc'[q] = pc[q]
    BY <1>0, <1>6 DEF StartRead, TypeOK
  <2>3. tree # NoTree /\ heap[tree] # NoTree
    BY <1>0, <1>6 DEF StartRead, TypeOK
  <2>4. /\ StatusOf(p) = "idle" /\ StatusOf(p)' = "pending"
        /\ TakenBy(p)' = TakenBy(p)
        /\ AnswerOf(p)' = AnswerOf(p)
    BY <2>1 DEF StatusOf, TakenBy, AnswerOf
  <2>5. ActiveTree # NoTree
    BY <2>3 DEF ActiveTree
  <2>6. OnlyReader(p)
    BY <1>6, <2>1, <2>2, RefineReader
  <2>7. Atomic!Invoke(p)
    BY <2>6, <2>4, <2>5 DEF Atomic!Invoke, OnlyReader
  <2> QED
    BY <2>7 DEF Atomic!AtomicNext
<1>7. ASSUME Next, NEW p \in Reader, TakeTree(p) PROVE Atomic!AtomicNext
  <2>1. /\ pc[p] = "take" /\ pc'[p] \in {"release", "navigate"}
        /\ UNCHANGED <<tree, heap, seen>>
        /\ held'[p] = tree
    BY <1>0, <1>7 DEF TakeTree, TypeOK
  <2>2. \A q \in Reader \ {p} : pc'[q] = pc[q] /\ held'[q] = held[q]
    BY <1>0, <1>7 DEF TakeTree, TypeOK
  <2>3. /\ StatusOf(p) = "pending" /\ StatusOf(p)' = "chosen"
        /\ AnswerOf(p)' = AnswerOf(p)
    BY <2>1 DEF StatusOf, AnswerOf
  <2>4. TakenBy(p)' = ActiveTree
    BY <2>1 DEF TakenBy, ActiveTree
  <2>5. OnlyReader(p)
    BY <1>7, <2>1, <2>2, RefineReader
  <2>6. Atomic!Choose(p)
    BY <2>5, <2>3, <2>4 DEF Atomic!Choose, OnlyReader
  <2> QED
    BY <2>6 DEF Atomic!AtomicNext
<1>8. ASSUME NEW p \in Reader,
             Release(p) \/ \E l \in Leaf : ReadLeaf(p, l)
      PROVE  Atomic!AtomicNext
  <2>1. UNCHANGED <<tree, heap, held>>
    BY <1>8 DEF Release, ReadLeaf
  <2>2. ActiveTree' = ActiveTree
    BY <2>1, ActiveStays
  <2>3. ASSUME NEW q \in Reader
        PROVE  StatusOf(q)' = StatusOf(q) /\ TakenBy(q)' = TakenBy(q) /\ AnswerOf(q)' = AnswerOf(q)
    <3>1. CASE q = p
      <4>1. pc[p] \in {"release", "navigate"} /\ pc'[p] = "navigate"
        BY <1>0, <1>8 DEF Release, ReadLeaf, TypeOK
      <4> QED
        BY <2>1, <3>1, <4>1 DEF StatusOf, TakenBy, AnswerOf
    <3>2. CASE q # p
      <4>1. pc'[q] = pc[q] /\ seen'[q] = seen[q] /\ held'[q] = held[q]
        BY <1>0, <1>8, <3>2 DEF Release, ReadLeaf, TypeOK
      <4> QED
        BY <4>1, StandsStill
    <3> QED
      BY <3>1, <3>2
  <2> QED
    BY <2>2, <2>3 DEF Atomic!atomicVars
<1>9. ASSUME Next, NEW p \in Reader, EndNavigation(p) PROVE Atomic!AtomicNext
  <2>1. /\ pc[p] = "navigate" /\ pc'[p] = "return"
        /\ UNCHANGED <<tree, heap, seen>>
        /\ held[p] \in TreeId /\ held'[p] = NoTree
    BY <1>0, <1>9 DEF EndNavigation, PointerInv, TypeOK
  <2>2. \A q \in Reader \ {p} : pc'[q] = pc[q] /\ held'[q] = held[q]
    BY <1>0, <1>9 DEF EndNavigation, TypeOK
  <2>3. seen[p] = heap[held[p]]
    <3>1. \A l \in Leaf : seen[p][l] = heap[held[p]][l]
      BY <1>0, <1>9, <2>1 DEF EndNavigation, Full, SeenInv
    <3>2. /\ seen[p] \in [Leaf -> LeafValue \cup {Unset}]
          /\ heap[held[p]] \in [Leaf -> LeafValue \cup {Unset}]
      BY <1>0, <2>1 DEF TypeOK
    <3> QED
      BY <3>1, <3>2
  <2>4. /\ StatusOf(p) = "chosen" /\ StatusOf(p)' = "answered"
        /\ TakenBy(p)' = NoTree
    BY <2>1 DEF StatusOf, TakenBy
  <2>5. AnswerOf(p)' = TakenBy(p)
    BY <2>1, <2>3, SentinelAssumption DEF AnswerOf, TakenBy
  <2>6. OnlyReader(p)
    BY <1>9, <2>1, <2>2, RefineReader
  <2>7. Atomic!Respond(p)
    BY <2>6, <2>4, <2>5 DEF Atomic!Respond, OnlyReader
  <2> QED
    BY <2>7 DEF Atomic!AtomicNext
<1>10. ASSUME Next, NEW p \in Reader, FinishRead(p) PROVE Atomic!AtomicNext
  <2>1. /\ pc[p] = "return" /\ pc'[p] = "idle"
        /\ UNCHANGED <<tree, heap, held>>
    BY <1>0, <1>10 DEF FinishRead, TypeOK
  <2>2. \A q \in Reader \ {p} : pc'[q] = pc[q] /\ seen'[q] = seen[q]
    BY <1>0, <1>10 DEF FinishRead, TypeOK
  <2>3. /\ StatusOf(p) = "answered" /\ StatusOf(p)' = "idle"
        /\ TakenBy(p)' = TakenBy(p)
        /\ AnswerOf(p)' = NoTree
    BY <2>1 DEF StatusOf, TakenBy, AnswerOf
  <2>4. OnlyReader(p)
    BY <1>10, <2>1, <2>2, RefineReader
  <2>5. Atomic!Finish(p)
    BY <2>4, <2>3 DEF Atomic!Finish, OnlyReader
  <2> QED
    BY <2>5 DEF Atomic!AtomicNext
<1> QED
  BY NextCases, <1>1, <1>2, <1>3, <1>4, <1>5, <1>6, <1>7, <1>8, <1>9, <1>10

\* A read that overlaps refreshes answers from one tree, active at some
\* instant of the read.
THEOREM NoTornReadHolds == Spec => NoTornRead
<1>1. Init => Atomic!AtomicInit
  BY RefineInit
<1>2. IInv /\ [Next]_vars => [Atomic!AtomicNext]_(Atomic!atomicVars)
  BY RefineStep
<1> QED
  BY <1>1, <1>2, Invariance, PTL DEF Spec, NoTornRead, Atomic!AtomicSpec

-----------------------------------------------------------------------------
(* With a single goroutine refreshing.                                     *)

\* What the active tree holds is no newer than the walk under way.
WalkNewer ==
    \A r \in Refresher : mine[r] # NoTree /\ tree # NoTree =>
        \A l \in Leaf : heap[tree][l] \in SecretValue =>
            heap[tree][l].version <= born[mine[r]][ObjectOf[heap[tree][l].key]]

LEMMA WalkNewerStep ==
    ASSUME \A r, s \in Refresher : r = s, IInv, WalkNewer, [Next]_vars
    PROVE  WalkNewer'
<1> SUFFICES ASSUME NEW r \in Refresher, mine'[r] # NoTree, tree' # NoTree,
                    NEW l \in Leaf, heap'[tree'][l] \in SecretValue
             PROVE  heap'[tree'][l].version
                       <= born'[mine'[r]][ObjectOf[heap'[tree'][l].key]]
  BY DEF WalkNewer
<1> USE ProcessSets DEF treeVars
<1>0. TypeOK /\ ControlInv /\ PointerInv /\ ActiveInv
  BY DEF IInv
<1>1. ASSUME NEW s \in Refresher, FinishLoad(s) \/ Swap(s)
      PROVE  FALSE
  BY <1>0, <1>1 DEF FinishLoad, Swap, TypeOK
<1>2. ASSUME NEW s \in Refresher, StartLoad(s) \/ ReadOriginal(s)
      PROVE  heap'[tree'][l].version
                <= born'[mine'[r]][ObjectOf[heap'[tree'][l].key]]
  <2>1. s = r /\ BeginWalk(r) /\ tree' = tree
    BY <1>2 DEF StartLoad, ReadOriginal, BeginWalk
  <2>2. born'[mine'[r]] = version
    BY <1>0, <2>1 DEF BeginWalk, Free, TypeOK
  <2>3. tree \in Shared
    BY <1>0, <2>1 DEF Shared, TypeOK
  <2>4. heap'[tree] = heap[tree]
    BY <1>0, <2>3, SharedKept
  <2> QED
    BY <1>0, <2>1, <2>2, <2>4 DEF ActiveInv, Sound, WithinWalk
<1>3. ASSUME tree' = tree, mine'[r] = mine[r], born' = born
      PROVE  heap'[tree'][l].version
                <= born'[mine'[r]][ObjectOf[heap'[tree'][l].key]]
  <2>1. tree \in Shared
    BY <1>0, <1>3 DEF Shared, TypeOK
  <2>2. heap'[tree] = heap[tree]
    BY <1>0, <2>1, SharedKept
  <2> QED
    BY <1>3, <2>2 DEF WalkNewer
<1>4. CASE UNCHANGED vars
  BY <1>3, <1>4 DEF vars
<1>5. ASSUME NEW s \in Refresher,
             \/ StartRefresh(s) \/ AwaitLock(s) \/ FinishRefresh(s) \/ Cancel(s)
      PROVE  tree' = tree /\ mine'[r] = mine[r] /\ born' = born
  BY <1>5 DEF StartRefresh, AwaitLock, FinishRefresh, Cancel
<1>6. ASSUME NEW s \in Refresher, NEW m \in Leaf, ResolveLeaf(s, m)
      PROVE  tree' = tree /\ mine'[r] = mine[r] /\ born' = born
  BY <1>0, <1>6 DEF ResolveLeaf, FromCache, FromSource, FromDefault, Abandon, TypeOK
<1>7. ASSUME NEW p \in Reader,
             \/ StartRead(p) \/ TakeTree(p) \/ Release(p)
             \/ EndNavigation(p) \/ FinishRead(p)
             \/ \E m \in Leaf : ReadLeaf(p, m)
      PROVE  tree' = tree /\ mine'[r] = mine[r] /\ born' = born
  BY <1>7 DEF StartRead, TakeTree, Release, EndNavigation, FinishRead, ReadLeaf
<1>8. ASSUME \/ \E o \in Object : Rotate(o) \/ Outage(o)
             \/ Tick
      PROVE  tree' = tree /\ mine'[r] = mine[r] /\ born' = born
  BY <1>8 DEF Rotate, Outage, Tick
<1> QED
  BY NextCases, <1>1, <1>2, <1>3, <1>4, <1>5, <1>6, <1>7, <1>8

LEMMA SwapGoesForward ==
    ASSUME IInv, WalkNewer, [Next]_vars, tree # NoTree, NEW l \in Leaf,
           heap[tree][l] \in SecretValue, heap'[tree'][l] \in SecretValue
    PROVE  heap[tree][l].version <= heap'[tree'][l].version
<1> USE ProcessSets DEF treeVars
<1>0. TypeOK /\ ControlInv /\ PointerInv /\ ActiveInv /\ WalkInv
  BY DEF IInv
<1>1. CASE tree' = tree
  <2>1. tree \in Shared
    BY <1>0 DEF Shared, TypeOK
  <2>2. heap'[tree] = heap[tree]
    BY <1>0, <2>1, SharedKept
  <2> QED
    BY <1>1, <2>2 DEF SecretValue
<1>2. ASSUME NEW r \in Refresher, FinishLoad(r) \/ Swap(r)
      PROVE  heap[tree][l].version <= heap'[tree'][l].version
  <2>1. mine[r] \in TreeId /\ tree' = mine[r] /\ heap' = heap
    BY <1>0, <1>2 DEF FinishLoad, Swap, PointerInv, TypeOK
  <2> DEFINE old == heap[tree][l]  new == heap[mine[r]][l]
  <2>2. old.key = KeyOf[l] /\ new.key = KeyOf[l] /\ new \in SecretValue
    <3>1. new \in SecretValue
      BY <2>1
    <3>2. Sound(tree) /\ Sound(mine[r])
      BY <1>0, <2>1 DEF ActiveInv, WalkInv, TypeOK
    <3>3. old # Unset /\ new # Unset /\ old # Fallback /\ new # Fallback
      BY <3>1 DEF LeafValue
    <3> QED
      BY <3>1, <3>2, <3>3 DEF Sound, Admissible
  <2>3. born[mine[r]][ObjectOf[new.key]] <= new.version
    BY <1>0, <2>1, <2>2 DEF WalkInv, Sound, WithinWalk
  <2>4. old.version <= born[mine[r]][ObjectOf[old.key]]
    BY <2>1 DEF WalkNewer
  <2>5. /\ old.version \in Nat /\ new.version \in Nat
        /\ born[mine[r]][ObjectOf[KeyOf[l]]] \in Nat
    BY <1>0, <2>1, <2>2 DEF SecretValue, TypeOK
  <2> QED
    BY <2>1, <2>2, <2>3, <2>4, <2>5
<1>3. tree' # tree => \E r \in Refresher : FinishLoad(r) \/ Swap(r)
  BY NextCases DEF StartLoad, ReadOriginal, BeginWalk, StartRefresh, AwaitLock,
       FinishRefresh, Cancel, ResolveLeaf, StartRead, TakeTree, Release,
       EndNavigation, FinishRead, ReadLeaf, Rotate, Outage, Tick, vars
<1> QED
  BY <1>1, <1>2, <1>3

\* With one goroutine refreshing, no refresh takes a secret back to an older
\* version; with two it can happen (run refresh_undone).
THEOREM SoleRefresherForward ==
    ASSUME \A r, s \in Refresher : r = s
    PROVE  Spec => RefreshNotUndone
<1>1. Init => WalkNewer
  BY DEF Init, WalkNewer
<1>2. IInv /\ WalkNewer /\ [Next]_vars => WalkNewer'
  BY WalkNewerStep
<1>3. IInv /\ WalkNewer /\ [Next]_vars =>
         [tree # NoTree =>
            \A l \in Leaf :
                LET old == heap[tree][l]  new == heap'[tree'][l] IN
                old \in SecretValue /\ new \in SecretValue
                    => old.version <= new.version]_<<tree, heap>>
  BY SwapGoesForward
<1> QED
  BY <1>1, <1>2, <1>3, Invariance, PTL DEF Spec, RefreshNotUndone
=============================================================================
