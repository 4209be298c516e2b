------------------------------ MODULE RWMutex ------------------------------
(***************************************************************************)
(* The readers/writer lock of the Go runtime (sync.RWMutex), as the Config *)
(* handle uses it (field mu, src/config.go:28).  External to the           *)
(* repository: modelled from its documented contract.                      *)
(*                                                                         *)
(*   writer   the goroutine that announced Lock, or NoProcess              *)
(*   readers  the goroutines that hold the read lock                       *)
(*   waiting  the goroutines blocked in RLock                              *)
(*                                                                         *)
(* A pending Lock keeps new readers out, so that readers cannot starve a   *)
(* writer; Unlock admits every blocked reader before another writer can be *)
(* admitted, so that writers cannot starve a reader.                       *)
(***************************************************************************)
CONSTANT NoProcess

VARIABLES writer, readers, waiting

lockVars == <<writer, readers, waiting>>

LockInit ==
    /\ writer = NoProcess
    /\ readers = {}
    /\ waiting = {}

\* Mutant: readers enter past a writer that is waiting or inside.
RLockBarging(p) ==
    /\ readers' = readers \cup {p}
    /\ UNCHANGED <<writer, waiting>>

\* RLock: enter at once unless a writer holds or awaits the lock.
RLock(p) ==
    /\ readers' = IF writer = NoProcess THEN readers \cup {p} ELSE readers
    /\ waiting' = IF writer = NoProcess THEN waiting ELSE waiting \cup {p}
    /\ UNCHANGED writer

RUnlock(p) ==
    /\ p \in readers
    /\ readers' = readers \ {p}
    /\ UNCHANGED <<writer, waiting>>

\* The first half of Lock: exclude other writers and every new reader.
Announce(p) ==
    /\ writer = NoProcess
    /\ writer' = p
    /\ UNCHANGED <<readers, waiting>>

\* Mutant: Lock returns while readers are inside.
LockedAmongReaders(p) == writer = p

\* Lock has returned to p: the readers that were inside have left.
Locked(p) == writer = p /\ readers = {}

\* Mutant: the blocked readers are not admitted.
UnlockStranding(p) ==
    /\ writer = p
    /\ writer' = NoProcess
    /\ UNCHANGED <<readers, waiting>>

Unlock(p) ==
    /\ writer = p
    /\ writer' = NoProcess
    /\ readers' = readers \cup waiting
    /\ waiting' = {}
=============================================================================
