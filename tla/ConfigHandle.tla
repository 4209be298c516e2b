---------------------------- MODULE ConfigHandle ----------------------------
(***************************************************************************)
(* The Config handle (src/config.go): LoadFrom resolves every secret       *)
(* reference of the merged tree, RefreshSecrets resolves them again while  *)
(* readers run, and Get* / Snapshot read the tree under mu.                *)
(*                                                                         *)
(* Trees are heap objects, reached through pointers and shared without     *)
(* copying: the walk fills a tree leaf by leaf, the field c.tree and every *)
(* reader hold a pointer.  Only the leaves that are secret references are  *)
(* modelled; all other leaves of the original tree are carried over as     *)
(* they are.                                                               *)
(***************************************************************************)
EXTENDS Naturals, RWMutex

CONSTANTS
    Leaf,         \* the secret references of the merged tree
    Key,          \* cache keys: scheme ":" path, with its #field
    Object,       \* the backend objects the keys are fields of
    KeyOf,        \* [Leaf -> Key]
    ObjectOf,     \* [Key -> Object]
    Registered,   \* the keys whose scheme has a SecretSource
    RawError,     \* the keys whose source fails with an error that is no *Error
    Defaulted,    \* the references with a :-default
    Ttl,          \* [Key -> Nat]: lifetime of a resolved value, 0 for no expiry
    Refresher,    \* the goroutines that call LoadFrom and RefreshSecrets
    Getter,       \* the goroutines that call the Get* family
    Auditor,      \* the goroutines that call Snapshot(WithIncludeSecrets())
    TreeId,       \* heap addresses
    NoTree,       \* the nil pointer
    Unset,        \* a key the walk has not added to the tree yet
    Fallback,     \* the default literal of the reference
    NoEntry,      \* a key absent from the walk's cache
    Flaky,        \* the objects whose backend may be unreachable for a while
    Impatient,    \* the refreshers whose ctx may be cancelled during the walk
    MaxVersion,   \* bound: versions an object is rotated through
    MaxTime       \* bound: the last instant of the clock

Reader == Getter \cup Auditor
Process == Refresher \cup Reader

\* The resolved value of a key: the object version it was read from and the
\* instant it expires (0, the zero time, for never).
SecretValue == [key : Key, version : Nat, until : Nat]
LeafValue == SecretValue \cup {Fallback}

ASSUME KeysAssumption ==
    /\ KeyOf \in [Leaf -> Key]
    /\ ObjectOf \in [Key -> Object]
    /\ Ttl \in [Key -> Nat]
    /\ Registered \subseteq Key
    /\ RawError \subseteq Registered
    /\ Defaulted \subseteq Leaf
    /\ Flaky \subseteq Object

ASSUME ProcessAssumption ==
    /\ Refresher \cap Reader = {}
    /\ Getter \cap Auditor = {}
    /\ NoProcess \notin Process

ASSUME SentinelAssumption ==
    /\ NoTree \notin TreeId
    /\ NoTree \notin [Leaf -> LeafValue \cup {Unset}]
    /\ Unset \notin LeafValue
    /\ Fallback \notin SecretValue
    /\ NoEntry \notin SecretValue

ASSUME BoundAssumption == MaxVersion \in Nat /\ MaxTime \in Nat

VARIABLES
    tree,      \* c.tree
    heap,      \* the trees: [TreeId -> [Leaf -> LeafValue or Unset]]
    pc,        \* where each goroutine stands in its call
    mine,      \* the tree a refresher's walk is filling
    cache,     \* the walk's dedup cache
    live,      \* the caller's ctx is not cancelled
    held,      \* the tree pointer a reader took
    seen,      \* the leaves a reader has read
    version,   \* backend: the latest version of each object
    up,        \* backend: reads of the object succeed
    now,       \* the clock
    born       \* history: the object versions when each tree's walk began

treeVars == <<tree, heap, mine, born>>
readVars == <<held, seen>>
backendVars == <<version, up, now>>
vars == <<lockVars, treeVars, pc, cache, live, readVars, backendVars>>

Blank == [l \in Leaf |-> Unset]
EmptyCache == [k \in Key |-> NoEntry]
Full(t) == \A l \in Leaf : t[l] # Unset

Init ==
    /\ LockInit
    /\ tree = NoTree
    /\ heap = [id \in TreeId |-> Blank]
    /\ born = [id \in TreeId |-> [o \in Object |-> 0]]
    /\ pc = [p \in Process |-> "idle"]
    /\ mine = [r \in Refresher |-> NoTree]
    /\ cache = [r \in Refresher |-> EmptyCache]
    /\ live = [r \in Refresher |-> TRUE]
    /\ held = [p \in Reader |-> NoTree]
    /\ seen = [p \in Reader |-> Blank]
    /\ version = [o \in Object |-> 1]
    /\ up = [o \in Object |-> TRUE]
    /\ now = 1

-----------------------------------------------------------------------------
(* The resolution walk, shared by LoadFrom and RefreshSecrets.             *)

Walking(r) == pc[r] \in {"load", "walk"}

\* A tree nothing points to: what the allocator may return.
Free == {id \in TreeId : /\ id # tree
                         /\ \A r \in Refresher : mine[r] # id
                         /\ \A p \in Reader : held[p] # id}

\* Mutants of BeginWalk: a cache that outlives its walk; a cache never made;
\* a walk that resolves in place, in the active tree; one that fills a pooled
\* tree without clearing it.
BeginWalkKeepingCache(r) ==
    \E id \in Free :
        /\ mine' = [mine EXCEPT ![r] = id]
        /\ heap' = [heap EXCEPT ![id] = Blank]
        /\ born' = [born EXCEPT ![id] = version]
        /\ UNCHANGED <<tree, cache>>
BeginWalkNilCache(r) ==
    \E id \in Free :
        /\ mine' = [mine EXCEPT ![r] = id]
        /\ heap' = [heap EXCEPT ![id] = Blank]
        /\ born' = [born EXCEPT ![id] = version]
        /\ cache' = [cache EXCEPT ![r] = NoEntry]
        /\ UNCHANGED tree
BeginWalkInPlace(r) ==
    \E id \in IF tree = NoTree THEN Free ELSE {tree} :
        /\ mine' = [mine EXCEPT ![r] = id]
        /\ heap' = [heap EXCEPT ![id] = Blank]
        /\ born' = [born EXCEPT ![id] = version]
        /\ cache' = [cache EXCEPT ![r] = EmptyCache]
        /\ UNCHANGED tree

BeginWalkPooled(r) ==
    \E id \in Free :
        /\ mine' = [mine EXCEPT ![r] = id]
        /\ cache' = [cache EXCEPT ![r] = EmptyCache]
        /\ UNCHANGED <<tree, heap, born>>

\* resolveSecretRefs begins: an empty cache and a new, empty tree.
BeginWalk(r) ==
    \E id \in Free :
        /\ mine' = [mine EXCEPT ![r] = id]
        /\ heap' = [heap EXCEPT ![id] = Blank]
        /\ born' = [born EXCEPT ![id] = version]
        /\ cache' = [cache EXCEPT ![r] = EmptyCache]
        /\ UNCHANGED tree

IsExpired(until) == until # 0 /\ now >= until

\* Mutant: the expiry test inverted.
CacheHitIfExpired(r, k) == cache[r][k] # NoEntry /\ IsExpired(cache[r][k].until)
CacheHit(r, k) == cache[r][k] # NoEntry /\ ~IsExpired(cache[r][k].until)

\* SecretSource.Resolve: the latest value of the key, unless the backend
\* refuses it or the ctx is cancelled.
Available(r, k) == up[ObjectOf[k]] /\ live[r]
Resolution(k) ==
    [key |-> k,
     version |-> version[ObjectOf[k]],
     until |-> IF Ttl[k] = 0 THEN 0 ELSE now + Ttl[k]]

\* A failure the default may stand in for: a *Error, not any other error.
IsConfigError(r, k) == ~Available(r, k) /\ k \notin RawError

SetLeaf(r, l, v) == heap' = [heap EXCEPT ![mine[r]][l] = v]

FromCache(r, l) ==
    /\ CacheHit(r, KeyOf[l])
    /\ SetLeaf(r, l, cache[r][KeyOf[l]])
    /\ UNCHANGED <<lockVars, pc, mine, cache>>

FromSource(r, l) ==
    /\ ~CacheHit(r, KeyOf[l])
    /\ KeyOf[l] \in Registered
    /\ Available(r, KeyOf[l])
    /\ SetLeaf(r, l, Resolution(KeyOf[l]))
    /\ cache' = [cache EXCEPT ![r][KeyOf[l]] = Resolution(KeyOf[l])]
    /\ UNCHANGED <<lockVars, pc, mine>>

\* Mutant: errors are swallowed whether or not there is a default.
SubstitutableAlways(r, l) ==
    /\ ~CacheHit(r, KeyOf[l])
    /\ KeyOf[l] \in Registered => IsConfigError(r, KeyOf[l])

\* The default stands in for an unregistered scheme and for a *Error.
Substitutable(r, l) ==
    /\ ~CacheHit(r, KeyOf[l])
    /\ l \in Defaulted
    /\ KeyOf[l] \in Registered => IsConfigError(r, KeyOf[l])

FromDefault(r, l) ==
    /\ Substitutable(r, l)
    /\ SetLeaf(r, l, Fallback)
    /\ UNCHANGED <<lockVars, pc, mine, cache>>

\* Nothing to stand in: the walk is abandoned and its call returns an error.
Unresolvable(r, l) ==
    /\ ~CacheHit(r, KeyOf[l])
    /\ KeyOf[l] \in Registered => ~Available(r, KeyOf[l])
    /\ ~Substitutable(r, l)

Abandon(r) ==
    /\ pc' = [pc EXCEPT ![r] = "idle"]
    /\ mine' = [mine EXCEPT ![r] = NoTree]
    /\ UNCHANGED <<lockVars, heap, cache>>

\* One step of walkResolve: maps are walked in no particular order.
ResolveLeaf(r, l) ==
    /\ Walking(r)
    /\ heap[mine[r]][l] = Unset
    /\ \/ FromCache(r, l)
       \/ FromSource(r, l)
       \/ FromDefault(r, l)
       \/ Unresolvable(r, l) /\ Abandon(r)
    /\ UNCHANGED <<tree, born, live, readVars, backendVars>>

-----------------------------------------------------------------------------
(* LoadFrom, after its sources are merged: the handle does not exist yet,  *)
(* so nothing is locked.                                                   *)

StartLoad(r) ==
    /\ tree = NoTree
    /\ \A s \in Refresher : pc[s] = "idle"
    /\ BeginWalk(r)
    /\ pc' = [pc EXCEPT ![r] = "load"]
    /\ live' = [live EXCEPT ![r] = TRUE]
    /\ UNCHANGED <<lockVars, readVars, backendVars>>

FinishLoad(r) ==
    /\ pc[r] = "load"
    /\ Full(heap[mine[r]])
    /\ tree' = mine[r]
    /\ pc' = [pc EXCEPT ![r] = "idle"]
    /\ mine' = [mine EXCEPT ![r] = NoTree]
    /\ UNCHANGED <<lockVars, heap, born, cache, live, readVars, backendVars>>

(* RefreshSecrets.                                                         *)

StartRefresh(r) ==
    /\ tree # NoTree
    /\ pc[r] = "idle"
    /\ RLock(r)
    /\ pc' = [pc EXCEPT ![r] = "original"]
    /\ live' = [live EXCEPT ![r] = TRUE]
    /\ UNCHANGED <<treeVars, cache, readVars, backendVars>>

\* originalTree and secretSources, which never change, are read under the
\* read lock; the walk then runs without it.
ReadOriginal(r) ==
    /\ pc[r] = "original"
    /\ RUnlock(r)
    /\ BeginWalk(r)
    /\ pc' = [pc EXCEPT ![r] = "walk"]
    /\ UNCHANGED <<live, readVars, backendVars>>

AwaitLock(r) ==
    /\ pc[r] = "walk"
    /\ Full(heap[mine[r]])
    /\ Announce(r)
    /\ pc' = [pc EXCEPT ![r] = "swap"]
    /\ UNCHANGED <<treeVars, cache, live, readVars, backendVars>>

Swap(r) ==
    /\ pc[r] = "swap"
    /\ Locked(r)
    /\ tree' = mine[r]
    /\ pc' = [pc EXCEPT ![r] = "unlock"]
    /\ mine' = [mine EXCEPT ![r] = NoTree]
    /\ UNCHANGED <<lockVars, heap, born, cache, live, readVars, backendVars>>

FinishRefresh(r) ==
    /\ pc[r] = "unlock"
    /\ Unlock(r)
    /\ pc' = [pc EXCEPT ![r] = "idle"]
    /\ UNCHANGED <<treeVars, cache, live, readVars, backendVars>>

-----------------------------------------------------------------------------
(* Readers.  A Get* call copies the pointer under the read lock and follows *)
(* it afterwards; Snapshot holds the read lock until it has copied the tree.*)

StartRead(p) ==
    /\ tree # NoTree
    /\ pc[p] = "idle"
    /\ RLock(p)
    /\ pc' = [pc EXCEPT ![p] = "take"]
    /\ UNCHANGED <<treeVars, cache, live, readVars, backendVars>>

TakeTree(p) ==
    /\ pc[p] = "take"
    /\ p \in readers
    /\ held' = [held EXCEPT ![p] = tree]
    /\ pc' = [pc EXCEPT ![p] = IF p \in Getter THEN "release" ELSE "navigate"]
    /\ UNCHANGED <<lockVars, treeVars, cache, live, seen, backendVars>>

Release(p) ==
    /\ pc[p] = "release"
    /\ RUnlock(p)
    /\ pc' = [pc EXCEPT ![p] = "navigate"]
    /\ UNCHANGED <<treeVars, cache, live, readVars, backendVars>>

\* Mutant: every leaf is looked up through the handle again.
ReadLeafThroughHandle(p, l) ==
    /\ pc[p] = "navigate"
    /\ seen[p][l] = Unset
    /\ seen' = [seen EXCEPT ![p][l] = heap[tree][l]]
    /\ UNCHANGED <<lockVars, treeVars, pc, cache, live, held, backendVars>>

ReadLeaf(p, l) ==
    /\ pc[p] = "navigate"
    /\ seen[p][l] = Unset
    /\ seen' = [seen EXCEPT ![p][l] = heap[held[p]][l]]
    /\ UNCHANGED <<lockVars, treeVars, pc, cache, live, held, backendVars>>

EndNavigation(p) ==
    /\ pc[p] = "navigate"
    /\ Full(seen[p])
    /\ IF p \in Auditor THEN RUnlock(p) ELSE UNCHANGED lockVars
    /\ held' = [held EXCEPT ![p] = NoTree]
    /\ pc' = [pc EXCEPT ![p] = "return"]
    /\ UNCHANGED <<treeVars, cache, live, seen, backendVars>>

FinishRead(p) ==
    /\ pc[p] = "return"
    /\ pc' = [pc EXCEPT ![p] = "idle"]
    /\ seen' = [seen EXCEPT ![p] = Blank]
    /\ UNCHANGED <<lockVars, treeVars, cache, live, held, backendVars>>

-----------------------------------------------------------------------------
(* The callers' ctx, the secret backend and the clock.                     *)

Cancel(r) ==
    /\ r \in Impatient
    /\ Walking(r)
    /\ live[r]
    /\ live' = [live EXCEPT ![r] = FALSE]
    /\ UNCHANGED <<lockVars, treeVars, pc, cache, readVars, backendVars>>

Rotate(o) ==
    /\ version[o] < MaxVersion
    /\ version' = [version EXCEPT ![o] = @ + 1]
    /\ UNCHANGED <<lockVars, treeVars, pc, cache, live, readVars, up, now>>

\* The backend of an object becomes unreachable, or reachable again.
Outage(o) ==
    /\ o \in Flaky
    /\ up' = [up EXCEPT ![o] = ~@]
    /\ UNCHANGED <<lockVars, treeVars, pc, cache, live, readVars, version, now>>

Tick ==
    /\ now < MaxTime
    /\ now' = now + 1
    /\ UNCHANGED <<lockVars, treeVars, pc, cache, live, readVars, version, up>>

Environment ==
    \/ \E r \in Refresher : Cancel(r)
    \/ \E o \in Object : Rotate(o) \/ Outage(o)
    \/ Tick

RefresherStep(r) ==
    \/ StartLoad(r) \/ FinishLoad(r)
    \/ StartRefresh(r) \/ ReadOriginal(r)
    \/ \E l \in Leaf : ResolveLeaf(r, l)
    \/ AwaitLock(r) \/ Swap(r) \/ FinishRefresh(r)

ReaderStep(p) ==
    \/ StartRead(p) \/ TakeTree(p) \/ Release(p)
    \/ \E l \in Leaf : ReadLeaf(p, l)
    \/ EndNavigation(p) \/ FinishRead(p)

Next ==
    \/ \E r \in Refresher : RefresherStep(r)
    \/ \E p \in Reader : ReaderStep(p)
    \/ Environment

Spec == Init /\ [][Next]_vars

(* Fairness.  Every goroutine that is inside a call keeps running, and     *)
(* sync.Mutex hands over to the goroutine that has waited longest (its     *)
(* starvation mode), hence strong fairness of AwaitLock.  Nothing makes a  *)
(* goroutine start a call, and nothing is assumed of the environment.      *)
Fairness ==
    /\ \A r \in Refresher :
          /\ WF_vars(FinishLoad(r))
          /\ WF_vars(ReadOriginal(r))
          /\ WF_vars(\E l \in Leaf : ResolveLeaf(r, l))
          /\ SF_vars(AwaitLock(r))
          /\ WF_vars(Swap(r))
          /\ WF_vars(FinishRefresh(r))
    /\ \A p \in Reader :
          /\ WF_vars(TakeTree(p))
          /\ WF_vars(Release(p))
          /\ WF_vars(\E l \in Leaf : ReadLeaf(p, l))
          /\ WF_vars(EndNavigation(p))
          /\ WF_vars(FinishRead(p))

FairSpec == Spec /\ Fairness

-----------------------------------------------------------------------------
(* Properties.                                                             *)

TypeOK ==
    /\ writer \in Refresher \cup {NoProcess}
    /\ readers \subseteq Process
    /\ waiting \subseteq Process
    /\ tree \in TreeId \cup {NoTree}
    /\ heap \in [TreeId -> [Leaf -> LeafValue \cup {Unset}]]
    /\ born \in [TreeId -> [Object -> Nat]]
    /\ pc \in [Process -> {"idle", "load", "original", "walk", "swap", "unlock",
                           "take", "release", "navigate", "return"}]
    /\ mine \in [Refresher -> TreeId \cup {NoTree}]
    /\ cache \in [Refresher -> [Key -> SecretValue \cup {NoEntry}]]
    /\ live \in [Refresher -> BOOLEAN]
    /\ held \in [Reader -> TreeId \cup {NoTree}]
    /\ seen \in [Reader -> [Leaf -> LeafValue \cup {Unset}]]
    /\ version \in [Object -> Nat]
    /\ up \in [Object -> BOOLEAN]
    /\ now \in Nat

\* What reference l may resolve to.
Admissible(l, v) ==
    \/ v = Fallback /\ l \in Defaulted
    \/ v \in SecretValue /\ v.key = KeyOf[l] /\ v.key \in Registered

\* The trees a caller may be shown: every reference resolved.
Complete == {t \in [Leaf -> LeafValue] : \A l \in Leaf : Admissible(l, t[l])}

\* A failed or unfinished walk is never shown: the active tree is complete
\* (config.go:391-397, "on failure the previously resolved tree remains").
PublishedComplete == tree # NoTree => heap[tree] \in Complete

\* No value is carried over from an earlier walk: what the active tree holds
\* was the latest version at some instant since the walk that built it began
\* (config.go:185, the cache lives as long as one walk).
NoStaleCarryOver ==
    tree # NoTree =>
        \A l \in Leaf :
            LET v == heap[tree][l] IN
            v \in SecretValue =>
                /\ born[tree][ObjectOf[v.key]] <= v.version
                /\ v.version <= version[ObjectOf[v.key]]

\* Two references to the same key resolve alike within one tree, unless the
\* value expired between them (config.go:243-249).
AgreeUnlessExpired(t) ==
    \A l, m \in Leaf :
        /\ KeyOf[l] = KeyOf[m]
        /\ t[l] \in SecretValue /\ t[m] \in SecretValue
        /\ t[l] # t[m]
        => IsExpired(t[l].until) \/ IsExpired(t[m].until)
SameKeyAgree == tree # NoTree => AgreeUnlessExpired(heap[tree])

\* The field c.tree is never written while another goroutine may read or
\* write it: a data race would be undefined behaviour (config.go:357-361,
\* 395-397, 470-474).
NoRaceOnTree ==
    \A r \in Refresher :
        pc[r] = "unlock" => /\ readers = {}
                            /\ \A s \in Refresher \ {r} : pc[s] # "unlock"

\* "Tree maps and slices are treated as read-only after assignment"
\* (config.go:465-469): no step changes the active tree, nor a tree a reader
\* still follows, although readers hold no lock by then.
Shared == {id \in TreeId : id = tree \/ \E p \in Reader : held[p] = id}
PublishedImmutable == [][\A id \in Shared : heap'[id] = heap[id]]_vars

\* RefreshSecrets is documented as the hook for manual rotation, "atomic from
\* the caller's perspective" (config.go:366-381): a secret that a refresh has
\* brought up to date does not fall back to an older version.
RefreshNotUndone ==
    [][tree # NoTree =>
         \A l \in Leaf :
             LET old == heap[tree][l]  new == heap'[tree'][l] IN
             old \in SecretValue /\ new \in SecretValue
                 => old.version <= new.version]_<<tree, heap>>

\* Every call returns: refreshes are not starved by readers, nor readers by
\* refreshes.
RefreshReturns == \A r \in Refresher : pc[r] # "idle" ~> pc[r] = "idle"
ReadReturns == \A p \in Reader : pc[p] # "idle" ~> pc[p] = "idle"

-----------------------------------------------------------------------------
(* The inductive invariant behind the safety properties, in parts.         *)

\* Which goroutine can be where, and what exists before LoadFrom returns.
ControlInv ==
    /\ \A r \in Refresher :
          pc[r] \in {"idle", "load", "original", "walk", "swap", "unlock"}
    /\ \A p \in Reader : pc[p] \in {"idle", "take", "release", "navigate", "return"}
    /\ \A r \in Refresher :
          pc[r] = "load" => /\ tree = NoTree
                            /\ \A s \in Refresher \ {r} : pc[s] = "idle"
    /\ tree = NoTree => /\ \A r \in Refresher : pc[r] \in {"idle", "load"}
                        /\ \A p \in Reader : pc[p] = "idle"

\* The writer is the refresher that is swapping; a writer inside is alone.
LockInv ==
    /\ \A r \in Refresher : writer = r <=> pc[r] \in {"swap", "unlock"}
    /\ \A r \in Refresher : pc[r] = "unlock" => readers = {}

\* Nobody else points to the tree a walk is filling.
PointerInv ==
    /\ \A r \in Refresher : mine[r] # NoTree <=> pc[r] \in {"load", "walk", "swap"}
    /\ \A r \in Refresher : mine[r] # NoTree =>
          /\ mine[r] # tree
          /\ \A s \in Refresher \ {r} : mine[s] # mine[r]
          /\ \A p \in Reader : held[p] # mine[r]
    /\ \A p \in Reader : held[p] # NoTree <=> pc[p] \in {"release", "navigate"}

\* What a tree may hold: admissible values, read since its walk began.
WithinWalk(id, v) ==
    /\ born[id][ObjectOf[v.key]] <= v.version
    /\ v.version <= version[ObjectOf[v.key]]
Sound(id) ==
    /\ \A o \in Object : born[id][o] <= version[o]
    /\ \A l \in Leaf :
          /\ heap[id][l] # Unset => Admissible(l, heap[id][l])
          /\ heap[id][l] \in SecretValue => WithinWalk(id, heap[id][l])

\* The cache of a walk holds values of that walk, and every resolved leaf
\* agrees with it or has expired.
CacheSound(r) ==
    /\ \A k \in Key : cache[r][k] # NoEntry =>
          /\ cache[r][k].key = k
          /\ k \in Registered
          /\ WithinWalk(mine[r], cache[r][k])
    /\ \A l \in Leaf : LET v == heap[mine[r]][l] IN
          v \in SecretValue => v = cache[r][KeyOf[l]] \/ IsExpired(v.until)

WalkInv ==
    \A r \in Refresher : mine[r] # NoTree =>
        /\ Sound(mine[r])
        /\ CacheSound(r)
        /\ AgreeUnlessExpired(heap[mine[r]])
        /\ pc[r] = "swap" => Full(heap[mine[r]])

ActiveInv ==
    tree # NoTree => /\ Sound(tree)
                     /\ Full(heap[tree])
                     /\ AgreeUnlessExpired(heap[tree])

\* What a reader has read is what the tree it took holds.
SeenInv ==
    \A p \in Reader :
        /\ pc[p] = "navigate" =>
              \A l \in Leaf : seen[p][l] \in {Unset, heap[held[p]][l]}
        /\ pc[p] \in {"idle", "take", "release"} => seen[p] = Blank

IInv == /\ TypeOK
        /\ ControlInv
        /\ LockInv
        /\ PointerInv
        /\ WalkInv
        /\ ActiveInv
        /\ SeenInv

-----------------------------------------------------------------------------
(* A reader's progress seen as one atomic read.                            *)
StatusOf(p) ==
    CASE pc[p] = "take" -> "pending"
      [] pc[p] \in {"release", "navigate"} -> "chosen"
      [] pc[p] = "return" -> "answered"
      [] OTHER -> "idle"

ActiveTree == IF tree = NoTree THEN NoTree ELSE heap[tree]
TakenBy(p) == IF held[p] = NoTree THEN NoTree ELSE heap[held[p]]
AnswerOf(p) == IF pc[p] = "return" THEN seen[p] ELSE NoTree

Atomic == INSTANCE AtomicConfig WITH
    Nothing <- NoTree,
    current <- ActiveTree,
    status <- [p \in Reader |-> StatusOf(p)],
    chosen <- [p \in Reader |-> TakenBy(p)],
    answer <- [p \in Reader |-> AnswerOf(p)]

\* A read that overlaps refreshes answers from one tree, active at some
\* instant of the read (config.go:376-381, "never a torn intermediate").
NoTornRead == Atomic!AtomicSpec
=============================================================================
