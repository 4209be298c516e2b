# config-go in TLA+

A verification project for DagStack config-go: TLA+ models of the parts of the
library that keep state, race, fail, parse, convert or decide precedence, TLC
runs that check them on small instances, and theorems about the configuration
handle, loading and merging, interpolation and secret references, paths, the
typed getters and the Vault adapter that TLAPS proves for every size.

Line numbers in this file and in the modules refer to the Go files of the
repository (`config.go`, `sources.go`, `vault/source.go`, ...).

## 1. The system

config-go reads layered configuration into one tree and serves it to many
goroutines.

    Load ──► LoadFrom ──► Source.Load* ──► interpolate ──► deepMerge ──► resolveSecretRefs ──► Config
     │ stat siblings        YAML/JSON/dict/user's                          │  SecretSource.Resolve
                                                                           └─ EnvSecretSource, vault.Source
    Config: mu, tree, originalTree, sources, secretSources
      Get*, Has, GetSection, Snapshot   ── readers, under mu.RLock
      RefreshSecrets                    ── walks originalTree again, swaps tree under mu.Lock
      Close, Reload, OnChange*, SourceIDs

| Component | State | Operations | What makes it hard | What makes it correct | Modelled in |
|---|---|---|---|---|---|
| Config handle (`config.go`) | `mu`, `tree`, `originalTree`, `sources`, `secretSources` | LoadFrom, RefreshSecrets, Get*, Snapshot | readers follow a tree pointer after they released the lock; refreshes walk outside the lock | no torn read, no race on `tree`, a failed refresh changes nothing, every call returns | `ConfigHandle`, `RWMutex`, `AtomicConfig` |
| Resolution walk (`config.go:180-288`) | the per-walk cache | resolveSecretRefs, walkResolve, resolveOneRef | the backend rotates, expires and fails between two leaves; defaults hide some errors | complete trees only, nothing from an earlier walk, references to one key agree | `ConfigHandle` |
| Load, LoadFrom (`config.go:35-173`) | the source list, the merged tree | sibling discovery, read loop, merge, resolution | files change between stat and read; one source of several fails | precedence base, local, env; no override is ignored silently | `Loader` |
| Deep merge (`merge.go`) | none | deepMerge | a scalar in a middle layer cuts a map below it | last writer wins at every path | `ConfigTree` |
| Sources (`sources.go`, `source.go`) | the path or tree | Load, Interpolate, Close | stages in an order that matters; a JSON number is a float64 before it is an integer | references are found whatever stage brings them in; one number is one value, in YAML and in JSON | `Loader`, by stages; `Coercion`, a scalar |
| Interpolation (`interpolation.go`) | none | `${VAR}`, `${VAR:-d}`, `$$` | an escape undone before the next stage looks | one reading of the text; unset variables fail the load | `Interpolation`; `Loader`, as one rewriting of an atom |
| Secret grammar (`secret_grammar.go`) | none | parseSecretRef, walkSecretRefs | five splits by scanners of their own, escapes `##`, `??`, `::-`, and a second parser in the adapter | a reference is read as the grammar reads it, and asks the server for that | `SecretGrammar`, `References`; `Loader`, walkSecretRefs |
| Snapshot, masking (`config.go`, `secrets_mask.go`) | the two trees | Snapshot, MaskValue | the masked copy is made of another tree than the full one | they differ in masked secrets only | `Loader` |
| Lifecycle (`config.go:690-709`) | `sources` | Close, Reload | a Close that fails among several; a second Close | every source is visited; repeated calls return nil | `Loader` |
| vault.Source (`vault/source.go`) | the client and its token | NewSource, Resolve, Close | the server changes during a call; many errors to tell apart | an answer was true at an instant of the call | `VaultSource` |
| EnvSecretSource (`secrets.go`) | none | Resolve | set-but-empty differs from `${VAR:-d}` | parity with interpolation | `References` |
| Paths (`paths.go`) | none | parsePath, navigate, formatTraversed | keys that hold a separator; a path built from an error is parsed again | every node has a path; an error names where the walk stopped | `Paths`; `ConfigHandle`, navigate while the tree is replaced |
| Getters, coercion (`config.go:476-672`, `739-827`, `section_coerce.go`) | none | Get, Has, GetInt, ..., GetList, GetSection | integer widths, 2^53 and 2^63 boundaries; two sets of rules for one conversion | a number is returned exactly or refused; a field and its getter agree; a default hides nothing | `Coercion`, `Getters` |
| Canonical JSON (`canonical_json.go`) | none | CanonicalJSON | the type a number was decoded to must not show, its value must | equal trees, and only they, have equal texts | `Canonical` |
| Subscriptions (`subscription.go`, `watch`) | `unsubscribe` | OnChange, Unsubscribe | inactive in this phase of the library; concurrent Unsubscribe | the callback runs once | not modelled |
| Errors, emitters, fixtures, documentation examples | none | pure functions and data | | | not modelled |

The hazards, each at its line and with the properties that cover
it, are in `PROJECT.json`; hazards that no property covers yet say why.

## 2. The modules

`ConfigHandle` EXTENDS `RWMutex` and is shown to implement `AtomicConfig`;
`ConfigHandleProofs` EXTENDS it. `Loader` EXTENDS `ConfigTree`, and `LoaderProofs`
EXTENDS it. `References`
EXTENDS `Interpolation` and `SecretGrammar`, and `ReferencesProofs` EXTENDS it.
`Getters` EXTENDS `Paths` and `Coercion`, and `Canonical` EXTENDS it;
`GettersProofs` EXTENDS `Getters` and `PathsProofs`, and `CanonicalProofs`
EXTENDS `Canonical` and `GettersProofs`. `Tokens` is below all of
these, and `RecursionProofs` below the proofs about recursive functions
(`LoaderProofs`, `PathsProofs`, `ReferencesProofs`, `CanonicalProofs`). `VaultSource`, which `VaultSourceProofs` EXTENDS,
stands on its own: the rest of the library sees it only through the three
outcomes of `SecretSource.Resolve` (a value, a `*Error`, another error), which
is what `ConfigHandle` takes from any secret source. Each has an `MC...` module with the
instances TLC checks. Definitions whose comment says *Mutant* are faulty
variants of the definition that follows them; nothing uses them, each is there
to show that a property notices that fault.

### RWMutex and ConfigHandle

`RWMutex` is `sync.RWMutex` from its contract: `Announce`/`Locked` are the two
halves of `Lock` (keep new readers out; wait for those inside), `Unlock` admits
every blocked reader before another writer. Goroutines that called `RLock`
while a writer was there are in `waiting`.

| Code | Model |
|---|---|
| `c.tree` | `tree`, an address in `heap`; trees are never copied, so sharing and writing in place are visible |
| a goroutine inside LoadFrom, RefreshSecrets, Get*, Snapshot | `pc[p]` |
| the tree a walk builds, its dedup cache | `mine[r]`, `cache[r]` |
| the caller's ctx | `live[r]`, ended by `Cancel` |
| the pointer `currentTree` returned, what navigate has read through it | `held[p]`, `seen[p]` |
| backend, its outages, `time.Now` | `version`, `up`, `now`, moved by `Rotate`, `Outage`, `Tick` |
| `resolveSecretRefs` starts | `BeginWalk`: a tree nobody points to, an empty cache |
| `resolveOneRef` | `ResolveLeaf`: `FromCache`, `FromSource`, `FromDefault` or `Unresolvable` followed by `Abandon` |
| LoadFrom, from its copy of the merged tree on | `StartLoad`, `ResolveLeaf`, `FinishLoad` |
| RefreshSecrets | `StartRefresh`, `ReadOriginal`, `ResolveLeaf`, `AwaitLock`, `Swap`, `FinishRefresh` |
| Get* | `StartRead`, `TakeTree`, `Release`, `ReadLeaf`, `EndNavigation`, `FinishRead` |
| Snapshot(WithIncludeSecrets()) | the same without `Release`: it holds the read lock until it has copied |

Only the leaves that are secret references are in the trees: every other leaf is
carried over from the original tree by every walk and is the same in all of
them. A read visits all leaves, in any order; a Get of one path is a prefix of
that. The garbage collector is `Free`: an address is reused when nothing
points to it. `born` is a history variable.

`AtomicConfig` is the promise of `config.go:376-381` without any lock or
pointer: one complete tree is current, `Install` replaces it, a read chooses
what is current at one instant between its call and its return. `NoTornRead` is
`Atomic!AtomicSpec` under the mapping at the end of `ConfigHandle`: a read
takes effect at `TakeTree`.

### ConfigTree and Loader

`ConfigTree` defines trees, `DeepMerge` after `merge.go`, and a reference that
merges nothing: `IsStackAt(v, layers, above, p)` says which layer decides what
is at path `p`, and `LastWriterWins` compares the two at every path. A map is a
function from all keys, with `Absent` for the keys the Go map does not have;
everything else is an atom, because the merge replaces it as a whole. Where a
path goes on below an atom is `Nowhere`. `Depth` says how deep maps nest: the
code sets no limit, so the theorems hold for every depth, and it is there
because a set of all finite trees has to be built up to some level.

`Loader` is one LoadFrom or Load call on its own goroutine, with files that
`Edit` changes between any two of its steps, followed by Snapshot and up to two
Close calls. The strings of a configuration are the four that the stages tell
apart: plain text, the token `${VAR}`, the text of a reference, and the
SecretRef parsed from one. `Parsed` and `LayerOf` apply the stages in the
order of each kind of source: a file is interpolated, decoded and searched for
references; a dict is searched for references and interpolated by the loader
(when it asks for it); a user's Source is only interpolated. Resolution itself
is a single step with its two outcomes here, because `ConfigHandle` has its
details. A decoder is the state of the file: `Missing`, `Denied`, `Malformed` or a tree.

The model of `Loader` shows three things that no run states as a property and that a reader of the
code should know. A sibling that vanishes between its stat and its read makes
Load fail (`ReadSource`), though `config.go:42-43` calls a missing sibling no
error. A reference that a user's Source returns, or that `${VAR}` brings into a
dict under WithInterpolation, stays text (`Parsed`), though `config.go:107-108`
says that every reference is resolved. And a load that fails leaves the sources
it has read open, with no handle to close them.

### VaultSource

`Authenticate` is NewSource's login; a Resolve is `Call`, `Prepare` (ctx, then
path), `Serve` or `GiveUp`, `Decode`, `Finish`. The server writes and deletes
versions and changes its policy, the token's validity and its reachability
between any two of these steps. `Replies` is the external part: what a KV v2
server and the `api` client can return, including the envelope with null data
that they return for a deleted version. `window` is a history variable: what was true of the
reference at some instant of the call, computed by `Denotes` from the server's
store alone and not from any step of the adapter.

The path a call asks for is already parsed here; `References` has the parser.

### Tokens, Interpolation, SecretGrammar and References

A text is a sequence of tokens: the characters that a parser tells apart, and
names that it does not look into. `Tokens` has what the parsers take from
Go's package `strings`. Scanners are functions over positions, as in the code.
`Char` is the alphabet of texts and variables.

| Code | Model |
|---|---|
| `interpolateString` | `InterpolateString`: mask `$$`, substitute, unmask, with `Mask` for the sentinel bytes |
| `parseSecretRef`, `splitDefault`, `splitField`, `splitQuery`, `decodeQuery` | `ParseSecretRef`, `SplitDefault`, `SplitSingle`, `DecodeQuery`, in the code's order; `DecodedBy` decodes what stands after the `=` of a pair (`InValue`) |
| `convertString` | `ConvertString`: a text, a reference or an error |
| `EnvSecretSource.Resolve` | `EnvResolve` |
| `parseVaultPath` | `ParseVaultPath`, which splits the composed path a second time |
| `resolveOneRef` for one leaf | `Resolve`; a vault read answers or fails |

`References` takes one string leaf through the stages of its kind of source:
file (interpolate, convert, resolve), dict (convert, resolve) and
templated dict (convert, interpolate, resolve). The references it is held
against are written another way than the parsers: `ReadOnce` reads a text with
`$$` and `${}` once from the left, without a sentinel; `Cuttings` is the set of all
ways to cut a body into path, query, field and default that ADR-0002 allows,
found without scanning.

### Paths, Coercion, Getters and Canonical

`Coercion` follows a scalar from the form it is written in (`5`, `+5`, `05`,
`0x5`, `5.0`, `5.5`, `5e0`, a word) through `yaml.v3`, `encoding/json` with
`normaliseJSONIntegers`, or no decoder, to the four typed getters and to a field
of GetSection's target. Integers have widths: `MaxInt` is 2^63-1 and `MaxSafe`
2^53-1. A float64 is a whole number of halves, rounded to the distance that
floats have at its size (`Steps`), ties to the even mantissa, so that large
numbers lose digits as they do in the program. A conversion that Go leaves
undefined is any value of the type (`Conversions`, `DecodedInto`). A field's
value goes through `yaml.Marshal` and `yaml.Unmarshal`: a whole float below
`MaxPlain` (10^6, where `FormatFloat` begins to write an exponent) comes back as
an integer.

`Getters` loads one scalar into a tree and makes one call on it. `Paths` has
`parsePath`, `navigate` and `formatTraversed`; a key is a sequence of tokens and may
hold a separator. The walks are recursive functions over positions, so that
they can be proved about; `Node` is a set of values that holds the trees of the cases
and everything below them, `Levels` how deep `EveryNodeReachable` looks, `MaxIndex` the
largest int. GetSection visits a Go map, whose order is random: the error
it returns is that of any reversed field. `SectionValue` is what a field holds
after a successful call; in a list of scalars `yaml.v3` drops each null and moves
the later elements up (`WithoutNulls`), in a map and in a scalar field a null is
the zero of the type. The target is one whose fields are zero before the call.
`Canonical` adds CanonicalJSON of the handle's tree and of another one. Only that
a float's text has an exponent or a point is modelled, not where. The text is a recursive function over `Node`, `Height` bounds how far it
goes down, and the i-th of the sorted keys is the key with i - 1 keys before it.

## 3. The runs

`CHECK_DEADLOCK FALSE` is set for `Loader` and `VaultSource` only: one call
and its Close calls, or a bounded number of server changes, do come to an end.
Trees, and refreshers where no liveness is checked, are symmetric.

| Run | Instance and bounds | What it shows |
|---|---|---|
| `handle_concurrent` | 2 refreshers, 1 getter, 1 auditor, 2 references to two fields of an object with 2 versions, 4 addresses | `IInv` (the inductive invariant of section 5) and `TypeOK`; `NoRaceOnTree`: `tree` is never written while another goroutine can touch it; `PublishedImmutable`: no step changes the active tree or one a reader follows; `NoTornRead`: the refinement of `AtomicConfig` |
| `handle_walks` | 1 refresher, 4 references: two to one key with a lifetime (one has a default), one to a source that fails with foreign errors, one with no source; outages, cancellation, 2 versions, 4 instants | `PublishedComplete`: a failed or unfinished walk is never shown, and a default only where there is one; `NoStaleCarryOver`: nothing from an earlier walk; `SameKeyAgree`: references to one key agree unless the value expired; `RefreshNotUndone`: a lone refresher never brings an old secret back |
| `handle_progress` | 2 refreshers (one is cancelled), 1 getter, 1 reference | `RefreshReturns`, `ReadReturns`: no refresh starves behind readers, no reader behind refreshes |
| `load_lists` | every stack of up to three dict layers, each any tree over two keys up to three deep; tokens and references in a file, a templated dict and a user's source, the variable unset, plain, itself a reference or itself a token; closers that fail; duplicate schemes | `LastWriterWins` for the merge; `SnapshotMasksSecrets`, `FileReferencesResolved`, `CloseReachesAll`, `CloseReports` |
| `load_siblings` | base, local and env file in every initial state, DAGSTACK_ENV unset, `local` or `prod`, two edits at any moment | `LastWriterWins` for the order of the siblings; `NoSilentSkip`: a sibling may be left out only if it was missing at some instant of the call; `IInv`, the inductive invariant of section 5 |
| `vault_answers` | one client, one object, 2 versions of any fields, `?version=` -1, 0, 1, 2, with and without `#field`, two server changes | `AnswerTruthful`: a value, "denied" or "unresolved" was the case at some instant of the call, and a value carries the version it belongs to; `TypeOK` |
| `references` | references whose body is nothing, a path, or a path and a query, followed by up to 4 pieces out of `a ? # : - = & %23 +`; texts of up to 5 pieces with variables, whole or torn; texts of up to 4 pieces with variables, references, `$$`, `:-` and `::-` inside and beside each other, as file, dict and templated dict; a variable unset, empty, a word or the text of a reference | `OnePass`, `EscapedIsLiteral`, `NoReferenceServed`, `ReadAsWritten`, `VaultReadsAsMeant`, `EnvParity` |
| `values` | `MaxInt` = 15, `MaxSafe` = 7, steps 1 to 16: lexemes of every form at every boundary and on both sides of it, with YAML, JSON and undecoded; 5 target types; every path of up to 4 tokens through 3 trees with lists in lists and keys that hold separators, fields with such keys; indices up to `MaxIndex` = 15; nodes down to `Levels` = 3; the loaded tree with each of some 140 others for the canonical text | `IntIsExact`, `JsonYamlParity`, `NormalisedAnyway`, `SectionMatchesGetter`, `SectionErrorReadsBack`, `ErrorPathReadsBack`, `EveryNodeReachable`, `DefaultOnlyWhenAbsent`, `TextTellsTreesApart` |
| `refresh_undone` (violation) | 2 refreshers, 1 reference, 2 versions | `RefreshNotUndone` fails: a refresh that read the backend before a rotation swaps after one that read it later; both return nil and the old secret is active |
| `sibling_fields` (violation) | 1 refresher, 2 fields of an object, 2 versions | `SiblingFieldsAgree` fails: the cache key holds the `#field`, so the two are read separately and one tree can pair a user of one version with a password of the next; ADR-0002 §1 asks for one read |
| `secret_sources_open` (violation) | lists with closers and two SecretSources | `SecretSourcesClosed` fails: Close visits `sources` only; the comment on SecretSource promises that it is called |
| `vault_deleted` (violation) | as `vault_answers`, fewer payloads | `UnavailableMeansTrouble` fails: a deleted version answered with null data is told as an unreachable backend; ADR-0002 §6.4 says `secret_unresolved` |

**Why these bounds are enough.** A torn read needs two leaves and two trees, a
reader and a refresher; a race on `tree` needs two writers or a writer and a
reader. Two versions tell old from new; `RefreshNotUndone` needs two refreshers to fail and
one rotation. `handle_walks` has one reference per rule of resolveOneRef, and
enough instants for a value to expire and be read again within a walk. The
merge compares two maps at a time, and what a stack adds is the third layer
below a cut (`IsStackAt`); three keys deep is where a map can be cut above,
at and below a path. Two edits let a sibling appear and another vanish in one
call. In Vault a call is one request, so the clients do not interact: one is
enough. The parsers step over at most one escape of three tokens at a time, and
a separator is misread next to an escape or another separator: four pieces hold
two of them and what stands between. Widths of 4 bits keep the order of the
program's: 2^53 below 2^63 below 2^64, with numbers below, at and above each and
with floats 1, 2 and 4 apart; the theorems of section 5 hold at every width.
A path of four tokens holds two separators and two segments, or an index.

**Fairness** is stated in `ConfigHandle!Fairness` and used by `handle_progress`
alone. A goroutine inside a call keeps running: weak fairness of each of its
steps. `AwaitLock` has strong fairness: the step is disabled whenever another
refresher holds the mutex, and `sync.Mutex` hands over to the goroutine that
has waited longest once it has waited 1 ms (its starvation mode). Nothing makes a goroutine start a
call and nothing is assumed of the backend, the clock or a ctx: a Resolve that
never returns is outside the model (a SecretSource must honour its ctx).

## 4. Divergences

The four violation runs above are recorded in `PROJECT.json` under `findings`
with the lines they contradict. Theorem `SoleRefresherForward` delimits the first: with
at most one refresher `RefreshNotUndone` holds for every instance, so callers
that serialise RefreshSecrets are not exposed to it.

Where the code departs from its documents in a single rule, the property that
would otherwise hold names the departure as an exact exception: it holds
everywhere else, and does not hold there.

| Property | Exactly these cases are different |
|---|---|
| `EscapedIsLiteral` | `$${secret:...}` in a file becomes a reference when the escape is undone |
| `NoReferenceServed` | the value of a variable that `${secret:env:...}` reads: it is served as it is, with what looks like a reference in it |
| `ReadAsWritten` | a `+` in a query value becomes a space; with an empty path, or a path that begins with `-`, the colon of the scheme and the default separator are taken for each other |
| `VaultReadsAsMeant` | a `#` or `?` that was escaped in the path, or encoded in the query, acts as a separator in `parseVaultPath` |
| `EnvParity` | a variable that is set and empty: `${X:-d}` is d, `${secret:env:X:-d}` is empty |
| `IntIsExact` | plain YAML `010` is 8; above 2^63-1 the answer is negative; a JSON n.5 above 2^52 is a whole number by the time GetInt sees it |
| `JsonYamlParity` | `5.0` and `5e0` (integers in JSON only), integers beyond 2^53-1 (in YAML only), and those n.5 |
| `SectionMatchesGetter` | null, which is the zero of the type in a scalar or map field where the getter fails, and in a list field is left out: element `[i]` of the section is the getter's at `[i + k]` when k nulls stand before it; for int `+5`, floats (cut to integers) and uint64; for float `+5` and `NaN`; for bool `y`, `on`, `n`, `off` |
| `EveryNodeReachable` | keys that are empty or hold `.` or `[` |
| `SectionErrorReadsBack` | a field whose key holds a separator: the path a `type_mismatch` names may be another value's. A `validation_failed` never names the field: its path is the section's, whatever field failed (`config.go:659-669`) |
| `TextTellsTreesApart` | whole floats of 10^6 and above, which have an exponent and so another text than the integer; `canonical_json.go:177-179` says that they match RFC 8785, where they do not |

The last point of `SectionErrorReadsBack` is a disagreement with the documents,
shown here by what the property states of the code. ADR-0001 wants the path of the
value: 4.2 (207-222) has `database.servers[0].port` as its example and asks that
the path can be passed to `get`, 4.4 says `path=<section.field>`, and the
fixtures `validation_nested_path` and `error_path_array_index`
(`spec/conformance/manifest.yaml:120-132, 176-187`) expect `database.pool_size` and
`database.servers[1].port`. The comment at `config.go:615-616` promises "full
dot-notation (section + field)"; the one at 661-664 gives the reason why the code
stays at the section: `yaml.v3` does not say where it failed. The property holds
both halves apart: what `coerceForType` refuses is named to the element, what
the decoder refuses is not named below the section.

Two more rules of the documents are modelled and have no run of their own.
ExpiresAt is honoured within a walk only, while ADR-0002 (309-312) asks for a cache
miss after expiry: a value is served until the next RefreshSecrets. And
walkSnapshot masks strings only, directly under a secret key or in a list there:
numbers, and maps below such a key, are shown.

## 5. The proofs

### The handle

`ConfigHandleProofs` proves, for any sets of goroutines, references, keys,
objects and addresses and any bounds:

| Theorem | States |
|---|---|
| `Invariance` | `Spec => []IInv` |
| `TypeCorrectness` | `Spec => []TypeOK` |
| `NoRaceOnTreeHolds` | `Spec => []NoRaceOnTree` |
| `PublishedCompleteHolds` | `Spec => []PublishedComplete` |
| `NoStaleCarryOverHolds` | `Spec => []NoStaleCarryOver` |
| `SameKeyAgreeHolds` | `Spec => []SameKeyAgree` |
| `PublishedImmutableHolds` | `Spec => PublishedImmutable` |
| `NoTornReadHolds` | `Spec => NoTornRead`: `ConfigHandle` implements `AtomicConfig` |
| `SoleRefresherForward` | with at most one refresher, `Spec => RefreshNotUndone` |

They assume `KeysAssumption`, `ProcessAssumption`, `SentinelAssumption` and
`BoundAssumption` of `ConfigHandle`, which TLC evaluates on each handle run.
They say that the tables are total functions, that the kinds of goroutine are
disjoint and that the values standing for nil are no trees or secrets.

The argument is one inductive invariant, `IInv`, whose parts are needed because:

- `ControlInv`: LoadFrom runs before the handle exists, so its unlocked write of
  `tree` meets nobody. Without it `FinishLoad` could race.
- `LockInv`: the refresher that swaps is the writer, and no reader is inside once it has
  swapped. It gives `NoRaceOnTree`.
- `PointerInv`: a tree being filled is not the active one, not another walk's
  and not held by a reader. It is what makes unlocked reading safe:
  `PublishedImmutable` follows, because `ResolveLeaf` writes to `mine[r]` only.
- `WalkInv`: the partial tree and the cache hold admissible values of this walk,
  a resolved leaf equals its cache entry or has expired, and a tree about to be
  swapped in is full.
- `ActiveInv`: the same of the active tree. `Swap` carries `WalkInv` over to it.
  `PublishedComplete`, `NoStaleCarryOver` and `SameKeyAgree` follow.
- `SeenInv`: what a reader has read is what the tree it took holds. With
  `PublishedImmutable` it makes the answer one whole tree.

The refinement maps `Swap` and `FinishLoad` to `Install`, `StartRead`,
`TakeTree`, `EndNavigation` and `FinishRead` to the four steps of a read, and
everything else to a stutter.

### Loading, merging and closing

`LoaderProofs` proves, for any sources, lists, files, keys and trees of any
depth, any number of edits, and whichever closers fail:

| Theorem | States |
|---|---|
| `Invariance` | `Spec => []IInv` |
| `LastWriterWinsHolds` | `Spec => []LastWriterWins` |
| `NoSilentSkipHolds` | `Spec => []NoSilentSkip` |
| `SnapshotMasksSecretsHolds` | `Spec => []SnapshotMasksSecrets` |
| `FileReferencesResolvedHolds` | `Spec => []FileReferencesResolved` |
| `CloseReachesAllHolds` | `Spec => []CloseReachesAll` |
| `CloseReportsHolds` | `Spec => []CloseReports` |

They assume `TreeAssumption` (what stands for no value is no value),
`SourceAssumption` (the three sibling files differ and are in no list of a
caller; files and dicts have no Close), `LeafAssumption` (the string leaves are
told apart; nothing is resolved before the walk, and a SecretRef is made by
parsing only), `ContentAssumption` and `NoConfigAssumption`.

The parts of `IInv` are needed because:

- `StagesOK`: until the loop begins nothing is merged; when a handle exists,
  every source has its layer, `originalTree` is the merge itself and `tree` its
  resolution. It ties the trees of a handle to the loop's variables.
- `SourcesOK`: the list discovery builds is in order of priority, so the order
  in which the loop lays layers on each other is the order `LastWriterWins` is
  stated in.
- `StackOK`: the merge so far is what the layers so far say, at every path. A
  new layer keeps it by lemma `StackGrows`.
- `ProvenanceOK`: what atoms the merge can hold, by the stages of the source
  each came through; with lemmas on what `DeepMerge` and `Rewrite` do to the set
  of atoms it gives `FileReferencesResolved`, and with `MaskingCommutes` (mask
  after resolving, or resolve to the mask) `SnapshotMasksSecrets`.
- `SiblingsOK`: a sibling not listed was missing when it was looked for, which
  a later edit does not change.
- `ClosingOK`: what is closed and what is still to visit add up to the sources.

The facts about trees come first. The induction theorems of the
library take an operator as their parameter, which the provers here cannot
instantiate; `NatSetInduction` of `RecursionProofs` is induction over a *set* of
numbers instead, proved from the well-foundedness of <, and `TreeInduction` lifts
it to trees, level by level. Each recursive function has a lemma that unfolds it once
(`DeepMergeDef`, `RewriteDef`, `AtomsOfDef`, `NodesAlongDef`). On them rest
`DeepMergeAlong`, what the merge of two trees has at a path, by induction along the path,
and `StackGrows`, which adds the new layer on top of a stack of any height.

### The typed getters

`GettersProofs` proves for every `MaxInt`, odd `MaxSafe` below it, set of steps
and table of octal numbers (`WidthAssumption`), so also for 64 bits:

| Theorem | States |
|---|---|
| `IntIsExactHolds` | `Spec => []IntIsExact` |
| `JsonYamlParityHolds` | `Spec => []JsonYamlParity` |
| `NormalisedAnywayHolds` | `Spec => []NormalisedAnyway` |
| `FieldMatchesGetter` | for a decoded scalar, `SectionField` and `Coerce` agree exactly outside `KnownDifference` |
| `DecodedIsScalar` | the decoders stay within the widths of the types |

`CasesAssumption` says that the cases are lexemes with a decoder. The case of a
behaviour never changes, so the properties are facts about `Coercion`. They rest
on lemmas about rounding: a number within `MaxSafe`, or a half within half of
it, is its own float64; the nearest multiple of a step is between the multiples
on both sides, so a number outside the safe range stays outside it; a whole
float64 is an even number of halves. Parity and exactness are then case
splits over the forms, with the exceptions as the cases in which rounding or
the octal table moves the number. `NormalisedAnyway` holds because a float64 beyond `MaxInt`
is also beyond `MaxSafe`, whatever its conversion gives.

### Paths, navigation and what the getters do with them

`PathsProofs` proves for texts, trees and paths of any size, keys of any length and
any `MaxIndex`, from `TokenAssumption` (digits are no marks, and there is one for
each of 0 to 9) and `MaxIndexAssumption`:

| Theorem | States |
|---|---|
| `FormattedReadsBack` | `parsePath` of what `formatTraversed` writes is the segments it was written from |
| `NavigateReadsBack` | the path an error of `navigate` names fails in the same way when it is asked for |
| `FormattedLeadsThere` | asking for a formatted path is walking along its segments |

`GettersProofs` adds, for every set of cases, trees and calls:

| Theorem | States |
|---|---|
| `ErrorPathReadsBackHolds` | `Spec => []ErrorPathReadsBack` |
| `DefaultOnlyWhenAbsentHolds` | `Spec => []DefaultOnlyWhenAbsent` |
| `SectionMatchesGetterHolds` | `Spec => []SectionMatchesGetter` |
| `SectionErrorReadsBackHolds` | `Spec => []SectionErrorReadsBack` |
| `EveryNodeReachableHolds` | `Spec => []EveryNodeReachable` |

These assume `NodeAssumption` (`Node` is closed under going down and holds the
trees of the cases; no list is longer than an int), `DefaultAssumption` (the
caller's default is told apart from every value) and `AskedAssumption` (calls ask
for paths that are texts). The invariant is `Held`: the tree is a `Node`, the call one of
the calls there are.

A recursive function of TLA+ is a CHOOSE: that there is a function to choose has
to be shown first. `RecursionProofs` does this once, by induction along a measure
(`MeasureInduction`, `Recursion`), for every scanner whose next position is a later
one. `FormattedReadsBack` is then induction over the segments that are written, with the
text so far as a prefix at whose end `parsePath` stands with those segments read;
one segment more is a dot and a key, or an index whose digits `strconv.Itoa`
writes and `Atoi` reads back at every size. The rest follows from where `WalkFrom` stops:
at one segment, whose prefix is what the error names, and a prefix of a path that was read is
read as the prefix of its segments.

`SectionMatchesGetter` is `FieldMatchesGetter` for each scalar of a field, and for a list
what `WithoutNulls` keeps: by induction over the list, the element at i stands at the
number of elements up to i that are not null (`WithoutNullsFacts`), and there are no more.
That a successful call answers with these values, and a failing one with what
`SectionErrorReadsBack` says, is an invariant of its own, by the disjuncts of `GetSection`.

### Canonical JSON

`CanonicalProofs` proves for every set of finite trees, texts and keys of any length,
every `MaxPlain` and every order of the tokens of keys:

| Theorem | States |
|---|---|
| `TextTellsTreesApartHolds` | `CanonicalSpec => []TextTellsTreesApart` |

Besides the assumptions of `Getters` it takes `DigitAssumption` (a digit is no mark of
JSON), `CodeAssumption` (keys are compared by the numbers of their characters),
`SerialisedAssumption` (calls are made with trees of `Node`) and `TreeAssumption`
(a tree has finitely many levels, a map finitely many keys; `Height` is the measure of
the inductions, so a cyclic map, on which the code overflows its stack, is no tree here).

The invariant is `TextsHeld`: what a call has returned are the texts of trees of
`Node`. The rest is about one text. That two equal trees have one text is induction
along `Height` (`TreesOfOneValue`); that a text has one tree needs more than
comparing texts, because in a list or a map a text stands before others. `Told(v)`
says: if the text of v with something behind it is the text of w with something behind
that, then v and w are equal and so is what is behind, provided that this is nothing, or
begins with a comma or a closing bracket (`Rests`). With it:

- The first token tells a map, a list and a scalar apart, and the scalars from each
  other, but for numbers (`TextHead`, `ScalarsApart`).
- A string ends at its first quote that is not escaped: `EscapedApart` and
  `EscapedIsNoQuote` read one character at a time. This is what the mutant
  `EscapedCharUnquoted` breaks.
- A number ends where its digits do, since no digit is a mark. The texts of an
  integer, of a half and of a float with an exponent differ in what follows the
  digits, so the value is told and not its type: this is `ScalarValue`.
- Members between commas are told one by one (`JoinedApart`), with the rest of the
  row as what is behind each.
- The keys of a map are in one order: `KeyBefore` is a strict total order on texts, the
  ranks of a finite set in it are 0 to n - 1 (`KeysOfMap`), so each key has its place and
  equal rows of keys are equal sets of keys.

### Interpolation and references

`ReferencesProofs` proves for texts, variables and defaults of any length, every
environment, every alphabet and every table of escapes:

| Theorem | States |
|---|---|
| `OnePassHolds` | `Spec => []OnePass` |
| `EscapedIsLiteralHolds` | `Spec => []EscapedIsLiteral` |
| `NoReferenceServedHolds` | `Spec => []NoReferenceServed` |
| `EnvParityHolds` | `Spec => []EnvParity` |
| `VaultReadsAsMeantHolds` | `Spec => []VaultReadsAsMeant` |
| `ReadAsWrittenHolds` | `Spec => []ReadAsWritten` |

They assume `CasesAssumption` (leaves and variables are texts over `Char`),
`EscapesAssumption` (a decoded token is a text), `GrammarAssumption` (a separator is
no word of lower-case letters, and `QueryUnescape` makes a space of a `+`) and
`CharAssumption`: the marks of the
parsers are in the alphabet and are no names, and no text holds the sentinel of the escape
(`interpolation.go:50-55` relies on that: a control sequence no input has) or the mark
that stands for an unset variable.

- `OnePass` says that three passes over the text (mask, substitute, unmask) are one. Each
  scanner is a scan (`IsScan`) that writes a text; a text before another only puts
  its scan off (`ReplaceBehind`, `MatchBefore`), so each reader has laws for its first
  token and can be followed by induction on the text (`TextInduction`). In
  `ReadAtOnce` the first token starts an escape, `${n}`, `${n:-d}`, or nothing; masking neither
  makes a match nor hides one (`MaskedOpens`, `MaskedPlain`, `MaskedDefaulted`),
  and unmasking undoes it in what is kept and in defaults alike.
- `EscapedIsLiteral` follows the leaf through its stages with `Literal`: after the
  interpolation it is the text that was meant, which is converted to itself unless it
  holds a reference.
- `NoReferenceServed` needs `Sound`: what has passed `convertString` is a text without a
  reference, or a reference whose default has none, because a default ends before the closing
  brace a reference needs.
- `EnvParity` needs `Even`, which adds that texts on their way never hold a sentinel or the
  mark of an unset variable, and what the env scheme has answered. Its other side is one match:
  `PlainTwin` and `DefaultedTwin` read `${NAME}` and `${NAME:-d}`, with the default's
  doubled dollar signs undone, from the laws above.
- `VaultReadsAsMeant` is about the path that `parseSecretRef` composes and
  `parseVaultPath` cuts again. Without a stray `#` or `?` each cut falls on the separator it
  belongs to (`SplitAsMeant`); a stray one in the path leaves a shorter mount and
  key (`SplitInPath`), one in the query a shorter query (`SplitInQuery`), so the
  request is never the one that was meant.
- `ReadAsWritten` compares a parser that cuts from both ends with a grammar that allows every
  cutting of the body whose parts are legal. A legal path, query or field holds no separator that
  is not doubled, and a query no colon (`LegalBeforeColon`), so in every cutting the `?` and
  the `#` fall on the first single ones (`QueryFound`, `FieldFound`), and a cutting that ends
  at a later `:-` leaves one that ends at the first (`CutAtDefault`). The parser cuts at that
  one (`SplitAtDefault`), so where the grammar has a reading the parser has one of
  those (`ReadAgreed`). Of a body without a reading the theorem says nothing: the
  parser accepts some, such as one with a literal `=` in a query value. What a query decodes
  to is told apart from what was meant by a `+` alone (`DecodedApart`, from `FlattenApart`: rows of pieces of equal lengths are equal piece by piece).
  A body that begins with `-` or `:-` is the other exception: the default is looked for with the
  scheme still in front, so its colon or the body's is taken into the separator
  (`DashRefused`, `ColonDashReads`).

The attempt to prove `EnvParity` showed an earlier form of it to be too strong.
That form took any path of the env scheme for a name; `${secret:env:X::-}` asks
for a variable called `X:-`, which there cannot be, while the text with
`${X:-...}` beside it has a default. It also forgot that a `$$` in a default is
undone by the interpolation and kept by the reference. No text of the run was long
enough to show either; the pieces `::-` and `$$` were added to it.

### The Vault adapter

`VaultSourceProofs` proves for any number of clients, objects, fields, versions
and server changes, from `ReferenceAssumption`:

| Theorem | States |
|---|---|
| `VaultInvariance` | `Spec => []VaultInv` |
| `VaultTypeCorrectness` | `Spec => []TypeOK` |
| `AnswerTruthfulHolds` | `Spec => []AnswerTruthful` |

`VaultInv` adds three parts to the two properties. `WindowCovers`: what is true
of a reference now is in the window of a call that asks for it; the window only
grows during the call. `OnlyParsedSent`: a path that does not parse never reaches the server.
`RepliesGrounded`: what a received reply implies is in the window: a 403 that the
reference was denied, a 404 that it denoted nothing, an envelope that it denoted
each value the adapter may pick from it. `Serve` establishes it from the server's
state at that instant, and `Decode` turns it into the truth of the answer, which
is why the two need not happen at the same instant.

### What stays with TLC

The two liveness properties, `RefreshReturns` and `ReadReturns`, and the strong-fairness
argument under them: liveness under fairness and ENABLED are beyond the prover. Every
invariant and every other action property that a passing run checks is a theorem.

## 6. Not modelled, and what comes next

Not modelled on purpose:

- Subscriptions: OnChange and OnSectionChange return an inactive handle without
  a cancellation function in this phase of the library, so Unsubscribe does
  nothing. `Reload` returns nil.
- The name patterns of `IsSecretField` (a set of keys in `Loader`) and
  `MaskValue`, which nothing in the handle calls.
- Nested structs, pointers, arrays, yaml tags and defaults of GetSection's target,
  and values its fields have before the call; which fields a failing Unmarshal has
  filled by then.
- Control characters, invalid UTF-8 and infinities in canonical JSON.
- Error texts, the emitters and fixtures of the cross-language specification and the
  documentation examples; TLS set-up and connection pooling of the Vault client; the
  grammars of the YAML and JSON decoders.
- A caller that writes into the maps Get returns, which are those of the live tree.

Next, in this order:

1. Composition: `VaultSource` below the walk of `ConfigHandle`, so that an
   expired token and a default meet in one model.
2. `Subscription`, when a source implements Watch.
