------------------------------- MODULE Loader -------------------------------
(***************************************************************************)
(* Building a Config and closing it (src/config.go: Load, LoadFrom,        *)
(* Snapshot, Close; src/sources.go): siblings are discovered, each source  *)
(* is read, parsed and interpolated while its file may change, the layers  *)
(* are merged, secret references resolved, and the handle made.            *)
(*                                                                         *)
(* Texts are abstracted to the four kinds of string leaf the stages tell   *)
(* apart: plain text, the token ${VAR}, the text of a whole-value          *)
(* ${secret:...} reference, and the SecretRef parsed from one.             *)
(***************************************************************************)
EXTENDS ConfigTree

CONSTANTS
    Source,         \* the sources: files, dicts and those a user implements
    File,           \* YAML and JSON files
    Dict,           \* DictSource
    Templated,      \* the sources whose Interpolate() is TRUE
    Base,           \* app-config.yaml
    LocalFile,      \* app-config.local.yaml
    ProdFile,       \* app-config.prod.yaml
    Closers,        \* the sources that implement Closer
    FailingClosers, \* those whose Close returns an error every time
    Lists,          \* the source lists callers pass to LoadFrom
    Contents,       \* the possible contents of the sources at the start:
                    \* functions from Source to trees and file states
    Variants,       \* [File -> set of contents it may be changed to]
    EnvNames,       \* what DAGSTACK_ENV may be: "unset" (or empty), "local", "prod"
    Missing, Denied, Malformed,         \* file states: no tree can be read
    Token, RefText, SecretRef, Resolved, MaskedPlaceholder,     \* atoms
    Text,           \* the atoms that are non-empty strings
    SecretKey,      \* the keys that match a secret-name pattern
    EnvValues,      \* what VAR may be: an atom, or UnsetVar
    UnsetVar,
    NoConfig,       \* no handle was returned
    SecretSources,  \* the SecretSource objects passed with WithSecretSources
    SchemeOf,       \* [SecretSources -> scheme]
    MaxEdits        \* bound: changes to files

FileStates == {Missing, Denied, Malformed}

ASSUME SourceAssumption ==
    /\ File \cup Dict \subseteq Source
    /\ File \cap Dict = {}
    /\ {Base, LocalFile, ProdFile} \subseteq File
    /\ Base \notin {LocalFile, ProdFile} /\ LocalFile # ProdFile
    /\ Templated \cap File = {}
    /\ FailingClosers \subseteq Closers
    /\ Closers \subseteq Source \ (File \cup Dict)
    /\ \A list \in Lists :
          list \in Seq(Source) /\ \A i \in DOMAIN list : list[i] \notin {Base, LocalFile, ProdFile}
    /\ MaxEdits \in Nat

\* The string leaves are atoms, told apart; none is resolved before the walk,
\* and a file's text holds no SecretRef, which only parsing makes.
ASSUME LeafAssumption ==
    /\ {Token, RefText, SecretRef, Resolved, MaskedPlaceholder} \subseteq Atom
    /\ LET leaf == <<Token, RefText, SecretRef, Resolved, MaskedPlaceholder>>
       IN \A i, j \in 1 .. 5 : leaf[i] = leaf[j] => i = j
    /\ Text \subseteq Atom \ {SecretRef}
    /\ EnvValues \subseteq (Atom \ {SecretRef, Resolved}) \cup {UnsetVar}

ASSUME ContentAssumption ==
    /\ FileStates \cap Leaf = {} /\ \A state \in FileStates : state \notin Map
    /\ \A c \in Contents :
          /\ c \in [Source -> Map \cup FileStates]
          /\ \A s \in Source : c[s] \in FileStates \/ Resolved \notin AtomsOf(c[s])
          /\ \A f \in File : c[f] \in FileStates \/ SecretRef \notin AtomsOf(c[f])
    /\ \A f \in File : \A c \in Variants[f] :
          \/ c \in FileStates
          \/ c \in Map /\ AtomsOf(c) \cap {SecretRef, Resolved} = {}

Handle == [tree : Map, originalTree : Map, sources : Seq(Source)]

ASSUME NoConfigAssumption == NoConfig \notin Handle

VARIABLES
    content,    \* what each source would read now
    variable,   \* the value of the environment variable VAR
    dagstackEnv,\* DAGSTACK_ENV
    pc,         \* where the call in progress stands
    sources,    \* the list LoadFrom is given
    given,      \* the SecretSources passed to LoadFrom
    merged,     \* the merged tree so far
    layers,     \* history: the trees merged, in order
    handle,     \* the Config, or NoConfig
    failure,    \* why the call failed, "none" if it did not
    cancelled,  \* the caller's ctx is cancelled
    everMissing,\* history: files missing at some instant of the call
    toClose,    \* the sources Close has still to visit
    closeErrs,  \* the Close calls that failed in this Close
    closed,     \* history: the sources and secret sources whose Close was called
    closes,     \* history: calls of Config.Close that have returned
    edits       \* changes made to files so far

environmentVars == <<content, variable, dagstackEnv, cancelled, everMissing, edits>>
loadVars == <<sources, given, merged, layers, failure>>
closeVars == <<toClose, closeErrs, closed, closes>>
vars == <<environmentVars, pc, loadVars, handle, closeVars>>

Init ==
    /\ content \in Contents
    /\ variable \in EnvValues
    /\ dagstackEnv \in EnvNames
    /\ pc = "idle"
    /\ sources = <<>>
    /\ given = {}
    /\ merged = EmptyTree
    /\ layers = <<>>
    /\ handle = NoConfig
    /\ failure = "none"
    /\ cancelled = FALSE
    /\ everMissing = {f \in File : content[f] = Missing}
    /\ toClose = <<>>
    /\ closeErrs = {}
    /\ closed = {}
    /\ closes = 0
    /\ edits = 0

-----------------------------------------------------------------------------
(* Load: sibling discovery.                                                *)

\* Mutant: any error of stat counts as "not there".
FileExistsReadable(f) == content[f] \notin {Missing, Denied}
\* Only ErrNotExist counts: an unreadable file is reported, not skipped.
FileExists(f) == content[f] # Missing

EnvSibling == IF dagstackEnv = "local" THEN LocalFile ELSE ProdFile

CallLoad ==
    /\ pc = "idle" /\ handle = NoConfig /\ failure = "none"
    /\ sources' = <<Base>>
    /\ everMissing' = {f \in File : content[f] = Missing}
    /\ pc' = "local"
    /\ UNCHANGED <<content, variable, dagstackEnv, cancelled, edits, given, merged, layers, failure,
                   handle, closeVars>>

ProbeLocal ==
    /\ pc = "local"
    /\ sources' = IF FileExists(LocalFile) THEN Append(sources, LocalFile) ELSE sources
    /\ pc' = "env"
    /\ UNCHANGED <<environmentVars, given, merged, layers, failure,
                   handle, closeVars>>

\* Mutant: the env sibling is put below the local one.
ProbeEnvFirst ==
    /\ pc = "env"
    /\ sources' = IF dagstackEnv # "unset" /\ FileExists(EnvSibling)
                  THEN <<Base, EnvSibling>> \o Tail(sources) ELSE sources
    /\ pc' = "enter"
    /\ UNCHANGED <<environmentVars, given, merged, layers, failure,
                   handle, closeVars>>

ProbeEnv ==
    /\ pc = "env"
    /\ sources' = IF dagstackEnv # "unset" /\ FileExists(EnvSibling)
                  THEN Append(sources, EnvSibling) ELSE sources
    /\ pc' = "enter"
    /\ UNCHANGED <<environmentVars, given, merged, layers, failure,
                   handle, closeVars>>

-----------------------------------------------------------------------------
(* LoadFrom.                                                               *)

CallLoadFrom(list, secretSources) ==
    /\ pc = "idle" /\ handle = NoConfig /\ failure = "none"
    /\ sources' = list
    /\ given' = secretSources
    /\ pc' = "enter"
    /\ UNCHANGED <<environmentVars, merged, layers, failure, handle,
                   closeVars>>

Fail(reason) ==
    /\ failure' = reason
    /\ pc' = "idle"
    /\ UNCHANGED <<environmentVars, sources, given, merged, layers, handle, closeVars>>

DuplicateScheme ==
    \E a, b \in given : a # b /\ SchemeOf[a] = SchemeOf[b]

EnterLoadFrom ==
    /\ pc = "enter"
    /\ CASE sources = <<>> -> Fail("source_unavailable")
         [] sources # <<>> /\ DuplicateScheme -> Fail("validation_failed")
         [] OTHER -> /\ pc' = "read"
                     /\ UNCHANGED <<environmentVars, loadVars, handle, closeVars>>

\* interpolateTree, and the raw-text interpolation of a file.
Uninterpolable(t) == Token \in AtomsOf(t) /\ variable = UnsetVar
Interpolated(t) == IF variable = UnsetVar THEN t
                   ELSE Rewrite(t, [a \in {Token} |-> variable])

\* walkSecretRefs, which only the bundled sources call.
WithRefs(t) == Rewrite(t, [a \in {RefText} |-> SecretRef])

\* Mutant: a file is parsed for references before it is interpolated.
ParsedRefsFirst(s) ==
    CASE s \in File -> Interpolated(WithRefs(content[s]))
      [] s \in Dict -> WithRefs(content[s])
      [] OTHER -> content[s]

\* The tree the source's own Load returns.
Parsed(s) ==
    CASE s \in File -> WithRefs(Interpolated(content[s]))
      [] s \in Dict -> WithRefs(content[s])
      [] OTHER -> content[s]

LayerOf(s) == IF s \in Templated THEN Interpolated(Parsed(s)) ELSE Parsed(s)

\* The error of the source's Load, or of the loader's interpolation pass.
LoadError(s) ==
    CASE cancelled /\ s \in File \cup Dict -> "source_unavailable"
      [] content[s] \in {Missing, Denied} -> "source_unavailable"
      [] content[s] = Malformed -> "parse_error"
      [] s \in File \cup Templated /\ Uninterpolable(content[s]) -> "env_unresolved"
      [] OTHER -> "none"

NextSource == sources[Len(layers) + 1]

\* Mutant: the tree merged so far is laid over the new layer.
ReadSourceUnderneath ==
    /\ pc = "read"
    /\ Len(layers) < Len(sources)
    /\ IF LoadError(NextSource) # "none"
       THEN Fail(LoadError(NextSource))
       ELSE /\ layers' = Append(layers, LayerOf(NextSource))
            /\ merged' = DeepMerge(LayerOf(NextSource), merged)
            /\ UNCHANGED <<environmentVars, pc, sources, given, failure,
                           handle, closeVars>>

\* One turn of the loop: the first source that fails ends the load.
ReadSource ==
    /\ pc = "read"
    /\ Len(layers) < Len(sources)
    /\ IF LoadError(NextSource) # "none"
       THEN Fail(LoadError(NextSource))
       ELSE /\ layers' = Append(layers, LayerOf(NextSource))
            /\ merged' = DeepMerge(merged, LayerOf(NextSource))
            /\ UNCHANGED <<environmentVars, pc, sources, given, failure,
                           handle, closeVars>>

\* Every SecretRef replaced (the walk itself is ConfigHandle's).
Resolution(t) == Rewrite(t, [a \in {SecretRef} |-> Resolved])

\* Mutant: no copy of the merged tree is kept before the walk.
ResolveSharingOriginal ==
    /\ pc = "read"
    /\ Len(layers) = Len(sources)
    /\ handle' = [tree |-> Resolution(merged), originalTree |-> Resolution(merged),
                  sources |-> sources]
    /\ pc' = "idle"
    /\ UNCHANGED <<environmentVars, loadVars, closeVars>>

\* After the last source: references resolve, or one of them does not.
Resolve ==
    /\ pc = "read"
    /\ Len(layers) = Len(sources)
    /\ \/ /\ handle' = [tree |-> Resolution(merged), originalTree |-> merged,
                        sources |-> sources]
          /\ pc' = "idle"
          /\ UNCHANGED <<environmentVars, loadVars, closeVars>>
       \/ /\ SecretRef \in AtomsOf(merged)
          /\ Fail("secret_unresolved")

-----------------------------------------------------------------------------
(* Snapshot() and Close on the handle.                                     *)

\* walkSnapshot: references are masked, and every string under a secret key.
MaskedCopy(v) ==
    LET copy[t \in Tree] ==
          IF IsMap(t) THEN [k \in Key |-> IF k \in SecretKey /\ t[k] \in Text
                                          THEN MaskedPlaceholder ELSE copy[t[k]]]
          ELSE IF t = SecretRef THEN MaskedPlaceholder ELSE t
    IN copy[v]

Snapshot == MaskedCopy(handle.originalTree)
SnapshotIncludingSecrets == MaskedCopy(handle.tree)

CallClose ==
    /\ pc = "idle" /\ handle # NoConfig /\ closes < 2
    /\ toClose' = handle.sources
    /\ closeErrs' = {}
    /\ pc' = "close"
    /\ UNCHANGED <<environmentVars, loadVars, handle, closed, closes>>

\* Mutant: the first error ends the loop.
CloseSourceUntilError ==
    /\ pc = "close"
    /\ toClose # <<>>
    /\ LET s == Head(toClose) IN
       /\ closed' = IF s \in Closers THEN closed \cup {s} ELSE closed
       /\ closeErrs' = IF s \in FailingClosers THEN closeErrs \cup {s} ELSE closeErrs
       /\ toClose' = IF s \in FailingClosers THEN <<>> ELSE Tail(toClose)
    /\ UNCHANGED <<environmentVars, pc, loadVars, handle, closes>>

CloseSource ==
    /\ pc = "close"
    /\ toClose # <<>>
    /\ LET s == Head(toClose) IN
       /\ closed' = IF s \in Closers THEN closed \cup {s} ELSE closed
       /\ closeErrs' = IF s \in FailingClosers THEN closeErrs \cup {s} ELSE closeErrs
    /\ toClose' = Tail(toClose)
    /\ UNCHANGED <<environmentVars, pc, loadVars, handle, closes>>

\* Mutant: the sources stay in the handle.
FinishCloseKeepingSources ==
    /\ pc = "close"
    /\ toClose = <<>>
    /\ closes' = closes + 1
    /\ pc' = "idle"
    /\ UNCHANGED <<environmentVars, loadVars, handle, toClose, closeErrs, closed>>

FinishClose ==
    /\ pc = "close"
    /\ toClose = <<>>
    /\ handle' = [handle EXCEPT !.sources = <<>>]
    /\ closes' = closes + 1
    /\ pc' = "idle"
    /\ UNCHANGED <<environmentVars, loadVars, toClose, closeErrs, closed>>

-----------------------------------------------------------------------------
(* The environment: files are written and removed, the ctx is cancelled.   *)

Edit(f) ==
    /\ edits < MaxEdits
    /\ \E c \in Variants[f] \ {content[f]} : content' = [content EXCEPT ![f] = c]
    /\ everMissing' = everMissing \cup {g \in File : content'[g] = Missing}
    /\ edits' = edits + 1
    /\ UNCHANGED <<variable, dagstackEnv, cancelled, pc, loadVars, handle, closeVars>>

Cancel ==
    /\ pc \in {"local", "env", "enter", "read"}
    /\ ~cancelled
    /\ cancelled' = TRUE
    /\ UNCHANGED <<content, variable, dagstackEnv, everMissing, edits, pc, loadVars,
                   handle, closeVars>>

Next ==
    \/ CallLoad \/ ProbeLocal \/ ProbeEnv
    \/ \E list \in Lists, given_ \in SUBSET SecretSources : CallLoadFrom(list, given_)
    \/ EnterLoadFrom \/ ReadSource \/ Resolve
    \/ CallClose \/ CloseSource \/ FinishClose
    \/ \E f \in File : Edit(f)
    \/ Cancel

Spec == Init /\ [][Next]_vars

-----------------------------------------------------------------------------
(* Properties.                                                             *)

Loaded == handle # NoConfig
Siblings == {LocalFile} \cup IF dagstackEnv = "unset" THEN {} ELSE {EnvSibling}
ListedSources == {sources[i] : i \in DOMAIN sources}

\* "Priority order base -> local -> env" (config.go:47-48); a list passed to
\* LoadFrom keeps its own order.
Rank(s) == CASE s = Base -> 0 [] s = LocalFile -> 1 [] s = ProdFile -> 2 [] OTHER -> 0
Outranks(h, i) == \/ Rank(sources[h]) > Rank(sources[i])
                  \/ Rank(sources[h]) = Rank(sources[i]) /\ h > i
Above == [i \in DOMAIN layers |-> {h \in DOMAIN layers : Outranks(h, i)}]

\* The value at every path is that of the highest layer that speaks about it,
\* whatever the layers below hold there (merge.go:34-43, config.go:94-97).
LastWriterWins ==
    Loaded => LET above == Above
              IN \A p \in Path : IsStackAt(handle.originalTree, layers, above, p)

\* A sibling may be left out only because it was missing at some instant of
\* the call: an unreadable or malformed override is never ignored
\* (config.go:60-69, 829-842).
NoSilentSkip ==
    Loaded /\ Base \in ListedSources =>
        Siblings \ ListedSources \subseteq everMissing

\* The default Snapshot shows what the audit one does with every secret masked
\* and nothing else changed, although it is made from another tree
\* (config.go:158-161, 335-345).
SnapshotMasksSecrets ==
    Loaded => Snapshot = Rewrite(SnapshotIncludingSecrets,
                                 [a \in {Resolved} |-> MaskedPlaceholder])

\* A reference in a file, or one that ${VAR} brings into a file, is resolved
\* and never served as text (secret_grammar.go:212-215); a token is served
\* only where the variable itself holds the text of one.
FileReferencesResolved ==
    Loaded /\ ListedSources \subseteq File =>
        AtomsOf(handle.tree) \cap {RefText, SecretRef, Token} \subseteq {Token} \cap {variable}

\* Close reaches every closeable source, also past one whose Close fails, and
\* tells; repeated calls return nil (config.go:693-708).
CloseReachesAll == closes > 0 => ListedSources \cap Closers \subseteq closed
CloseReports ==
    pc = "idle" =>
        /\ closes = 1 => closeErrs = ListedSources \cap FailingClosers
        /\ closes = 2 => closeErrs = {}

\* "The loader calls Close() on every registered SecretSource when
\* Config.Close() is called" (secrets.go:54-56).
SecretSourcesClosed == closes > 0 => given \subseteq closed

-----------------------------------------------------------------------------
(* The inductive invariant, from which the properties above follow.         *)

Steps == {"idle", "local", "env", "enter", "read", "close"}

TypeOK ==
    /\ content \in [Source -> Map \cup FileStates]
    /\ variable \in EnvValues
    /\ pc \in Steps
    /\ sources \in Seq(Source)
    /\ merged \in Map
    /\ layers \in Seq(Map)
    /\ handle \in Handle \cup {NoConfig}
    /\ everMissing \subseteq File
    /\ toClose \in Seq(Source)
    /\ closes \in 0 .. 2

\* What texts hold before anything is parsed or resolved.
ContentOK ==
    /\ \A s \in Source : content[s] \in Map => Resolved \notin AtomsOf(content[s])
    /\ \A f \in File : content[f] \in Map => SecretRef \notin AtomsOf(content[f])

\* No call has merged anything yet.
Unread == \/ pc \in {"local", "env", "enter"}
          \/ pc = "idle" /\ handle = NoConfig /\ failure = "none"
Merging == pc = "read" \/ Loaded
In(list) == {list[i] : i \in DOMAIN list}

\* What a stage has behind it.
StagesOK ==
    /\ Unread => layers = <<>> /\ merged = EmptyTree /\ handle = NoConfig
    /\ pc = "read" => handle = NoConfig /\ Len(layers) <= Len(sources)
    /\ pc = "close" => Loaded /\ closes < 2
    /\ closes > 0 => Loaded
    /\ Loaded => /\ Len(layers) = Len(sources)
                 /\ handle.originalTree = merged
                 /\ handle.tree = Resolution(merged)
                 /\ handle.sources = IF closes = 0 THEN sources ELSE <<>>

\* The list that discovery builds is in order of priority.
SourcesOK ==
    /\ pc = "local" => sources = <<Base>>
    /\ pc = "env" => sources \in {<<Base>>, <<Base, LocalFile>>}
    /\ \A i, h \in DOMAIN sources : i < h => Rank(sources[i]) <= Rank(sources[h])

\* The merge so far is what the layers so far say, at every path.
StackOK == Merging => \A p \in Path : IsStackAt(merged, layers, UpTo(layers), p)

\* What the leaves of the merge so far can be.
ProvenanceOK ==
    Merging =>
        /\ Resolved \notin AtomsOf(merged)
        /\ ListedSources \subseteq File =>
              AtomsOf(merged) \cap {RefText, Token} \subseteq {Token} \cap {variable}

\* A sibling that is not listed was missing when it was looked for.
SiblingsOK ==
    /\ {f \in File : content[f] = Missing} \subseteq everMissing
    /\ pc = "env" => LocalFile \in ListedSources \cup everMissing
    /\ (pc = "enter" \/ Merging) /\ Base \in ListedSources =>
          Siblings \subseteq ListedSources \cup everMissing

\* What Close has done, and what it has still to do.
ClosingOK ==
    /\ closes = 0 /\ pc # "close" => closeErrs = {}
    /\ pc = "close" => In(toClose) \subseteq In(handle.sources)
    /\ pc = "close" /\ closes = 0 =>
          /\ ListedSources \cap Closers \subseteq closed \cup In(toClose)
          /\ closeErrs \subseteq ListedSources \cap FailingClosers
          /\ ListedSources \cap FailingClosers \subseteq closeErrs \cup In(toClose)
    /\ pc = "close" /\ closes = 1 => closeErrs = {}
    /\ closes > 0 => ListedSources \cap Closers \subseteq closed
    /\ pc = "idle" => /\ closes = 1 => closeErrs = ListedSources \cap FailingClosers
                      /\ closes = 2 => closeErrs = {}

IInv == /\ TypeOK /\ ContentOK /\ StagesOK /\ SourcesOK /\ StackOK
        /\ ProvenanceOK /\ SiblingsOK /\ ClosingOK
=============================================================================
