---------------------------- MODULE VaultSource ----------------------------
(***************************************************************************)
(* vault.Source (src/vault/source.go): one login when it is made, then     *)
(* Resolve calls of several goroutines, each one read of a KV v2 object,   *)
(* while secrets are written and deleted, policies change, the token       *)
(* expires and the server is unreachable for a while.                      *)
(*                                                                         *)
(* The Vault server is external: store, forbidden, tokenValid, reachable   *)
(* and accepting are its state, modelled from the replies the adapter      *)
(* distinguishes.  A value is the triple of the object, version and field  *)
(* it was stored under.                                                    *)
(***************************************************************************)
EXTENDS Integers, Sequences, FiniteSets

CONSTANTS
    Client,       \* the goroutines that call Resolve
    Object,       \* KV v2 objects: <mount>/<key path>
    Field,
    NoField,      \* a reference without #field
    Reference,    \* the parsed paths: records of object, version and field
    Unparsable,   \* a path parseVaultPath rejects
    Auth,         \* the login methods: "token", "approle", "kubernetes" or "unknown"
    NoReply,      \* no answer of the server yet
    Payloads,     \* the sets of fields an object may be written with
    MaxVersions,  \* bound: versions of an object
    MaxChanges    \* bound: changes of policy, token and reachability

ASSUME ReferenceAssumption ==
    /\ Reference \subseteq [object : Object, version : Int, field : Field \cup {NoField}]
    /\ NoField \notin Field
    /\ Unparsable \notin Reference
    /\ Payloads \subseteq SUBSET Field
    /\ IsFiniteSet(Field)

VARIABLES
    store,        \* server: the versions of each object
    forbidden,    \* server: the objects the policy does not let the token read
    tokenValid,   \* server: the client token is accepted
    reachable,    \* server: requests get through
    accepting,    \* server: logins are accepted
    phase,        \* the source: "new", "ready", or the reason NewSource failed
    pc,           \* where each client stands
    asked,        \* the reference each client resolves
    live,         \* the ctx and the HTTP timeout of the call have not ended
    reply,        \* what the server answered
    answer,       \* what Resolve returns
    window,       \* history: what was true of the reference during the call
    changes

serverVars == <<store, forbidden, tokenValid, reachable, accepting, changes>>
callVars == <<pc, asked, live, reply, answer>>
vars == <<serverVars, phase, callVars, window>>

KvVersion == [deleted : BOOLEAN, fields : SUBSET Field]
Value == Object \X Nat \X Field

\* The replies the adapter tells apart: envelopes, and what stands for none.
Envelope(o, n) == [kind |-> "envelope", object |-> o, version |-> n,
                   fields |-> store[o][n].fields]
Bare(kind) == [kind |-> kind]

Failure(reason) == [reason |-> reason]
Answered(v, n) == [reason |-> "", value |-> v, version |-> n]

Reply ==
    [kind : {"error", "403", "404", "nil", "null data"}]
    \cup [kind : {"envelope"}, object : Object, version : Nat, fields : SUBSET Field]
Answer ==
    [reason : {"secret_unresolved", "secret_permission_denied", "secret_backend_unavailable"}]
    \cup [reason : {""}, value : Value, version : Nat]

Init ==
    /\ store = [o \in Object |-> <<>>]
    /\ forbidden = {}
    /\ tokenValid \in BOOLEAN
    /\ reachable \in BOOLEAN
    /\ accepting \in BOOLEAN
    /\ phase = "new"
    /\ pc = [c \in Client |-> "idle"]
    /\ asked = [c \in Client |-> Unparsable]
    /\ live = [c \in Client |-> TRUE]
    /\ reply = [c \in Client |-> NoReply]
    /\ answer = [c \in Client |-> NoReply]
    /\ window = [c \in Client |-> {}]
    /\ changes = 0

-----------------------------------------------------------------------------
(* NewSource: authenticate.                                                *)

Login == {"approle", "kubernetes"}

\* TokenAuth asks nobody; the other methods make one login request.
LoginOutcomes(auth) ==
    CASE auth = "token" -> {"ready"}
      [] auth \in Login /\ ~reachable -> {"secret_backend_unavailable"}
      [] auth \in Login /\ reachable /\ ~accepting ->
            {"secret_permission_denied",    \* a 403
             "secret_backend_unavailable"}  \* any other refusal, or no token
      [] auth = "unknown" -> {"validation_failed"}
      [] OTHER -> {"ready"}

\* The Kubernetes method first reads the ServiceAccount token from a file.
LocalOutcomes(auth) ==
    IF auth = "kubernetes" THEN {"secret_backend_unavailable"} ELSE {}

Authenticate(auth) ==
    /\ phase = "new"
    /\ phase' \in LoginOutcomes(auth) \cup LocalOutcomes(auth)
    /\ tokenValid' = IF auth \in Login /\ phase' = "ready" THEN TRUE ELSE tokenValid
    /\ UNCHANGED <<store, forbidden, reachable, accepting, changes, callVars>>

-----------------------------------------------------------------------------
(* Resolve.                                                                *)

Return(c, a) ==
    /\ answer' = [answer EXCEPT ![c] = a]
    /\ pc' = [pc EXCEPT ![c] = "done"]

Call(c, ref) ==
    /\ phase = "ready"
    /\ pc[c] = "idle"
    /\ asked' = [asked EXCEPT ![c] = ref]
    /\ live' \in {live, [live EXCEPT ![c] = FALSE]}
    /\ pc' = [pc EXCEPT ![c] = "called"]
    /\ UNCHANGED <<serverVars, phase, reply, answer>>

\* The ctx is looked at first, then the path is parsed.
Prepare(c) ==
    /\ pc[c] = "called"
    /\ CASE ~live[c] -> Return(c, Failure("secret_backend_unavailable"))
         [] live[c] /\ asked[c] = Unparsable -> Return(c, Failure("secret_unresolved"))
         [] OTHER -> pc' = [pc EXCEPT ![c] = "sent"] /\ UNCHANGED answer
    /\ UNCHANGED <<serverVars, phase, asked, live, reply>>

\* Mutant: the query is dropped, as if no version had been asked for.
VersionAskedLatest(ref) == Len(store[ref.object])
\* ?version=N, of the latest version when N is not positive.
VersionAsked(ref) ==
    IF ref.version > 0 THEN ref.version ELSE Len(store[ref.object])

Denied(ref) == ~tokenValid \/ ref.object \in forbidden
Stored(ref, n) == n \in 1 .. Len(store[ref.object])

\* What the server may reply.  It answers the read of a deleted version with
\* a 404 or with an envelope that has metadata and null data.
Replies(ref, n) ==
    CASE ~reachable -> {Bare("error")}
      [] reachable /\ Denied(ref) -> {Bare("403")}
      [] reachable /\ ~Denied(ref) /\ ~Stored(ref, n) -> {Bare("404"), Bare("nil")}
      [] reachable /\ ~Denied(ref) /\ Stored(ref, n) /\ store[ref.object][n].deleted ->
            {Bare("404"), Bare("nil"), Bare("null data")}
      [] OTHER -> {Envelope(ref.object, n)}

Serve(c) ==
    /\ pc[c] = "sent"
    /\ \E r \in Replies(asked[c], VersionAsked(asked[c])) :
          reply' = [reply EXCEPT ![c] = r]
    /\ pc' = [pc EXCEPT ![c] = "replied"]
    /\ UNCHANGED <<serverVars, phase, asked, live, answer>>

\* The ctx or the HTTP timeout ends the request, served or not.
GiveUp(c) ==
    /\ pc[c] = "sent"
    /\ ~live[c]
    /\ reply' = [reply EXCEPT ![c] = Bare("error")]
    /\ pc' = [pc EXCEPT ![c] = "replied"]
    /\ UNCHANGED <<serverVars, phase, asked, live, answer>>

\* translateReadError, and the checks on an envelope without data.
ReasonOf(kind) ==
    CASE kind = "403" -> "secret_permission_denied"
      [] kind \in {"404", "nil"} -> "secret_unresolved"
      [] OTHER -> "secret_backend_unavailable"

\* Mutant: the field is not looked up.
FieldMeantUnchecked(env, field) == {field}
\* The field a reference denotes: the named one, or the only one.
FieldMeant(env, field) ==
    IF field # NoField THEN env.fields \cap {field}
    ELSE IF Cardinality(env.fields) = 1 THEN env.fields ELSE {}

Decode(c) ==
    /\ pc[c] = "replied"
    /\ LET r == reply[c] IN
       IF r.kind # "envelope" THEN Return(c, Failure(ReasonOf(r.kind)))
       ELSE IF FieldMeant(r, asked[c].field) = {}
       THEN Return(c, Failure("secret_unresolved"))
       ELSE \E f \in FieldMeant(r, asked[c].field) :
               Return(c, Answered(<<r.object, r.version, f>>, r.version))
    /\ UNCHANGED <<serverVars, phase, asked, live, reply>>

Finish(c) ==
    /\ pc[c] = "done"
    /\ pc' = [pc EXCEPT ![c] = "idle"]
    /\ asked' = [asked EXCEPT ![c] = Unparsable]
    /\ live' = [live EXCEPT ![c] = TRUE]
    /\ reply' = [reply EXCEPT ![c] = NoReply]
    /\ answer' = [answer EXCEPT ![c] = NoReply]
    /\ UNCHANGED <<serverVars, phase>>

Cancel(c) ==
    /\ pc[c] \in {"called", "sent"}
    /\ live[c]
    /\ live' = [live EXCEPT ![c] = FALSE]
    /\ UNCHANGED <<serverVars, phase, pc, asked, reply, answer>>

-----------------------------------------------------------------------------
(* The server.                                                             *)

Write(o) ==
    /\ Len(store[o]) < MaxVersions
    /\ \E fields \in Payloads :
          store' = [store EXCEPT ![o] = Append(@, [deleted |-> FALSE, fields |-> fields])]
    /\ UNCHANGED <<forbidden, tokenValid, reachable, accepting, changes, phase, callVars>>

Delete(o, n) ==
    /\ n \in 1 .. Len(store[o])
    /\ store' = [store EXCEPT ![o][n].deleted = TRUE]
    /\ UNCHANGED <<forbidden, tokenValid, reachable, accepting, changes, phase, callVars>>

Change ==
    /\ changes < MaxChanges
    /\ changes' = changes + 1
    /\ \/ /\ \E o \in Object : forbidden' \in {forbidden \cup {o}, forbidden \ {o}}
          /\ UNCHANGED <<tokenValid, reachable>>
       \/ tokenValid' = FALSE /\ UNCHANGED <<forbidden, reachable>>
       \/ reachable' = ~reachable /\ UNCHANGED <<forbidden, tokenValid>>
    /\ UNCHANGED <<store, accepting, phase, callVars>>

-----------------------------------------------------------------------------
(* What is true of a reference at an instant, read off the server without  *)
(* any of the adapter's steps.                                             *)
Denotes(ref) ==
    LET versions == store[ref.object]
        n == IF ref.version > 0 THEN ref.version ELSE Len(versions)
    IN {<<ref.object, n, f>> : f \in
          {f \in Field : /\ n \in 1 .. Len(versions)
                         /\ ~versions[n].deleted
                         /\ f \in versions[n].fields
                         /\ \/ f = ref.field
                            \/ ref.field = NoField /\ versions[n].fields = {f}}}

Fact(f) == [fact |-> f]
Worth(v) == [fact |-> "value", value |-> v]

Facts(c) ==
    LET ref == asked[c]  denoted == IF ref = Unparsable THEN {} ELSE Denotes(ref) IN
    {Worth(v) : v \in denoted}
    \cup {Fact(f) : f \in {g \in {"trouble", "absent", "denied"} :
            CASE g = "trouble" -> ~live[c] \/ ~reachable
              [] g = "absent" -> denoted = {}
              [] g = "denied" -> ref # Unparsable /\ Denied(ref)}}

Observe ==
    window' = [c \in Client |->
                 IF pc'[c] = "idle" THEN {}
                 ELSE IF pc'[c] = "done" THEN window[c]
                 ELSE window[c] \cup Facts(c)']

Next ==
    /\ \/ \E auth \in Auth : Authenticate(auth)
       \/ \E c \in Client :
             \/ \E ref \in Reference \cup {Unparsable} : Call(c, ref)
             \/ Prepare(c) \/ Serve(c) \/ GiveUp(c) \/ Decode(c) \/ Finish(c)
             \/ Cancel(c)
       \/ \E o \in Object : Write(o)
       \/ \E o \in Object : \E n \in 1 .. MaxVersions : Delete(o, n)
       \/ Change
    /\ Observe

Spec == Init /\ [][Next]_vars

-----------------------------------------------------------------------------
(* Properties.                                                             *)

TypeOK ==
    /\ store \in [Object -> Seq(KvVersion)]
    /\ forbidden \subseteq Object
    /\ tokenValid \in BOOLEAN /\ reachable \in BOOLEAN
    /\ phase \in {"new", "ready", "secret_permission_denied",
                  "secret_backend_unavailable", "validation_failed"}
    /\ pc \in [Client -> {"idle", "called", "sent", "replied", "done"}]
    /\ asked \in [Client -> Reference \cup {Unparsable}]
    /\ live \in [Client -> BOOLEAN]
    /\ reply \in [Client -> Reply \cup {NoReply}]
    /\ answer \in [Client -> Answer \cup {NoReply}]
    /\ \A c \in Client :
          /\ pc[c] = "replied" => reply[c] \in Reply
          /\ pc[c] = "done" => answer[c] \in Answer

\* Every answer was true at some instant of the call: a value is the one its
\* reference denoted then, tagged with the version it belongs to; "denied" and
\* "unresolved" tell the operator what was the case, and never stand for an
\* outage (source.go:266-399, error_reasons.yaml:40-64).
Truthful(c) ==
    LET a == answer[c] IN
    CASE a.reason = "" -> a.value[2] = a.version /\ Worth(a.value) \in window[c]
      [] a.reason = "secret_permission_denied" -> Fact("denied") \in window[c]
      [] a.reason = "secret_unresolved" -> Fact("absent") \in window[c]
      [] OTHER -> TRUE
AnswerTruthful == \A c \in Client : pc[c] = "done" => Truthful(c)

\* "If the requested version is destroyed or deleted, the adapter raises
\* secret_unresolved" (spec/adr/0002:451-453): backend_unavailable is kept for
\* calls that met an outage.
UnavailableMeansTrouble ==
    \A c \in Client :
        pc[c] = "done" /\ answer[c].reason = "secret_backend_unavailable"
            => Fact("trouble") \in window[c]
=============================================================================
