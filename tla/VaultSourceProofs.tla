------------------------- MODULE VaultSourceProofs -------------------------
(***************************************************************************)
(* Resolve of vault.Source answers with what was true during the call, for *)
(* any number of clients, objects, fields and versions: the invariant of   *)
(* VaultSource and its theorems.                                           *)
(***************************************************************************)
EXTENDS VaultSource, FiniteSetTheorems, TLAPS

Asking == {"called", "sent", "replied"}

\* What is true of a reference now belongs to the window of its call.
WindowCovers == \A c \in Client : pc[c] \in Asking => Facts(c) \subseteq window[c]

\* Only a parsed reference reaches the server.
OnlyParsedSent == \A c \in Client : pc[c] \in {"sent", "replied"} => asked[c] \in Reference

\* A reply says what was true of the reference at an instant of the window.
Grounded(r, ref, facts) ==
    /\ r.kind = "403" => Fact("denied") \in facts
    /\ r.kind \in {"404", "nil"} => Fact("absent") \in facts
    /\ r.kind = "envelope" =>
          /\ \A f \in FieldMeant(r, ref.field) : Worth(<<r.object, r.version, f>>) \in facts
          /\ FieldMeant(r, ref.field) = {} => Fact("absent") \in facts
RepliesGrounded ==
    \A c \in Client : pc[c] = "replied" => Grounded(reply[c], asked[c], window[c])

VaultInv == TypeOK /\ WindowCovers /\ OnlyParsedSent /\ RepliesGrounded /\ AnswerTruthful

-----------------------------------------------------------------------------
(* Type correctness.                                                       *)

LEMMA InitTyped == Init => TypeOK
  BY ReferenceAssumption DEF Init, TypeOK

LEMMA StoreTyped ==
    ASSUME TypeOK, NEW ref \in Reference
    PROVE  /\ store[ref.object] \in Seq(KvVersion)
           /\ Len(store[ref.object]) \in Nat
           /\ ref.object \in Object /\ ref.version \in Int /\ ref.field \in Field \cup {NoField}
           /\ VersionAsked(ref) \in Nat
  BY ReferenceAssumption DEF TypeOK, VersionAsked

\* Every reply of the server is one the adapter tells apart.
LEMMA RepliesTyped ==
    ASSUME TypeOK, NEW ref \in Reference
    PROVE  Replies(ref, VersionAsked(ref)) \subseteq Reply
  <1>. DEFINE n == VersionAsked(ref)
  <1>1. Stored(ref, n) => Envelope(ref.object, n) \in Reply
    <2>1. ASSUME Stored(ref, n) PROVE store[ref.object][n] \in KvVersion
      BY <2>1, StoreTyped DEF Stored
    <2>2. QED
      BY <2>1, StoreTyped DEF Envelope, Reply, KvVersion
  <1>2. \A kind \in {"error", "403", "404", "nil", "null data"} : Bare(kind) \in Reply
    BY DEF Bare, Reply
  <1>3. CASE ~reachable
    BY <1>2, <1>3 DEF Replies
  <1>4. CASE reachable /\ Denied(ref)
    BY <1>2, <1>4 DEF Replies
  <1>5. CASE reachable /\ ~Denied(ref) /\ ~Stored(ref, n)
    BY <1>2, <1>5 DEF Replies
  <1>6. CASE reachable /\ ~Denied(ref) /\ Stored(ref, n) /\ store[ref.object][n].deleted
    BY <1>2, <1>6 DEF Replies
  <1>7. CASE reachable /\ ~Denied(ref) /\ Stored(ref, n) /\ ~store[ref.object][n].deleted
    BY <1>1, <1>7 DEF Replies
  <1>8. QED
    BY <1>3, <1>4, <1>5, <1>6, <1>7

\* The field that is decoded is one of the envelope.
LEMMA FieldMeantTyped ==
    ASSUME NEW r \in Reply, r.kind = "envelope", NEW f
    PROVE  FieldMeant(r, f) \subseteq r.fields /\ r.fields \subseteq Field
           /\ r.object \in Object /\ r.version \in Nat
  BY DEF Reply, FieldMeant

\* What a step of one client does to the calls of all.
LEMMA ReturnTyped ==
    ASSUME TypeOK, NEW c \in Client, NEW a \in Answer, Return(c, a),
           UNCHANGED <<serverVars, phase, asked, live, reply>>
    PROVE  TypeOK'
  BY DEF TypeOK, Return, serverVars

LEMMA ReplyTyped ==
    ASSUME TypeOK, NEW c \in Client, NEW r \in Reply,
           reply' = [reply EXCEPT ![c] = r], pc' = [pc EXCEPT ![c] = "replied"],
           UNCHANGED <<serverVars, phase, asked, live, answer>>
    PROVE  TypeOK'
  BY DEF TypeOK, serverVars

LEMMA ServerStepTyped ==
    ASSUME TypeOK, store' \in [Object -> Seq(KvVersion)], forbidden' \subseteq Object,
           tokenValid' \in BOOLEAN, reachable' \in BOOLEAN, UNCHANGED <<phase, callVars>>
    PROVE  TypeOK'
  BY DEF TypeOK, callVars

LEMMA FailureTyped ==
    \A reason \in {"secret_unresolved", "secret_permission_denied", "secret_backend_unavailable"} :
        Failure(reason) \in Answer
  BY DEF Failure, Answer

\* Decode tells an error or one of the fields.
LEMMA DecodeOutcomes ==
    ASSUME TypeOK, NEW c \in Client, Decode(c)
    PROVE  /\ pc[c] = "replied" /\ reply[c] \in Reply
           /\ \E a \in Answer :
                 /\ Return(c, a)
                 /\ \/ reply[c].kind # "envelope" /\ a = Failure(ReasonOf(reply[c].kind))
                    \/ /\ reply[c].kind = "envelope" /\ FieldMeant(reply[c], asked[c].field) = {}
                       /\ a = Failure("secret_unresolved")
                    \/ /\ reply[c].kind = "envelope"
                       /\ \E f \in FieldMeant(reply[c], asked[c].field) :
                             a = Answered(<<reply[c].object, reply[c].version, f>>, reply[c].version)
  <1>1. pc[c] = "replied" /\ reply[c] \in Reply
    BY DEF Decode, TypeOK
  <1>2. CASE reply[c].kind # "envelope"
    <2>1. ReasonOf(reply[c].kind) \in
            {"secret_unresolved", "secret_permission_denied", "secret_backend_unavailable"}
      BY DEF ReasonOf
    <2>2. QED
      BY <1>1, <1>2, <2>1, FailureTyped DEF Decode
  <1>3. CASE reply[c].kind = "envelope" /\ FieldMeant(reply[c], asked[c].field) = {}
    BY <1>1, <1>3, FailureTyped DEF Decode
  <1>4. CASE reply[c].kind = "envelope" /\ FieldMeant(reply[c], asked[c].field) # {}
    <2>1. PICK f \in FieldMeant(reply[c], asked[c].field) :
             Return(c, Answered(<<reply[c].object, reply[c].version, f>>, reply[c].version))
      BY <1>4 DEF Decode
    <2>2. Answered(<<reply[c].object, reply[c].version, f>>, reply[c].version) \in Answer
      BY <1>1, <1>4, FieldMeantTyped DEF Answered, Answer, Value
    <2>3. QED
      BY <1>1, <1>4, <2>1, <2>2
  <1>5. QED
    BY <1>2, <1>3, <1>4

LEMMA NextTyped == TypeOK /\ OnlyParsedSent /\ [Next]_vars => TypeOK'
  <1>. SUFFICES ASSUME TypeOK, OnlyParsedSent, [Next]_vars PROVE TypeOK'
    OBVIOUS
  <1>1. ASSUME NEW auth \in Auth, Authenticate(auth) PROVE TypeOK'
    <2>1. phase' \in {"ready", "secret_permission_denied", "secret_backend_unavailable",
                      "validation_failed"}
      BY <1>1 DEF Authenticate, LoginOutcomes, LocalOutcomes, Login
    <2>2. tokenValid' \in BOOLEAN
      BY <1>1 DEF Authenticate, TypeOK
    <2>3. QED
      BY <1>1, <2>1, <2>2 DEF Authenticate, TypeOK, callVars
  <1>2. ASSUME NEW c \in Client, NEW ref \in Reference \cup {Unparsable}, Call(c, ref) PROVE TypeOK'
    BY <1>2 DEF Call, TypeOK, serverVars
  <1>3. ASSUME NEW c \in Client, Prepare(c) PROVE TypeOK'
    <2>1. CASE ~live[c]
      BY <1>3, <2>1, FailureTyped, ReturnTyped DEF Prepare
    <2>2. CASE live[c] /\ asked[c] = Unparsable
      BY <1>3, <2>2, FailureTyped, ReturnTyped DEF Prepare
    <2>3. CASE live[c] /\ asked[c] # Unparsable
      <3>1. pc' = [pc EXCEPT ![c] = "sent"]
            /\ UNCHANGED <<serverVars, phase, asked, live, reply, answer>>
        BY <1>3, <2>3 DEF Prepare
      <3>2. QED
        BY <3>1 DEF TypeOK, serverVars
    <2>4. QED
      BY <2>1, <2>2, <2>3
  <1>4. ASSUME NEW c \in Client, Serve(c) PROVE TypeOK'
    <2>1. asked[c] \in Reference
      BY <1>4 DEF Serve, OnlyParsedSent
    <2>2. QED
      BY <1>4, <2>1, RepliesTyped, ReplyTyped DEF Serve
  <1>5. ASSUME NEW c \in Client, GiveUp(c) PROVE TypeOK'
    <2>1. Bare("error") \in Reply
      BY DEF Bare, Reply
    <2>2. QED
      BY <1>5, <2>1, ReplyTyped DEF GiveUp
  <1>6. ASSUME NEW c \in Client, Decode(c) PROVE TypeOK'
    BY <1>6, DecodeOutcomes, ReturnTyped DEF Decode
  <1>7. ASSUME NEW c \in Client, Finish(c) PROVE TypeOK'
    BY <1>7 DEF Finish, TypeOK, serverVars
  <1>8. ASSUME NEW c \in Client, Cancel(c) PROVE TypeOK'
    BY <1>8 DEF Cancel, TypeOK, serverVars
  <1>9. ASSUME NEW o \in Object, Write(o) PROVE TypeOK'
    <2>1. PICK fields \in Payloads :
             store' = [store EXCEPT ![o] = Append(@, [deleted |-> FALSE, fields |-> fields])]
      BY <1>9 DEF Write
    <2>2. [deleted |-> FALSE, fields |-> fields] \in KvVersion
      BY ReferenceAssumption DEF KvVersion
    <2>3. store' \in [Object -> Seq(KvVersion)]
      BY <2>1, <2>2 DEF TypeOK
    <2>4. QED
      BY <1>9, <2>3, ServerStepTyped DEF Write, TypeOK
  <1>10. ASSUME NEW o \in Object, NEW n \in 1 .. MaxVersions, Delete(o, n) PROVE TypeOK'
    <2>1. store[o] \in Seq(KvVersion) /\ n \in 1 .. Len(store[o])
          /\ store' = [store EXCEPT ![o] = [store[o] EXCEPT ![n] = [store[o][n] EXCEPT !.deleted = TRUE]]]
      BY <1>10 DEF Delete, TypeOK
    <2>2. [store[o][n] EXCEPT !.deleted = TRUE] \in KvVersion
      <3>1. store[o][n] \in KvVersion
        BY <2>1
      <3>2. QED
        BY <3>1 DEF KvVersion
    <2>3. [store[o] EXCEPT ![n] = [store[o][n] EXCEPT !.deleted = TRUE]] \in Seq(KvVersion)
      BY <2>1, <2>2
    <2>4. store' \in [Object -> Seq(KvVersion)]
      BY <2>1, <2>3 DEF TypeOK
    <2>5. QED
      BY <1>10, <2>4, ServerStepTyped DEF Delete, TypeOK
  <1>11. ASSUME Change PROVE TypeOK'
    <2>1. forbidden' \subseteq Object /\ tokenValid' \in BOOLEAN /\ reachable' \in BOOLEAN
      BY <1>11 DEF Change, TypeOK
    <2>2. QED
      BY <1>11, <2>1, ServerStepTyped DEF Change, TypeOK
  <1>12. ASSUME UNCHANGED vars PROVE TypeOK'
    BY <1>12 DEF vars, serverVars, callVars, TypeOK
  <1>13. QED
    BY <1>1, <1>2, <1>3, <1>4, <1>5, <1>6, <1>7, <1>8, <1>9, <1>10, <1>11, <1>12 DEF Next

-----------------------------------------------------------------------------
(* What is true of a reference, and what a reply says of it.               *)

LEMMA FactsOf ==
    ASSUME NEW c \in Client, asked[c] \in Reference
    PROVE  /\ \A v \in Denotes(asked[c]) : Worth(v) \in Facts(c)
           /\ Denotes(asked[c]) = {} => Fact("absent") \in Facts(c)
           /\ Denied(asked[c]) => Fact("denied") \in Facts(c)
  <1>1. asked[c] # Unparsable
    BY ReferenceAssumption
  <1>2. QED
    BY <1>1 DEF Facts

\* A version that cannot be served is one the reference denotes nothing in.
LEMMA NothingStored ==
    ASSUME TypeOK, NEW ref \in Reference,
           \/ ~Stored(ref, VersionAsked(ref))
           \/ store[ref.object][VersionAsked(ref)].deleted
    PROVE  Denotes(ref) = {}
  BY DEF Denotes, Stored, VersionAsked

\* An envelope holds what the reference denotes, or no field it could denote.
LEMMA EnvelopeDenotes ==
    ASSUME TypeOK, NEW ref \in Reference, Stored(ref, VersionAsked(ref)),
           ~store[ref.object][VersionAsked(ref)].deleted
    PROVE  LET r == Envelope(ref.object, VersionAsked(ref)) IN
           /\ \A f \in FieldMeant(r, ref.field) : <<r.object, r.version, f>> \in Denotes(ref)
           /\ FieldMeant(r, ref.field) = {} => Denotes(ref) = {}
  <1>. DEFINE n == VersionAsked(ref)
              fields == store[ref.object][n].fields
              r == Envelope(ref.object, n)
  <1>1. /\ n \in 1 .. Len(store[ref.object]) /\ store[ref.object][n] \in KvVersion
        /\ fields \subseteq Field /\ IsFiniteSet(fields)
    <2>1. n \in 1 .. Len(store[ref.object]) /\ store[ref.object][n] \in KvVersion
      BY StoreTyped DEF Stored
    <2>2. fields \subseteq Field
      BY <2>1 DEF KvVersion
    <2>3. QED
      BY <2>1, <2>2, FS_Subset, ReferenceAssumption
  <1>2. Denotes(ref) = {<<ref.object, n, f>> : f \in
            {f \in Field : f \in fields /\ (f = ref.field \/ (ref.field = NoField /\ fields = {f}))}}
    BY <1>1 DEF Denotes, VersionAsked
  <1>3. r.object = ref.object /\ r.version = n /\ r.fields = fields
    BY DEF Envelope
  <1>4. \A f : f \in FieldMeant(r, ref.field)
              <=> f \in fields /\ (f = ref.field \/ (ref.field = NoField /\ fields = {f}))
    <2>1. CASE ref.field # NoField
      BY <1>3, <2>1 DEF FieldMeant
    <2>2. CASE ref.field = NoField
      <3>1. ref.field \notin fields
        BY <1>1, <2>2, ReferenceAssumption
      <3>2. Cardinality(fields) = 1 <=> \E x : fields = {x}
        BY <1>1, FS_Singleton
      <3>3. FieldMeant(r, ref.field) = IF Cardinality(fields) = 1 THEN fields ELSE {}
        BY <1>3, <2>2 DEF FieldMeant
      <3>4. QED
        BY <2>2, <3>1, <3>2, <3>3
    <2>3. QED
      BY <2>1, <2>2
  <1>5. QED
    BY <1>1, <1>2, <1>3, <1>4

\* Whatever the server replies is grounded in what is true at that instant.
LEMMA ServedGrounded ==
    ASSUME TypeOK, NEW c \in Client, asked[c] \in Reference,
           NEW r \in Replies(asked[c], VersionAsked(asked[c]))
    PROVE  Grounded(r, asked[c], Facts(c))
  <1>. DEFINE ref == asked[c]
              n == VersionAsked(ref)
  <1>1. CASE ~reachable
    <2>1. r = Bare("error")
      BY <1>1 DEF Replies
    <2>2. QED
      BY <2>1 DEF Grounded, Bare
  <1>2. CASE reachable /\ Denied(ref)
    <2>1. r = Bare("403")
      BY <1>2 DEF Replies
    <2>2. QED
      BY <1>2, <2>1, FactsOf DEF Grounded, Bare
  <1>3. CASE reachable /\ ~Denied(ref) /\ (~Stored(ref, n) \/ store[ref.object][n].deleted)
    <2>1. r \in {Bare("404"), Bare("nil"), Bare("null data")}
      BY <1>3 DEF Replies
    <2>2. Fact("absent") \in Facts(c)
      BY <1>3, NothingStored, FactsOf
    <2>3. PICK kind \in {"404", "nil", "null data"} : r = Bare(kind)
      BY <2>1
    <2>4. r.kind # "403" /\ r.kind # "envelope"
      <3>1. r.kind = kind
        BY <2>3 DEF Bare
      <3>2. QED
        BY <2>3, <3>1
    <2>5. QED
      BY <2>2, <2>4 DEF Grounded
  <1>4. CASE reachable /\ ~Denied(ref) /\ Stored(ref, n) /\ ~store[ref.object][n].deleted
    <2>1. r = Envelope(ref.object, n)
      BY <1>4 DEF Replies
    <2>2. r.kind = "envelope"
      BY <2>1 DEF Envelope
    <2>3. QED
      BY <1>4, <2>1, <2>2, EnvelopeDenotes, FactsOf DEF Grounded
  <1>5. QED
    BY <1>1, <1>2, <1>3, <1>4

LEMMA GroundedMonotone ==
    ASSUME NEW r, NEW ref, NEW now, NEW later, now \subseteq later, Grounded(r, ref, now)
    PROVE  Grounded(r, ref, later)
  BY DEF Grounded

-----------------------------------------------------------------------------
(* The invariant.                                                          *)

\* A call that goes on keeps its reference, and its window only grows.
LEMMA WindowGrows ==
    ASSUME TypeOK, Next, NEW c \in Client
    PROVE  /\ pc'[c] \in Asking => Facts(c)' \subseteq window'[c] /\ window[c] \subseteq window'[c]
           /\ pc'[c] = "done" => window'[c] = window[c]
  <1>1. Observe
    BY DEF Next
  <1>2. QED
    BY <1>1 DEF Observe, Asking

\* What one step may do to the call of a client.
CallKept(c) ==
    pc'[c] = pc[c] /\ asked'[c] = asked[c] /\ reply'[c] = reply[c] /\ answer'[c] = answer[c]
CallMoved(c) ==
    \/ CallKept(c)
    \/ pc'[c] \in {"idle", "called"}
    \/ Prepare(c) \/ Serve(c) \/ GiveUp(c) \/ Decode(c)

LEMMA StepOfCall ==
    ASSUME TypeOK, Next, NEW c \in Client
    PROVE  CallMoved(c)
  <1>1. ASSUME NEW d \in Client, NEW ref \in Reference \cup {Unparsable}, Call(d, ref)
        PROVE  CallMoved(c)
    BY <1>1 DEF Call, CallMoved, CallKept, TypeOK
  <1>2. ASSUME NEW d \in Client, Prepare(d) PROVE CallMoved(c)
    <2>1. CASE d = c
      BY <1>2, <2>1 DEF CallMoved
    <2>2. CASE d # c
      <3>1. CASE ~live[d]
        BY <1>2, <2>2, <3>1 DEF Prepare, Return, CallMoved, CallKept, TypeOK
      <3>2. CASE live[d] /\ asked[d] = Unparsable
        BY <1>2, <2>2, <3>2 DEF Prepare, Return, CallMoved, CallKept, TypeOK
      <3>3. CASE live[d] /\ asked[d] # Unparsable
        BY <1>2, <2>2, <3>3 DEF Prepare, CallMoved, CallKept, TypeOK
      <3>4. QED
        BY <3>1, <3>2, <3>3
    <2>3. QED
      BY <2>1, <2>2
  <1>3. ASSUME NEW d \in Client, Serve(d) PROVE CallMoved(c)
    BY <1>3 DEF Serve, CallMoved, CallKept, TypeOK
  <1>4. ASSUME NEW d \in Client, GiveUp(d) PROVE CallMoved(c)
    BY <1>4 DEF GiveUp, CallMoved, CallKept, TypeOK
  <1>5. ASSUME NEW d \in Client, Decode(d) PROVE CallMoved(c)
    <2>1. CASE d = c
      BY <1>5, <2>1 DEF CallMoved
    <2>2. CASE d # c
      <3>1. PICK a : Return(d, a)
        BY <1>5, DecodeOutcomes
      <3>2. UNCHANGED <<asked, reply>>
        BY <1>5 DEF Decode
      <3>3. QED
        BY <2>2, <3>1, <3>2 DEF Return, CallMoved, CallKept, TypeOK
    <2>3. QED
      BY <2>1, <2>2
  <1>6. ASSUME NEW d \in Client, Finish(d) PROVE CallMoved(c)
    BY <1>6 DEF Finish, CallMoved, CallKept, TypeOK
  <1>7. ASSUME NEW d \in Client, Cancel(d) PROVE CallMoved(c)
    BY <1>7 DEF Cancel, CallMoved, CallKept
  <1>8. ASSUME UNCHANGED callVars PROVE CallMoved(c)
    BY <1>8 DEF callVars, CallMoved, CallKept
  <1>9. ASSUME NEW auth \in Auth, Authenticate(auth) PROVE UNCHANGED callVars
    BY <1>9 DEF Authenticate
  <1>10. ASSUME NEW o \in Object, Write(o) PROVE UNCHANGED callVars
    BY <1>10 DEF Write
  <1>11. ASSUME NEW o \in Object, NEW n \in 1 .. MaxVersions, Delete(o, n) PROVE UNCHANGED callVars
    BY <1>11 DEF Delete
  <1>12. ASSUME Change PROVE UNCHANGED callVars
    BY <1>12 DEF Change
  <1>13. QED
    BY <1>1, <1>2, <1>3, <1>4, <1>5, <1>6, <1>7, <1>8, <1>9, <1>10, <1>11, <1>12 DEF Next

LEMMA InitInv == Init => VaultInv
  <1>. SUFFICES ASSUME Init PROVE VaultInv
    OBVIOUS
  <1>1. \A c \in Client : pc[c] = "idle"
    BY DEF Init
  <1>2. QED
    BY <1>1, InitTyped
       DEF VaultInv, WindowCovers, OnlyParsedSent, RepliesGrounded, AnswerTruthful, Asking

LEMMA SentStaysParsed == VaultInv /\ Next => OnlyParsedSent'
  <1>. SUFFICES ASSUME VaultInv, Next, NEW c \in Client, pc'[c] \in {"sent", "replied"}
                PROVE  asked'[c] \in Reference
    BY DEF OnlyParsedSent
  <1>1. CASE CallKept(c)
    BY <1>1 DEF CallKept, VaultInv, OnlyParsedSent
  <1>2. CASE Prepare(c)
    <2>1. live[c] /\ asked[c] # Unparsable /\ asked' = asked
      BY <1>2 DEF Prepare, Return, VaultInv, TypeOK
    <2>2. QED
      BY <2>1 DEF VaultInv, TypeOK
  <1>3. CASE Serve(c) \/ GiveUp(c)
    BY <1>3 DEF Serve, GiveUp, VaultInv, OnlyParsedSent
  <1>4. CASE Decode(c)
    <2>1. pc'[c] = "done"
      BY <1>4, DecodeOutcomes DEF Return, VaultInv, TypeOK
    <2>2. QED
      BY <2>1
  <1>5. QED
    BY <1>1, <1>2, <1>3, <1>4, StepOfCall DEF CallMoved, VaultInv

LEMMA RepliesStayGrounded == VaultInv /\ Next => RepliesGrounded'
  <1>. SUFFICES ASSUME VaultInv, Next, NEW c \in Client, pc'[c] = "replied"
                PROVE  Grounded(reply'[c], asked'[c], window'[c])
    BY DEF RepliesGrounded, Grounded
  <1>1. window[c] \subseteq window'[c]
    BY WindowGrows DEF Asking, VaultInv
  <1>2. CASE CallKept(c)
    <2>1. Grounded(reply[c], asked[c], window[c]) /\ reply'[c] = reply[c] /\ asked'[c] = asked[c]
      BY <1>2 DEF CallKept, VaultInv, RepliesGrounded
    <2>2. QED
      BY <1>1, <2>1, GroundedMonotone
  <1>3. CASE Prepare(c)
    BY <1>3 DEF Prepare, Return, VaultInv, TypeOK
  <1>4. CASE Serve(c)
    <2>1. /\ pc[c] = "sent" /\ asked[c] \in Reference /\ asked' = asked
          /\ reply'[c] \in Replies(asked[c], VersionAsked(asked[c]))
      BY <1>4 DEF Serve, VaultInv, TypeOK, OnlyParsedSent
    <2>2. Grounded(reply'[c], asked[c], Facts(c))
      BY <2>1, ServedGrounded DEF VaultInv
    <2>3. Facts(c) \subseteq window'[c]
      BY <1>1, <2>1 DEF VaultInv, WindowCovers, Asking
    <2>4. QED
      BY <2>1, <2>2, <2>3, GroundedMonotone
  <1>5. CASE GiveUp(c)
    <2>1. reply'[c] = Bare("error")
      BY <1>5 DEF GiveUp, VaultInv, TypeOK
    <2>2. QED
      BY <2>1 DEF Grounded, Bare
  <1>6. CASE Decode(c)
    <2>1. pc'[c] = "done"
      BY <1>6, DecodeOutcomes DEF Return, VaultInv, TypeOK
    <2>2. QED
      BY <2>1
  <1>7. QED
    BY <1>2, <1>3, <1>4, <1>5, <1>6, StepOfCall DEF CallMoved, VaultInv

\* A grounded reply is told truthfully.
LEMMA DecodeTruthful ==
    ASSUME VaultInv, NEW c \in Client, Decode(c), window'[c] = window[c]
    PROVE  Truthful(c)'
  <1>1. /\ pc[c] = "replied" /\ Grounded(reply[c], asked[c], window[c])
    BY DEF Decode, VaultInv, RepliesGrounded
  <1>2. PICK a \in Answer :
           /\ Return(c, a)
           /\ \/ reply[c].kind # "envelope" /\ a = Failure(ReasonOf(reply[c].kind))
              \/ /\ reply[c].kind = "envelope" /\ FieldMeant(reply[c], asked[c].field) = {}
                 /\ a = Failure("secret_unresolved")
              \/ /\ reply[c].kind = "envelope"
                 /\ \E f \in FieldMeant(reply[c], asked[c].field) :
                       a = Answered(<<reply[c].object, reply[c].version, f>>, reply[c].version)
    BY DecodeOutcomes DEF VaultInv
  <1>3. answer'[c] = a
    BY <1>2 DEF Return, VaultInv, TypeOK
  <1>4. CASE reply[c].kind # "envelope"
    <2>1. a.reason = ReasonOf(reply[c].kind)
      BY <1>2, <1>4 DEF Failure
    <2>2. a.reason # ""
      BY <2>1 DEF ReasonOf
    <2>3. CASE a.reason = "secret_permission_denied"
      <3>1. reply[c].kind = "403"
        BY <2>1, <2>3 DEF ReasonOf
      <3>2. QED
        BY <1>1, <1>3, <2>3, <3>1 DEF Grounded, Truthful
    <2>4. CASE a.reason = "secret_unresolved"
      <3>1. reply[c].kind \in {"404", "nil"}
        BY <2>1, <2>4 DEF ReasonOf
      <3>2. QED
        BY <1>1, <1>3, <2>4, <3>1 DEF Grounded, Truthful
    <2>5. QED
      BY <1>3, <2>2, <2>3, <2>4 DEF Truthful
  <1>5. CASE reply[c].kind = "envelope" /\ a = Failure("secret_unresolved")
                /\ FieldMeant(reply[c], asked[c].field) = {}
    BY <1>1, <1>3, <1>5 DEF Failure, Grounded, Truthful
  <1>6. CASE reply[c].kind = "envelope" /\ \E f \in FieldMeant(reply[c], asked[c].field) :
                a = Answered(<<reply[c].object, reply[c].version, f>>, reply[c].version)
    <2>1. PICK f \in FieldMeant(reply[c], asked[c].field) :
             a = Answered(<<reply[c].object, reply[c].version, f>>, reply[c].version)
      BY <1>6
    <2>2. /\ a.reason = ""
          /\ a.value = <<reply[c].object, reply[c].version, f>>
          /\ a.version = reply[c].version
      BY <2>1 DEF Answered
    <2>3. Worth(a.value) \in window[c]
      BY <1>1, <1>6, <2>1, <2>2 DEF Grounded
    <2>4. a.value[2] = a.version
      <3>1. <<reply[c].object, reply[c].version, f>>[2] = reply[c].version
        OBVIOUS
      <3>2. QED
        BY <2>2, <3>1, Zenon
    <2>5. QED
      BY <1>3, <2>2, <2>3, <2>4 DEF Truthful
  <1>7. QED
    BY <1>2, <1>4, <1>5, <1>6

LEMMA AnswersStayTruthful == VaultInv /\ Next => AnswerTruthful'
  <1>. SUFFICES ASSUME VaultInv, Next, NEW c \in Client, pc'[c] = "done"
                PROVE  Truthful(c)'
    BY DEF AnswerTruthful
  <1>1. window'[c] = window[c]
    BY WindowGrows DEF VaultInv
  <1>2. CASE CallKept(c)
    BY <1>1, <1>2 DEF CallKept, VaultInv, AnswerTruthful, Truthful
  <1>3. CASE Prepare(c)
    <2>1. CASE ~live[c]
      <3>1. answer'[c] = Failure("secret_backend_unavailable")
        BY <1>3, <2>1 DEF Prepare, Return, VaultInv, TypeOK
      <3>2. QED
        BY <3>1 DEF Failure, Truthful
    <2>2. CASE live[c] /\ asked[c] = Unparsable
      <3>1. answer'[c] = Failure("secret_unresolved") /\ pc[c] = "called"
        BY <1>3, <2>2 DEF Prepare, Return, VaultInv, TypeOK
      <3>2. Fact("absent") \in Facts(c)
        BY <2>2 DEF Facts
      <3>3. Fact("absent") \in window'[c]
        BY <1>1, <3>1, <3>2 DEF VaultInv, WindowCovers, Asking
      <3>4. QED
        BY <3>1, <3>3 DEF Failure, Truthful
    <2>3. CASE live[c] /\ asked[c] # Unparsable
      BY <1>3, <2>3 DEF Prepare, VaultInv, TypeOK
    <2>4. QED
      BY <2>1, <2>2, <2>3
  <1>4. CASE Serve(c) \/ GiveUp(c)
    BY <1>4 DEF Serve, GiveUp, VaultInv, TypeOK
  <1>5. CASE Decode(c)
    BY <1>1, <1>5, DecodeTruthful
  <1>6. QED
    BY <1>2, <1>3, <1>4, <1>5, StepOfCall DEF CallMoved, VaultInv

LEMMA StepInv == VaultInv /\ [Next]_vars => VaultInv'
  <1>1. VaultInv /\ Next => WindowCovers'
    BY WindowGrows DEF WindowCovers, VaultInv
  <1>2. VaultInv /\ Next => VaultInv'
    BY <1>1, NextTyped, SentStaysParsed, RepliesStayGrounded, AnswersStayTruthful DEF VaultInv
  <1>3. ASSUME VaultInv, UNCHANGED vars PROVE VaultInv'
    <2>1. TypeOK'
      BY <1>3, NextTyped DEF VaultInv
    <2>2. \A c \in Client : Facts(c)' = Facts(c)
      BY <1>3 DEF vars, serverVars, callVars, Facts, Denotes, Denied
    <2>3. QED
      BY <1>3, <2>1, <2>2 DEF vars, serverVars, callVars, VaultInv, WindowCovers, OnlyParsedSent,
                              RepliesGrounded, Grounded, AnswerTruthful, Truthful
  <1>4. QED
    BY <1>2, <1>3

\* The adapter keeps its invariant: every reply it holds says what was true of
\* its reference at an instant of the call (source.go:266-399).
THEOREM VaultInvariance == Spec => []VaultInv
  BY InitInv, StepInv, PTL DEF Spec

\* The calls, replies and answers keep their types: a value is a field of a
\* version of an object (source.go:266-370).
THEOREM VaultTypeCorrectness == Spec => []TypeOK
  <1>1. VaultInv => TypeOK
    BY DEF VaultInv
  <1>2. QED
    BY <1>1, VaultInvariance, PTL

\* Every answer of Resolve was true at an instant of the call, whatever is
\* written, deleted or refused meanwhile (source.go:266-399).
THEOREM AnswerTruthfulHolds == Spec => []AnswerTruthful
  <1>1. VaultInv => AnswerTruthful
    BY DEF VaultInv
  <1>2. QED
    BY <1>1, VaultInvariance, PTL
=============================================================================
