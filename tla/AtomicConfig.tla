---------------------------- MODULE AtomicConfig ----------------------------
(***************************************************************************)
(* What a Config handle promises its callers (src/config.go:376-381): a    *)
(* tree is replaced as a whole, only by a complete tree, and a read that   *)
(* overlaps replacements answers with one tree that was the active one at  *)
(* some instant between its call and its return.                           *)
(***************************************************************************)
CONSTANTS Reader,     \* the goroutines that read the configuration
          Complete,   \* the fully resolved trees
          Nothing     \* no tree

VARIABLES current,    \* the active tree, Nothing before LoadFrom returns
          status,     \* how far the read of each reader has come
          chosen,     \* the tree the read answers from
          answer      \* what the read returned

atomicVars == <<current, status, chosen, answer>>

AtomicInit ==
    /\ current = Nothing
    /\ status = [p \in Reader |-> "idle"]
    /\ chosen = [p \in Reader |-> Nothing]
    /\ answer = [p \in Reader |-> Nothing]

\* LoadFrom or RefreshSecrets makes a complete tree the active one.
Install ==
    /\ current' \in Complete
    /\ UNCHANGED <<status, chosen, answer>>

Invoke(p) ==
    /\ status[p] = "idle"
    /\ current # Nothing
    /\ status' = [status EXCEPT ![p] = "pending"]
    /\ UNCHANGED <<current, chosen, answer>>

\* The instant at which the read takes effect.
Choose(p) ==
    /\ status[p] = "pending"
    /\ status' = [status EXCEPT ![p] = "chosen"]
    /\ chosen' = [chosen EXCEPT ![p] = current]
    /\ UNCHANGED <<current, answer>>

Respond(p) ==
    /\ status[p] = "chosen"
    /\ status' = [status EXCEPT ![p] = "answered"]
    /\ answer' = [answer EXCEPT ![p] = chosen[p]]
    /\ chosen' = [chosen EXCEPT ![p] = Nothing]
    /\ UNCHANGED current

Finish(p) ==
    /\ status[p] = "answered"
    /\ status' = [status EXCEPT ![p] = "idle"]
    /\ answer' = [answer EXCEPT ![p] = Nothing]
    /\ UNCHANGED <<current, chosen>>

AtomicNext ==
    \/ Install
    \/ \E p \in Reader : Invoke(p) \/ Choose(p) \/ Respond(p) \/ Finish(p)

AtomicSpec == AtomicInit /\ [][AtomicNext]_atomicVars
=============================================================================
