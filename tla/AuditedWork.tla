----------------------------- MODULE AuditedWork -----------------------------
(***************************************************************************)
(* What an acknowledgement promises, whoever keeps the work: it was done   *)
(* under an id of its own for one tenant, its event is in the audit trail, *)
(* and it is kept where it was acknowledged until that place loses all it  *)
(* has.  EngineWorkflows (a dict for each process), RecordStore (one       *)
(* database, which loses nothing) and MvpRemediation (the dicts of its one *)
(* process) implement it.                                                  *)
(***************************************************************************)
CONSTANTS
    Places,    \* where work is kept
    Volatile,  \* the places that are empty again when their process stops
    Tenants

VARIABLES
    kept,      \* kept[p]: the work at p, each with its id, its tenant and whatever else is kept
    evidence,  \* ids with an event in the audit trail
    promised   \* promised[p]: ids acknowledged by p

vars == <<kept, evidence, promised>>

IdsAt(p) == {w.id : w \in kept[p]}
Used == evidence \cup UNION {IdsAt(p) : p \in Places}

\* Something is new at p, and its id is nobody's.
Do(p) ==
    /\ \E w \in kept'[p] :
          /\ w.id \notin Used /\ w.tenant \in Tenants
          /\ kept' = [kept EXCEPT ![p] = @ \cup {w}]
    /\ UNCHANGED <<evidence, promised>>

Acknowledge(p) ==
    /\ \E id \in IdsAt(p) :
          /\ evidence' = evidence \cup {id}
          /\ promised' = [promised EXCEPT ![p] = @ \cup {id}]
    /\ UNCHANGED kept

Lose(p) ==
    /\ p \in Volatile
    /\ kept' = [kept EXCEPT ![p] = {}]
    /\ promised' = [promised EXCEPT ![p] = {}]
    /\ UNCHANGED evidence

Init ==
    /\ kept = [p \in Places |-> {}]
    /\ evidence = {}
    /\ promised = [p \in Places |-> {}]

Next == \E p \in Places : Do(p) \/ Acknowledge(p) \/ Lose(p)

Spec == Init /\ [][Next]_vars
=============================================================================
