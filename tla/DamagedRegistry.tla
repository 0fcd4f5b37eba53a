-------------------------- MODULE DamagedRegistry --------------------------
(***************************************************************************)
(* The commit gate over a registry file that can become unreadable.  Each  *)
(* worker is a process with the records it loaded last.  _load keeps them  *)
(* and sets the corruption flag when the file does not parse;              *)
(* transition_to looks at the flag after the reload and refuses, the       *)
(* commit-gate mutators look at it only before the reload and go on.       *)
(***************************************************************************)
EXTENDS CommitGate

VARIABLES damaged,   \* whether the registry file fails to parse
          memory     \* the records each process loaded last

damageVars == <<gateVars, damaged, memory>>

DamageInit == GateInit /\ damaged = FALSE /\ memory = [w \in Workers |-> ops]

(* A step over a readable file; the steps of the authority do not load it. *)
Loads(w) == loc[w].pc \notin {"authorize", "lookup", "find", "consume", "find_again"}

HealthyStep(w) ==
    /\ ~damaged /\ Work(w)
    /\ memory' = IF Loads(w) THEN [memory EXCEPT ![w] = ops'] ELSE memory
    /\ UNCHANGED damaged

(* The file is damaged from outside.                                       *)
Damage ==
    /\ ~damaged /\ damaged' = TRUE
    /\ UNCHANGED <<gateVars, memory>>

(* _load fails, the mutator works on memory, and _persist replaces the     *)
(* damaged file by it.                                                     *)
StaleWrite(w) ==
    LET k == loc[w].op
        r == receipt_to_dict(loc[w].receipt)
    IN  /\ damaged
        /\ \/ /\ loc[w].pc = "request" /\ Settable(memory[w][k], "request", loc[w].request)
              /\ ops' = SetValue(memory[w], k, "request", loc[w].request,
                                 "authorization_status", "TRUST_COMMITTING")
              /\ Goto(w, "authorize")
           \/ /\ loc[w].pc = "bind" /\ Settable(memory[w][k], "receipt", r)
              /\ ops' = SetReceipt(memory[w], k, r)
              /\ Return(w)
           \/ /\ loc[w].pc \in {"authorization", "consumption"}
              /\ ops' = SetStatus(memory[w], w)
              /\ Return(w)
        /\ memory' = [memory EXCEPT ![w] = ops'] /\ damaged' = FALSE
        /\ UNCHANGED <<store, tables, provided, world>>

(* get() sets the flag, so what follows it raises; an authority call and a *)
(* provider call that is due go on.                                        *)
DamagedStep(w) ==
    /\ damaged
    /\ \/ ~Loads(w) /\ Continue(w)
       \/ ProviderCall(w)
       \/ loc[w].pc \in {"claim", "attach", "dispatch"} /\ Return(w)
          /\ UNCHANGED <<store, tables, ops, provided, world>>
    /\ UNCHANGED <<damaged, memory>>

DamageNext ==
    \/ \E w \in Workers : HealthyStep(w) \/ StaleWrite(w) \/ DamagedStep(w)
    \/ Damage
    \/ (\E x \in Rotations : Rotate(x[1], x[2])) /\ UNCHANGED <<damaged, memory>>

DamageSpec == DamageInit /\ [][DamageNext]_damageVars
=============================================================================
