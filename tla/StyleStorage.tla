---------------------------- MODULE StyleStorage ----------------------------
(***************************************************************************)
(* What the scope registry promises about style storage, without any       *)
(* mechanism: storage that an object uses is not released while the        *)
(* engine runs, and once released it is never used again.                  *)
(***************************************************************************)
CONSTANTS Scopes, Objs

VARIABLES
  running,    (* the engine is initialised                                 *)
  storage,    (* none, allocated or released                               *)
  users       (* the objects that point into the storage                   *)

absVars == <<running, storage, users>>

Init ==
  /\ running = TRUE
  /\ storage = [s \in Scopes |-> "none"]
  /\ users = [s \in Scopes |-> {}]

\* A definition is loaded, and the definitions R that it replaces go.
Load(s, R) ==
  /\ running
  /\ storage[s] = "none"
  /\ \A r \in R : storage[r] = "allocated" /\ users[r] = {}
  /\ \E kept \in {"allocated", "released"} :
       storage' = [x \in Scopes |-> IF x = s THEN kept
                                    ELSE IF x \in R THEN "released"
                                    ELSE storage[x]]
  /\ UNCHANGED <<running, users>>

Reclaim(s) ==
  /\ running
  /\ storage[s] = "allocated"
  /\ users[s] = {}
  /\ storage' = [storage EXCEPT ![s] = "released"]
  /\ UNCHANGED <<running, users>>

\* A new object points into the storage of the scopes H.
Use(o, H) ==
  /\ running
  /\ \A s \in H : storage[s] = "allocated" /\ o \notin users[s]
  /\ users' = [s \in Scopes |-> IF s \in H THEN users[s] \cup {o}
                                ELSE users[s]]
  /\ UNCHANGED <<running, storage>>

Leave(O) ==
  /\ users' = [s \in Scopes |-> users[s] \ O]
  /\ UNCHANGED <<running, storage>>

Shutdown ==
  /\ running
  /\ running' = FALSE
  /\ storage' = [s \in Scopes |-> IF storage[s] = "allocated" THEN "released"
                                  ELSE storage[s]]
  /\ UNCHANGED users

Next ==
  \/ \E s \in Scopes, R \in SUBSET Scopes : Load(s, R)
  \/ \E s \in Scopes : Reclaim(s)
  \/ \E o \in Objs, H \in SUBSET Scopes : Use(o, H)
  \/ \E O \in SUBSET Objs : Leave(O)
  \/ Shutdown

Spec == Init /\ [][Next]_absVars
=============================================================================
