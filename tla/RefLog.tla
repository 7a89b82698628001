------------------------------- MODULE RefLog -------------------------------
(***************************************************************************)
(* What one environment's refs promise their callers, with no concurrency  *)
(* in sight: each mutation happens at one instant.  It decides on the      *)
(* state the ref is in at that instant, moves the generation on by exactly *)
(* one, and the operation log records where the ref was and where it went. *)
(***************************************************************************)
EXTENDS Naturals, Sequences

CONSTANTS Refs,      \* ref names of the environment
          Targets,   \* commit names a ref may point at
          NoTarget   \* "points at nothing" (None in the code)

VARIABLES refs,      \* ref name -> [target, generation]
          log        \* the operation log, oldest first

vars == <<refs, log>>

\* A ref that does not exist.
Gone == [target |-> NoTarget, generation |-> 0]

Exists(r) == refs[r] # Gone

Init ==
    /\ refs = [r \in Refs |-> Gone]
    /\ log = <<>>

\* One mutation: the ref takes the new value and the log says so.
Record(r, value, kind) ==
    /\ refs' = [refs EXCEPT ![r] = value]
    /\ log' = Append(log, [kind |-> kind, ref |-> r,
                           before |-> refs[r].target, after |-> value.target])

Create(r, t) ==
    /\ ~Exists(r)
    /\ Record(r, [target |-> t, generation |-> 1], "CreateRef")

Move(r, t) ==
    /\ Exists(r)
    /\ \E kind \in {"UpdateRef", "Undo"} :
          Record(r, [target |-> t, generation |-> refs[r].generation + 1], kind)

Drop(r) ==
    /\ Exists(r)
    /\ Record(r, Gone, "DeleteRef")

Next ==
    \E r \in Refs :
        \/ \E t \in Targets : Create(r, t) \/ Move(r, t)
        \/ Drop(r)

Spec == Init /\ [][Next]_vars
=============================================================================
