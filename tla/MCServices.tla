----------------------------- MODULE MCServices -----------------------------
(* The registry of names, the gate of the requests and the write sessions,  *)
(* side by side: each moves while the others are where they start, so their *)
(* states add up.                                                           *)
EXTENDS NameRegistry, Gate, Sessions, TLC

CONSTANTS n1, n2, x1, x2, x3, m1, m2, m3, h1, h2, label

\* Registry: the order of the names as keys.
MCRank == (n1 :> 1) @@ (n2 :> 2)

\* Registry: one change of existing environments at a time, beside any
\* creations, and the sweeper alone.
Carefully ==
    LET pairs == {{"create"}, {"create", "rename"}, {"create", "replace"}, {"create", "fork"},
                  {"fork"}}
    IN  {p \in Kinds \X Kinds : {p[1], p[2]} \in pairs}

\* What the code allows, for which Addressable does not hold.
Freely == Kinds \X Kinds

\* Gate: two environments and one to come, the second holding an ancestor of
\* what the first holds; an administrator, an owner bound to the first, a guest.
MCParents == (h1 :> {}) @@ (h2 :> {h1})
MCNames == (m1 :> x1) @@ (m2 :> x2) @@ (m3 :> None)
MCRefs == (x1 :> {h2}) @@ (x2 :> {h1}) @@ (x3 :> {})
ByName(S) == [kind |-> "name", names |-> S]
Root(p, ops, selectors, e) ==
    [principal |-> p, ops |-> ops, selectors |-> selectors, env |-> e, commit |-> None,
     from |-> 0, until |-> 2]
MCRoots == {Root("admin", Operations \ {"write"}, {ByName(EnvNames)}, None),
            Root("owner", {"read", "write"}, {ByName({m1, m3})}, x1),
            Root("guest", {"read"}, {[kind |-> "labels", required |-> {label}],
                                    [kind |-> "id", env |-> x2]}, None)}

\* Keys, callers and clients are alike; names are in order.
Symmetry ==
    Permutations(Callers) \cup Permutations(Keys) \cup Permutations(Clients)

ServicesInit == Init /\ GateInit /\ SessionsInit

\* Each counts what it does.
RegistryRests == asks = 0
GateRests == asked = 0 /\ now = 0
SessionsRest == issued = [opened |-> 0, requests |-> 0] /\ clock = 0

ServicesNext ==
    \/ GateRests /\ SessionsRest /\ Next /\ UNCHANGED <<gateVars, sessionVars>>
    \/ RegistryRests /\ SessionsRest /\ GateNext /\ UNCHANGED <<vars, sessionVars>>
    \/ RegistryRests /\ GateRests /\ SessionsNext /\ UNCHANGED <<vars, gateVars>>

ServicesSpec == ServicesInit /\ [][ServicesNext]_<<vars, gateVars, sessionVars>>
=============================================================================
