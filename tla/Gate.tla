-------------------------------- MODULE Gate --------------------------------
(***************************************************************************)
(* Who may do what (auth/model.py, auth/tokens.py, auth/policy.py) and the *)
(* gate every request passes (api/deps.py, api/routes.py).  A request is   *)
(* verified by its token alone, finds the environment a name stands for,   *)
(* is authorized on that environment's record and, where it names a        *)
(* commit, has the commit bound to the environment; only then it acts.     *)
(* Each is a step of its own: other requests rename environments and move  *)
(* refs in between, and share the memory of commits found reachable.       *)
(***************************************************************************)
EXTENDS Naturals, Sequences, SequencesExt, FiniteSets

CONSTANTS
    Environments,
    EnvNames,
    None,
    Labels,         \* label pairs an environment may carry
    Commits,
    Parents,        \* the commit graph
    Swept,          \* commits the store no longer holds
    Roots,          \* tokens that are not minted from another
    FirstNames, FirstRefs,  \* where the registry and the refs start
    Clients,        \* requests in flight at once
    MaxWalk,        \* MAX_ANCESTRY_WALK
    MaxAnswers,     \* MAX_MEMOIZED_ANSWERS
    TicketLife,     \* DEFAULT_TICKET_TTL_US
    MintOps, MintPins,      \* what a minted token may be asked for
    MaxClock, MaxRequests   \* bounds

Operations == {"read", "write", "fork", "create", "admin"}

VARIABLES
    now,
    minted,     \* tokens minted by narrowing, each with the one it came from
    standsFor,  \* the environment a name resolves to
    carries,    \* the labels of an environment
    claimOnly,  \* environments whose name is claimed and whose record is not there
    live,       \* the commits an environment's refs point at
    yes,        \* ReachabilityChecker: <<environment, commit>>, least recent first
    ticket,     \* the content ticket issued last
    request,    \* what each request is doing
    asked,      \* how many requests there were
    ever        \* history: what was ever reachable in each environment

gateVars == <<now, minted, standsFor, carries, claimOnly, live, yes, ticket, request, asked, ever>>

ASSUME GateAssumption ==
    /\ Parents \in [Commits -> SUBSET Commits] /\ Swept \subseteq Commits
    /\ {MaxWalk, MaxAnswers, TicketLife} \subseteq Nat \ {0}

Waiting == [step |-> "waiting"]

Tokens == Roots \cup {m.token : m \in minted}
NameOf(e) == CHOOSE n \in EnvNames : standsFor[n] = e

-----------------------------------------------------------------------------
\* Scopes

\* Exact, by name prefix, by labels: each one looks at what it needs.
Matches(selector, e, name, labels) ==
    CASE selector.kind = "id"     -> selector.env = e
      [] selector.kind = "name"   -> name \in selector.names
      [] selector.kind = "labels" -> selector.required \subseteq labels

\* Scope.permits: the pin, then the operation, then any selector.
Permits(token, op, e, name, labels) ==
    /\ token.env \in {None, e}
    /\ op \in token.ops
    /\ \E s \in token.selectors : Matches(s, e, name, labels)

\* Faulty variant: the pin is not looked at.
CouldNameUnpinned(token, name) ==
    \E s \in token.selectors : s.kind = "name" /\ name \in s.names

\* Scope.could_name: whether the token holds the namespace of a name that may
\* stand for nothing.
CouldName(token, name) ==
    /\ token.env = None
    /\ \E s \in token.selectors : s.kind = "name" /\ name \in s.names

\* Faulty variant: a pin can be replaced by another.
NarrowRepinned(token, ops, e) ==
    [token EXCEPT !.ops = @ \cap ops, !.env = IF e # None THEN e ELSE @]

\* Scope.narrow: fewer operations, and a pin that stays once it is set.
Narrow(token, ops, e) ==
    [token EXCEPT !.ops = @ \cap ops, !.env = IF @ = None THEN e ELSE @]

-----------------------------------------------------------------------------
\* Reachability

\* The commits walked from some targets, in order, until the wanted one is
\* met: the last one found is followed first, and one the store does not hold
\* leads nowhere.
RECURSIVE Walked(_, _, _)
Walked(frontier, seen, wanted) ==
    IF frontier = <<>> \/ Len(seen) = MaxWalk THEN seen
    ELSE LET c    == Last(frontier)
             next == IF c \in Swept THEN <<>> ELSE SetToSeq(Parents[c])
         IN  CASE c \in ToSet(seen) -> Walked(Front(frontier), seen, wanted)
               [] c = wanted        -> Append(seen, c)
               [] OTHER             -> Walked(Front(frontier) \o next, Append(seen, c), wanted)

Remember(answers, new) ==
    LET kept == SelectSeq(answers, LAMBDA x : x # new) \o <<new>>
    IN  IF Len(kept) > MaxAnswers THEN Tail(kept) ELSE kept

\* Faulty variant: an answer is remembered for every environment.
RememberAnywhere(e, commits) ==
    FoldLeft(LAMBDA answers, c :
                FoldLeft(Remember, answers, SetToSeq({<<d, c>> : d \in Environments})),
             yes, commits)

\* _remember: most recent last, the least recent goes when there are too many.
RememberAll(e, commits) ==
    FoldLeft(LAMBDA answers, c : Remember(answers, <<e, c>>), yes, commits)

\* What the refs of an environment reach, in full.
RECURSIVE Ancestors(_)
Ancestors(C) ==
    LET more == C \cup UNION {Parents[c] : c \in C} IN IF more = C THEN C ELSE Ancestors(more)

Reachable(targets) == {<<e, c>> \in Environments \X Commits : c \in Ancestors(targets[e])}

-----------------------------------------------------------------------------
GateInit ==
    /\ now = 0
    /\ minted = {}
    /\ standsFor = FirstNames
    /\ carries = [e \in Environments |-> {}]
    /\ claimOnly = {}
    /\ live = FirstRefs
    /\ yes = <<>>
    /\ ticket = None
    /\ request = [r \in Clients |-> Waiting]
    /\ asked = 0
    /\ ever = Reachable(live)

Turn(r, next) == request' = [request EXCEPT ![r] = next]
Answer(r, how) == Turn(r, Waiting)
Counted == asked < MaxRequests /\ asked' = asked + 1

\* What no step of the gate itself changes.
Quiet == UNCHANGED <<now, minted, standsFor, carries, claimOnly, live, ticket, ever>>

-----------------------------------------------------------------------------
\* The gate

\* TokenVerifier.verify: the signature and the dates, and nothing else.
Valid(token) == token.from <= now /\ now < token.until

\* What authorize_env makes of a name: the environment, or the answer.
Resolved(token, name, names) ==
    IF names[name] # None THEN names[name]
    ELSE IF CouldName(token, name) THEN "not found" ELSE "forbidden"

\* A request on an environment, by name: what it will do there, to which
\* commit, or under which new name.
Arrive(r, token, op, name, about) ==
    /\ request[r] = Waiting /\ Valid(token) /\ Counted
    /\ LET found == Resolved(token, name, standsFor)
       IN  IF found \notin Environments THEN Answer(r, found)
           ELSE Turn(r, [step |-> "authorize", token |-> token, op |-> op, name |-> name,
                         env |-> found, about |-> about])
    /\ UNCHANGED yes /\ Quiet

\* PolicyEngine.authorize: the record of that environment as it is now.
Authorized(token, op, e) == Permits(token, op, e, NameOf(e), carries[e])

\* get_env raises when the record a claim names is not there (yet); that answer
\* goes out as it is, whoever asks.
Judged(token, op, e) ==
    IF e \in claimOnly THEN "not found"
    ELSE IF Authorized(token, op, e) THEN "through" ELSE "forbidden"

Authorize(r) ==
    /\ request[r].step = "authorize"
    /\ LET q == request[r]
           verdict == Judged(q.token, q.op, q.env)
       IN  IF verdict # "through" THEN Answer(r, verdict)
           ELSE Turn(r, [q EXCEPT !.step = IF q.op = "read" THEN "recall" ELSE "act"])
    /\ UNCHANGED <<yes, asked>> /\ Quiet

\* authorize_commit: the token's own commit, then the memory; another request
\* may push the answer out between the look and the touch.
Recall(r) ==
    /\ request[r].step = "recall"
    /\ LET q == request[r]
       IN  IF q.token.commit \notin {None, q.about} THEN Answer(r, "forbidden")
           ELSE Turn(r, [q EXCEPT !.step = IF <<q.env, q.about>> \in ToSet(yes) THEN "touch"
                                           ELSE "walk"])
    /\ UNCHANGED <<yes, asked>> /\ Quiet

Touch(r) ==
    /\ request[r].step = "touch"
    /\ LET q == request[r]
           answer == <<q.env, q.about>>
       IN  IF answer \notin ToSet(yes) THEN Answer(r, "error") /\ UNCHANGED yes
           ELSE /\ yes' = Remember(yes, answer)
                /\ Turn(r, [q EXCEPT !.step = "act"])
    /\ UNCHANGED asked /\ Quiet

\* The walk from the refs there are: everything on the way is remembered.
WalkRefs(r) ==
    /\ request[r].step = "walk"
    /\ LET q    == request[r]
           seen == IF q.about \in live[q.env] THEN <<q.about>>
                   ELSE Walked(SetToSeq(live[q.env]), <<>>, q.about)
       IN  /\ yes' = RememberAll(q.env, seen)
           /\ IF q.about \in ToSet(seen) THEN Turn(r, [q EXCEPT !.step = "act"])
              ELSE Answer(r, "forbidden")
    /\ UNCHANGED asked /\ Quiet

-----------------------------------------------------------------------------
\* What the routes do once they are through

Through(r, op) == request[r].step = "act" /\ request[r].op = op

\* get_commit, log, list_directory, read_file, get_build, content: what
\* belongs to the bound commit goes out.
SendContent(r) ==
    /\ Through(r, "read") \/ request[r].step = "send"
    /\ Answer(r, "content")
    /\ UNCHANGED <<yes, asked>> /\ Quiet

\* TicketSigner.issue; the request stays with it as history.
Ticket(q) == [commit |-> q.about, principal |-> q.token.principal,
              until |-> now + TicketLife, granted |-> q]

\* read_file with inline=false: a ticket for it, bound to who asked.
IssueTicket(r) ==
    /\ Through(r, "read")
    /\ ticket' = Ticket(request[r])
    /\ Answer(r, "ticket")
    /\ UNCHANGED <<now, minted, standsFor, carries, claimOnly, live, yes, asked, ever>>

\* Faulty variant: the signature is not over the object.
SignedForAnything(t, commit, principal) == t.principal = principal

\* TicketSigner.verify: the object and the principal are what was signed.
Signed(t, commit, principal) == t.commit = commit /\ t.principal = principal

\* content: a ticket alone lets the request in.
Redeem(r, commit, principal) ==
    /\ request[r] = Waiting /\ Counted
    /\ ticket # None
    /\ Signed(ticket, commit, principal) /\ now < ticket.until
    /\ Turn(r, [ticket.granted EXCEPT !.step = "send", !.about = commit])
    /\ UNCHANGED yes /\ Quiet

Becomes(names, labels, targets) ==
    /\ standsFor' = names /\ carries' = labels /\ live' = targets
    /\ ever' = ever \cup Reachable(targets)
    /\ UNCHANGED <<now, minted, yes, ticket>>

\* A ref that pointed at old, if at anything, points at new, if it is there
\* at all; another may point at old too.
Repointed(targets, old, new) == (targets \ {old}) \cup ({new} \ {None})

\* Faulty variant: the route looks its name up again.
MoveRefByName(r, old) ==
    /\ Through(r, "write")
    /\ LET e == standsFor[request[r].name]
       IN  /\ e # None /\ old \in live[e] \cup {None}
           /\ Becomes(standsFor, carries,
                      [live EXCEPT ![e] = Repointed(@, old, request[r].about)])
    /\ Answer(r, "moved")
    /\ UNCHANGED <<claimOnly, asked>>

\* update_ref, create_ref, delete_ref: in the environment that was authorized.
MoveRef(r, old) ==
    /\ Through(r, "write")
    /\ LET q == request[r]
       IN  /\ old \in live[q.env] \cup {None}
           /\ Becomes(standsFor, carries,
                      [live EXCEPT ![q.env] = Repointed(@, old, q.about)])
    /\ Answer(r, "moved")
    /\ UNCHANGED <<claimOnly, asked>>

\* update_env: a new name must be one the token holds, and free; the labels
\* change after it.
UpdateEnv(r, labels) ==
    /\ Through(r, "admin")
    /\ LET q   == request[r]
           old == NameOf(q.env)
           may == CouldName(q.token, q.about) /\ standsFor[q.about] = None
       IN  IF q.about # old /\ ~may THEN UNCHANGED yes /\ Quiet
           ELSE /\ Becomes(IF q.about = old THEN standsFor
                           ELSE [standsFor EXCEPT ![old] = None, ![q.about] = q.env],
                           [carries EXCEPT ![q.env] = labels], live)
                /\ UNCHANGED claimOnly
    /\ Answer(r, "updated")
    /\ UNCHANGED asked

Unborn == {e \in Environments : \A n \in EnvNames : standsFor[n] # e}

\* fork_env: the new environment starts at the commit its source is at; its
\* record, and then the ref, come after the claim.
ForkEnv(r) ==
    /\ Through(r, "fork")
    /\ LET q == request[r]
       IN  \/ /\ standsFor[q.about] = None
              /\ \E e \in Unborn, c \in live[q.env] :
                   /\ Becomes([standsFor EXCEPT ![q.about] = e], carries,
                              [live EXCEPT ![e] = {c}])
                   /\ claimOnly' = claimOnly \cup {e}
           \/ /\ standsFor[q.about] # None \/ live[q.env] = {}
              /\ UNCHANGED yes /\ Quiet
    /\ Answer(r, "forked")
    /\ UNCHANGED asked

\* create_env: the operation alone is no authority over the name.  The claim ...
CreateEnv(token, name, labels) ==
    /\ Valid(token) /\ "create" \in token.ops
    /\ CouldName(token, name) /\ standsFor[name] = None
    /\ Counted
    /\ \E e \in Unborn : /\ Becomes([standsFor EXCEPT ![name] = e],
                                     [carries EXCEPT ![e] = labels], live)
                           /\ claimOnly' = claimOnly \cup {e}
    /\ UNCHANGED request

\* ... and the record, in another database; never, if the process dies.
WriteRecord(e) ==
    /\ claimOnly' = claimOnly \ {e}
    /\ UNCHANGED <<now, minted, standsFor, carries, live, yes, ticket, request, asked, ever>>

\* TokenSigner.mint, for an instant.
Dated(token, commit) == [token EXCEPT !.from = now, !.until = now + 1, !.commit = commit]

\* mint_token: any valid token may be narrowed; its commit and its dates are
\* the request's.  A minted token stays, so a bound costs nothing here: it is
\* minted while no other request is under way.
Mint(token, ops, e, commit) ==
    /\ Valid(token) /\ Counted
    /\ ops \subseteq token.ops
    /\ \A r \in Clients : request[r] = Waiting
    /\ minted' = minted \cup
          {[source |-> token, token |-> Dated(Narrow(token, ops, e), commit)]}
    /\ UNCHANGED <<now, standsFor, carries, claimOnly, live, yes, ticket, request, ever>>

Tick ==
    /\ now < MaxClock /\ now' = now + 1
    /\ UNCHANGED <<minted, standsFor, carries, claimOnly, live, yes, ticket, request, asked, ever>>

About(op) == CASE op = "read" -> Commits [] op = "write" -> Commits \cup {None}
               [] OTHER -> EnvNames

GateNext ==
    \/ Tick
    \/ \E e \in claimOnly : WriteRecord(e)
    \/ \E t \in Tokens :
          \/ \E ops \in MintOps, e \in MintPins, c \in Commits \cup {None} : Mint(t, ops, e, c)
          \/ \E n \in EnvNames, l \in SUBSET Labels : CreateEnv(t, n, l)
    \/ \E r \in Clients :
          \/ \E t \in Tokens, n \in EnvNames : \E op \in t.ops \ {"create"} :
                \E x \in About(op) : Arrive(r, t, op, n, x)
          \/ Authorize(r) \/ Recall(r) \/ Touch(r) \/ WalkRefs(r)
          \/ SendContent(r) \/ IssueTicket(r) \/ ForkEnv(r)
          \/ \E old \in Commits \cup {None} : MoveRef(r, old)
          \/ \E l \in SUBSET Labels : UpdateEnv(r, l)
          \/ \E c \in Commits, p \in {t.principal : t \in Tokens} : Redeem(r, c, p)
-----------------------------------------------------------------------------
\* Properties

\* The shape of the gate's state; no environment answers to two names; the
\* shared memory is never over its limit, and what it holds was true when learnt.
GateTypeOK ==
    /\ standsFor \in [EnvNames -> Environments \cup {None}]
    /\ \A m, n \in EnvNames : standsFor[m] = standsFor[n] => m = n \/ standsFor[m] = None
    /\ \A r \in Clients : request[r].step \in
          {"waiting", "authorize", "recall", "touch", "walk", "act", "send"}
    /\ Len(yes) <= MaxAnswers /\ IsInjective(yes)
    /\ ToSet(yes) \subseteq ever

\* Whatever is sent of a commit, by token or by ticket, the commit was part of
\* the environment the reader was let into, and no other than the one the
\* token is bound to: a name from elsewhere opens nothing.
SentWasReachable ==
    \A r \in Clients :
        Through(r, "read") \/ request[r].step = "send" =>
            LET q == request[r]
            IN  <<q.env, q.about>> \in ever /\ q.token.commit \in {None, q.about}

\* A ref moves only under a token bound to no other environment, whatever is
\* renamed while its request is under way.
PinHolds ==
    [][\A e \in Environments \ Unborn : live'[e] # live[e] =>
          \E r \in Clients : /\ Through(r, "write") /\ request'[r] = Waiting
                             /\ request[r].token.env \in {None, e}]_gateVars

\* A minted token may do nothing the one it was minted from may not: there is
\* no environment, operation or namespace it gains.
NarrowsOnly ==
    \A m \in minted : \A op \in Operations, e \in Environments \ Unborn, n \in EnvNames :
        /\ Authorized(m.token, op, e) => Authorized(m.source, op, e)
        /\ CouldName(m.token, n) => CouldName(m.source, n)

\* Nothing is sent on the strength of what was true of something else: not the
\* memory of commits, not a ticket, not a name that has moved; and tokens only
\* narrow.
GateInv == GateTypeOK /\ SentWasReachable /\ NarrowsOnly

-----------------------------------------------------------------------------
\* What the documentation says and the code does not keep (README,
\* "Divergences").

\* Who holds the namespace a name is in.
Holds(token, name) ==
    token.env = None /\ \E s \in token.selectors : s.kind = "name" /\ name \in s.names

\* A caller who does not hold a namespace and may not touch an environment in
\* it gets the answer for its name that an absent one gets.
RefusalTellsNothing ==
    \A t \in Tokens, op \in Operations, n \in EnvNames :
        LET e == standsFor[n]
        IN  e # None /\ ~Holds(t, n) /\ Judged(t, op, e) # "through" =>
                Judged(t, op, e) = Resolved(t, n, [standsFor EXCEPT ![n] = None])
=============================================================================
