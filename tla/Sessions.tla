------------------------------ MODULE Sessions ------------------------------
(***************************************************************************)
(* Write sessions (meta/repository.py, api/routes.py): a client opens one, *)
(* uploads under it on several connections at once, renews it and closes   *)
(* it, or leaves it behind.  Each request reads the session and its pages  *)
(* and then writes one transaction.  What is recorded under a session that *)
(* has not expired is out of the collector's reach (maintenance/gc.py).    *)
(*                                                                         *)
(* Nothing removes a session nobody closes.  The date a page is stamped    *)
(* with is read by nobody and left out.                                    *)
(***************************************************************************)
EXTENDS Naturals, FiniteSets, FiniteSetsExt

CONSTANTS
    Uploaders,   \* connections
    Uploadable,  \* names of objects
    PageSize,    \* _SESSION_PAGE_SIZE
    ListLimit,   \* how many sessions list_sessions returns, the oldest ones
    Lifetime,    \* WRITE_LEASE_TTL_US
    MaxSessions, MaxSessionCalls, MaxTime   \* bounds

ASSUME SessionsAssumption ==
    /\ IsFiniteSet(Uploadable) /\ PageSize \in Nat \ {0} /\ ListLimit \in Nat
    /\ Lifetime \in Nat

VARIABLES
    sessions,    \* the records: [id, until]; ids grow with time
    pages,       \* [session, index, names]
    doing,       \* what each connection is doing
    kept,        \* history: <<session, name>> an upload was told is recorded
    closed,      \* history: sessions closed
    overlapped,  \* history: sessions with a request beside one that closes them
    clock,
    issued       \* sessions opened and requests made

sessionVars == <<sessions, pages, doing, kept, closed, overlapped, clock, issued>>

NotDoing == [step |-> "idle"]

SessionsInit ==
    /\ sessions = {} /\ pages = {} /\ kept = {} /\ closed = {} /\ overlapped = {}
    /\ doing = [u \in Uploaders |-> NotDoing]
    /\ clock = 0
    /\ issued = [opened |-> 0, requests |-> 0]

PagesOf(s) == {p \in pages : p.session = s}
Uploaded(s) == UNION {p.names : p \in PagesOf(s)}

\* The pages whose keys are not those of the ones given.
Beside(given) == {p \in pages : \A x \in given : <<p.session, p.index>> # <<x.session, x.index>>}

\* begin_write: a session with a lease.
OpenSession ==
    /\ issued.opened < MaxSessions /\ issued' = [issued EXCEPT !.opened = @ + 1]
    /\ sessions' = sessions \cup {[id |-> issued.opened + 1, until |-> clock + Lifetime]}
    /\ UNCHANGED <<pages, doing, kept, closed, overlapped, clock>>

\* A request on a session; but to close it, the session must be there.
BeginRequest(u, kind, s, names, until) ==
    /\ doing[u] = NotDoing
    /\ issued.requests < MaxSessionCalls /\ issued' = [issued EXCEPT !.requests = @ + 1]
    /\ doing' = [doing EXCEPT ![u] =
          [step |-> "read", kind |-> kind, id |-> s, names |-> names, until |-> until, held |-> {}]]
    /\ overlapped' = overlapped \cup
          {x \in {s} : \E v \in Uploaders : /\ doing[v] # NotDoing /\ doing[v].id = x
                                            /\ (kind = "end") # (doing[v].kind = "end")}
    /\ UNCHANGED <<sessions, pages, kept, closed, clock>>

\* put_object, once the object is stored: record_uploaded gets the session,
\* expired or not.
PutObject(u) ==
    \E x \in sessions, names \in SUBSET Uploadable \ {{}} : BeginRequest(u, "upload", x.id, names, 0)

\* renew_session: one that has expired is not renewed.
Renew(u) ==
    \E x \in sessions : x.until > clock /\ BeginRequest(u, "renew", x.id, {}, clock + Lifetime)

\* end_session
EndWrite(u) == \E s \in 1 .. issued.opened : BeginRequest(u, "end", s, {}, 0)

\* The pages are read in a query of their own.
ReadPages(u) ==
    /\ doing[u].step = "read"
    /\ doing' = [doing EXCEPT ![u].step = "write", ![u].held = PagesOf(doing[u].id)]
    /\ UNCHANGED <<sessions, pages, kept, closed, overlapped, clock, issued>>

\* Faulty variant: pages are numbered from one.
NextIndexFromOne(held) == Cardinality(held) + 1

\* The number of the next page.
NextIndex(held) == Cardinality(held)

\* What is not recorded yet, in pages of the size allowed.
Fresh(q) ==
    LET new   == q.names \ UNION {p.names : p \in q.held}
        count == (Cardinality(new) + PageSize - 1) \div PageSize
    IN  {S \in [0 .. count - 1 -> SUBSET new] :
           /\ UNION {S[i] : i \in DOMAIN S} = new
           /\ \A i \in DOMAIN S : Cardinality(S[i]) <= PageSize
           /\ \A i \in DOMAIN S : i < count - 1 => Cardinality(S[i]) = PageSize}

\* Faulty variant: a page that is there is written over.
RecordUploadedOver(u) ==
    LET q == doing[u]
    IN  /\ q.step = "write" /\ q.kind = "upload"
        /\ \E S \in Fresh(q) :
              LET new == {[session |-> q.id, index |-> NextIndex(q.held) + i, names |-> S[i]] :
                            i \in DOMAIN S}
              IN  /\ pages' = Beside(new) \cup new
                  /\ kept' = kept \cup ({q.id} \X q.names)
        /\ doing' = [doing EXCEPT ![u] = NotDoing]
        /\ UNCHANGED <<sessions, closed, overlapped, clock, issued>>

\* record_uploaded: the pages are new, or the upload is refused for a conflict.
RecordUploaded(u) ==
    LET q == doing[u]
    IN  /\ q.step = "write" /\ q.kind = "upload"
        /\ \E S \in Fresh(q) :
              LET new == {[session |-> q.id, index |-> NextIndex(q.held) + i, names |-> S[i]] :
                            i \in DOMAIN S}
              IN  IF Beside(new) # pages
                  THEN UNCHANGED <<pages, kept>>
                  ELSE /\ pages' = pages \cup new
                       /\ kept' = kept \cup ({q.id} \X q.names)
        /\ doing' = [doing EXCEPT ![u] = NotDoing]
        /\ UNCHANGED <<sessions, closed, overlapped, clock, issued>>

\* The record and the pages read are put back under their keys, there or not.
PutRenewed(u) ==
    LET q == doing[u]
    IN  /\ q.step = "write" /\ q.kind = "renew"
        /\ sessions' = {x \in sessions : x.id # q.id} \cup {[id |-> q.id, until |-> q.until]}
        /\ pages' = Beside(q.held) \cup q.held
        /\ doing' = [doing EXCEPT ![u] = NotDoing]
        /\ UNCHANGED <<kept, closed, overlapped, clock, issued>>

Closed(u) ==
    /\ closed' = closed \cup {doing[u].id}
    /\ doing' = [doing EXCEPT ![u] = NotDoing]
    /\ UNCHANGED <<kept, overlapped, clock, issued>>

\* Faulty variant: the pages stay.
DropRecordOnly(u) ==
    /\ doing[u].step = "write" /\ doing[u].kind = "end"
    /\ sessions' = {x \in sessions : x.id # doing[u].id}
    /\ UNCHANGED pages
    /\ Closed(u)

\* The record and whatever has the keys of the pages read are deleted.
Drop(u) ==
    /\ doing[u].step = "write" /\ doing[u].kind = "end"
    /\ sessions' = {x \in sessions : x.id # doing[u].id}
    /\ pages' = Beside(doing[u].held)
    /\ Closed(u)

Elapse ==
    /\ clock < MaxTime /\ clock' = clock + 1
    /\ UNCHANGED <<sessions, pages, doing, kept, closed, overlapped, issued>>

\* Faulty variant: the query's prefix fits the pages, too, and they count.
ListedWithPages ==
    {x \in sessions : Cardinality({y \in sessions : y.id < x.id})
                      + Cardinality({p \in pages : p.session < x.id}) < ListLimit}

\* list_sessions: expired or not, the oldest first, and no more than fit a query.
ListedSessions == {x \in sessions : Cardinality({y \in sessions : y.id < x.id}) < ListLimit}

\* GarbageCollector._leased
LeasedNow == UNION {Uploaded(x.id) : x \in {y \in ListedSessions : y.until > clock}}

SessionsNext ==
    \/ OpenSession
    \/ \E u \in Uploaders :
          \/ PutObject(u) \/ Renew(u) \/ EndWrite(u) \/ ReadPages(u)
          \/ RecordUploaded(u) \/ PutRenewed(u) \/ Drop(u)
    \/ Elapse

SessionsSpec == SessionsInit /\ [][SessionsNext]_sessionVars
-----------------------------------------------------------------------------
\* Properties

\* The shape of the state: one record a session, and the pages of one nobody
\* closed numbered without a gap.
SessionsTypeOK ==
    /\ \A x, y \in sessions : x.id = y.id => x = y
    /\ \A p, q \in pages : p.session = q.session /\ p.index = q.index => p = q
    /\ \A s \in (1 .. issued.opened) \ closed :
          {p.index : p \in PagesOf(s)} = 0 .. Cardinality(PagesOf(s)) - 1

\* What an upload was told is recorded stays recorded until the session is
\* closed, whatever is uploaded, renewed or refused beside it.
UploadsKept == \A k \in kept : k[1] \in closed \/ k[2] \in Uploaded(k[1])

\* The collector sees every object an upload was told is recorded under a
\* session that is open and has not expired, while no more sessions are there
\* than it lists.
LeasesSeen ==
    Cardinality(sessions) <= ListLimit =>
        \A k \in kept, x \in sessions :
            x.id = k[1] /\ x.id \notin closed /\ x.until > clock => k[2] \in LeasedNow

\* A session that is closed pins nothing any more, unless a request on it ran
\* beside the one that closed it.
ClosedPinsNothing ==
    \A s \in closed \ overlapped : PagesOf(s) = {} /\ \A x \in sessions : x.id # s

\* An upload that was answered is leased until its session is closed or has
\* expired, and then no longer, whatever concurrent requests did.
SessionsInv == SessionsTypeOK /\ UploadsKept /\ LeasesSeen /\ ClosedPinsNothing
=============================================================================
