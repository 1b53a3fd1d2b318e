---- MODULE ContextCache ----
(***************************************************************************)
(* What the global context cache promises its callers, without heap,       *)
(* reference counts or mutex: a cache of one epoch, a lease per thread,    *)
(* and one maker at a time.  A lease is for the epoch the thread asked     *)
(* for and nobody else's request ends it.  A request is denied only by the *)
(* failure of a creation made for that very request.  GlobalContext        *)
(* implements this module.                                                 *)
(***************************************************************************)
CONSTANTS
    Threads,
    Epochs,
    None     \* no epoch, nobody

VARIABLES
    cache,   \* the epoch of the shared context, or None
    lease,   \* the epoch of the context each thread may use, or None
    asked,   \* what each thread asked for last
    phase,   \* "served", "waiting" or "gone"
    maker    \* the thread whose request is creating a context, or None

vars == <<cache, lease, asked, phase, maker>>

Init ==
    /\ cache = None
    /\ lease = [t \in Threads |-> None]
    /\ asked \in [Threads -> Epochs]
    /\ phase = [t \in Threads |-> "served"]
    /\ maker = None

\* A request the lease already answers.
Renew(t, e) ==
    /\ phase[t] = "served" /\ lease[t] = e
    /\ asked' = [asked EXCEPT ![t] = e]
    /\ UNCHANGED <<cache, lease, phase, maker>>

Request(t, e) ==
    /\ phase[t] = "served" /\ lease[t] # e
    /\ asked' = [asked EXCEPT ![t] = e]
    /\ phase' = [phase EXCEPT ![t] = "waiting"]
    /\ UNCHANGED <<cache, lease, maker>>

\* The thread gives its obsolete lease up before it is served.
Release(t) ==
    /\ phase[t] = "waiting"
    /\ lease' = [lease EXCEPT ![t] = None]
    /\ UNCHANGED <<cache, asked, phase, maker>>

Serve(t) ==
    /\ lease' = [lease EXCEPT ![t] = asked[t]]
    /\ phase' = [phase EXCEPT ![t] = "served"]
    /\ UNCHANGED asked

Share(t) ==
    /\ phase[t] = "waiting" /\ lease[t] = None /\ maker = None
    /\ cache = asked[t]
    /\ Serve(t)
    /\ UNCHANGED <<cache, maker>>

Evict(t) ==
    /\ phase[t] = "waiting" /\ lease[t] = None /\ maker = None
    /\ cache # asked[t]
    /\ cache' = None
    /\ maker' = t
    /\ UNCHANGED <<lease, asked, phase>>

Make(t) ==
    /\ maker = t
    /\ cache' = asked[t]
    /\ maker' = None
    /\ Serve(t)

Deny(t) ==
    /\ maker = t
    /\ maker' = None
    /\ phase' = [phase EXCEPT ![t] = "served"]
    /\ UNCHANGED <<cache, lease, asked>>

Leave(t) ==
    /\ phase[t] = "served"
    /\ phase' = [phase EXCEPT ![t] = "gone"]
    /\ lease' = [lease EXCEPT ![t] = None]
    /\ UNCHANGED <<cache, asked, maker>>

Next ==
    \E t \in Threads :
        \/ \E e \in Epochs : Renew(t, e) \/ Request(t, e)
        \/ Release(t) \/ Share(t) \/ Evict(t) \/ Make(t) \/ Deny(t)
        \/ Leave(t)

Spec == Init /\ [][Next]_vars

=============================================================================
