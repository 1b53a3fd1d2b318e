---- MODULE GlobalContextRefinement ----
(***************************************************************************)
(* The refinement mapping under which GlobalContext implements             *)
(* ContextCache.  A creation takes effect when the new context is          *)
(* published, a reuse when the check under the mutex succeeds: from then   *)
(* on the thread counts as served, with what shared_context holds, though  *)
(* it still has to copy the pointer, unlock and return.                    *)
(***************************************************************************)
EXTENDS GlobalContext

EpochIn(b) == IF b = NULL THEN NULL ELSE heap[b]

AbsCache == EpochIn(shared)

AbsLease ==
    [t \in Threads |-> EpochIn(IF pc[t] = "adopt" THEN shared ELSE local[t])]

AbsPhase ==
    [t \in Threads |->
        IF pc[t] = "exited" THEN "gone"
        ELSE IF pc[t] \in {"idle", "adopt", "unlock"} THEN "served"
        ELSE "waiting"]

Makers == {t \in Threads : pc[t] \in {"build", "construct"}}

AbsMaker == IF Makers = {} THEN NULL ELSE CHOOSE t \in Makers : TRUE

Cache == INSTANCE ContextCache WITH
    None <- NULL,
    cache <- AbsCache,
    lease <- AbsLease,
    asked <- want,
    phase <- AbsPhase,
    maker <- AbsMaker

\* Every behaviour of the code is one of the abstract cache: leases answer requests, a
\* context in use is never taken away by another thread, and a null answer comes from a
\* failed creation of this very request, never from somebody else's (lines 41-91).
ImplementsContextCache == Cache!Spec

=============================================================================
