------------------------------ MODULE Resolvers ------------------------------
(***************************************************************************)
(* What the threads of a process do with the objects below the resolvers:  *)
(* SQL statements through one pool, calls of Web IQ, and cancellations.  A *)
(* thread does one thing at a time.                                        *)
(***************************************************************************)
EXTENDS SqlPool, WebIqFetch

ASSUME OneSetOfThreads == Clients = Threads

vars == <<poolVars, tokenVars, fetch>>

Free(t) == stmt[t].at = "idle" /\ fetch[t].at = "idle" /\ canceller[t] = NotCancelling

Init == PoolInit /\ TokenInit /\ FetchInit

Advance(t) ==
    \/ StatementStep(t) /\ UNCHANGED <<tokenVars, fetch>>
    \/ CancelStep(t) /\ UNCHANGED <<poolVars, fetch>>
    \/ FetchStep(t) /\ UNCHANGED <<poolVars, tokenVars>>

Begin(t) ==
    /\ Free(t)
    /\ \/ Execute(t) /\ UNCHANGED <<tokenVars, fetch>>
       \/ OpenDedicated(t) /\ UNCHANGED <<tokenVars, fetch>>
       \/ /\ \E k \in Tokens : CancelBegin(t, k) \/ \E c \in Callbacks : OnCancelled(t, k, c)
          /\ UNCHANGED <<poolVars, fetch>>
       \/ /\ \E mode \in {"search", "browse"}, k \in CallTokens : Fetch(t, mode, k)
          /\ UNCHANGED <<poolVars, tokenVars>>

Next ==
    \/ \E t \in Threads : Begin(t) \/ Advance(t)
    \/ ClosePool /\ UNCHANGED <<tokenVars, fetch>>
    \/ Tick /\ UNCHANGED <<poolVars, tokenVars>>

\* The scheduler runs every thread, a post ends, and time does not stop (Tick
\* is disabled whenever a thread is between two waits, hence SF).
Spec == Init /\ [][Next]_vars /\ SF_vars(Tick /\ UNCHANGED <<poolVars, tokenVars>>)
             /\ \A t \in Threads : WF_vars(Advance(t))

-----------------------------------------------------------------------------
(* Properties                                                               *)

\* Whatever a thread began it ends: statements, whose connections may break
\* again and again, calls of Web IQ, whose server may ask for patience
\* forever and without delay, and cancellations.
CallsEnd == \A t \in Threads : ~Free(t) ~> Free(t)
=============================================================================
