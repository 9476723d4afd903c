-------------------------- MODULE CancellationToken --------------------------
(***************************************************************************)
(* Cooperative cancellation tokens (core/cancellation_token.py), shared by *)
(* the threads of a run: a flag that is set once, callbacks that run when  *)
(* it is, and a parent whose cancellation the token inherits.  The list of *)
(* callbacks is read and extended under the token's lock, so each of the   *)
(* two is one step; the flag is read and set outside it.                   *)
(***************************************************************************)
EXTENDS FiniteSets, Naturals

CONSTANTS
    Threads,
    Tokens,
    Parent,     \* the parent of every token, or NoToken
    NoToken,
    Callbacks   \* what may be registered, each of them once

ASSUME TokenAssumption ==
    /\ NoToken \notin Tokens
    /\ Parent \in [Tokens -> Tokens \cup {NoToken}]

VARIABLES
    raised,     \* tokens whose own event is set
    callbacks,  \* what is registered on every token
    ran,        \* callbacks that have run
    canceller   \* what every thread does in a call of cancel

tokenVars == <<raised, callbacks, ran, canceller>>

Cancelling == [at : {"no", "set", "copy", "run"}, token : Tokens \cup {NoToken}, todo : SUBSET Callbacks]
NotCancelling == [at |-> "no", token |-> NoToken, todo |-> {}]

TokenTypeOK ==
    /\ raised \subseteq Tokens
    /\ callbacks \in [Tokens -> SUBSET Callbacks]
    /\ ran \subseteq Callbacks
    /\ canceller \in [Threads -> Cancelling]

TokenInit ==
    /\ raised = {} /\ ran = {}
    /\ callbacks = [k \in Tokens |-> {}]
    /\ canceller = [t \in Threads |-> NotCancelling]

\* is_cancelled: the token or an ancestor.  Chains are as long as Tokens.
Ancestors(k) ==
    LET up[n \in Nat] == IF n = 0 THEN {k}
                         ELSE up[n - 1] \cup ({Parent[j] : j \in up[n - 1] \ {NoToken}} \ {NoToken})
    IN  up[Cardinality(Tokens)]
IsCancelled(k) == Ancestors(k) \cap raised # {}

\* cancel: only the token's own event is asked, and before it is set.
CancelBegin(t, k) ==
    /\ canceller[t] = NotCancelling /\ k \notin raised
    /\ canceller' = [canceller EXCEPT ![t] = [at |-> "set", token |-> k, todo |-> {}]]
    /\ UNCHANGED <<raised, callbacks, ran>>

CancelSet(t) ==
    /\ canceller[t].at = "set"
    /\ raised' = raised \cup {canceller[t].token}
    /\ canceller' = [canceller EXCEPT ![t].at = "copy"]
    /\ UNCHANGED <<callbacks, ran>>

CancelCopy(t) ==
    /\ canceller[t].at = "copy"
    /\ canceller' = [canceller EXCEPT ![t].at = "run", ![t].todo = callbacks[canceller[t].token]]
    /\ UNCHANGED <<raised, callbacks, ran>>

RunCallback(t) ==
    /\ canceller[t].at = "run"
    /\ \E c \in canceller[t].todo :
        /\ ran' = ran \cup {c}
        /\ canceller' = [canceller EXCEPT ![t].todo = @ \ {c}]
    /\ UNCHANGED <<raised, callbacks>>

CancelEnd(t) ==
    /\ canceller[t].at = "run" /\ canceller[t].todo = {}
    /\ canceller' = [canceller EXCEPT ![t] = NotCancelling]
    /\ UNCHANGED <<raised, callbacks, ran>>

\* Mutation: whether the token is cancelled is not asked.
OnCancelledUnasked(t, k, c) ==
    /\ canceller[t] = NotCancelling
    /\ c \notin ran /\ \A j \in Tokens : c \notin callbacks[j]
    /\ callbacks' = [callbacks EXCEPT ![k] = @ \cup {c}]
    /\ UNCHANGED <<raised, ran, canceller>>

\* on_cancelled: on a token whose own event is set the callback runs at once.
\* Unlike is_cancelled it does not ask the ancestors.
OnCancelled(t, k, c) ==
    /\ canceller[t] = NotCancelling
    /\ c \notin ran /\ \A j \in Tokens : c \notin callbacks[j]
    /\ IF k \in raised
         THEN ran' = ran \cup {c} /\ UNCHANGED callbacks
         ELSE callbacks' = [callbacks EXCEPT ![k] = @ \cup {c}] /\ UNCHANGED ran
    /\ UNCHANGED <<raised, canceller>>

CancelStep(t) == CancelSet(t) \/ CancelCopy(t) \/ RunCallback(t) \/ CancelEnd(t)

TokenNext ==
    \E t \in Threads :
        \/ CancelStep(t)
        \/ \E k \in Tokens : CancelBegin(t, k) \/ \E c \in Callbacks : OnCancelled(t, k, c)

TokenSpec == TokenInit /\ [][TokenNext]_tokenVars

-----------------------------------------------------------------------------
(* Properties                                                               *)

\* Registering a callback and a call of cancel on the same token may meet in any
\* order: once the token's own event is set, the callback has run, or a thread
\* that is inside that cancel has it before it (the event is set before the list
\* is copied, and on_cancelled asks the event under the lock it appends under).
\* A cancelled ancestor is not meant: see CancelledTokensCall.
NoCallbackMissed ==
    \A k \in raised : \A c \in callbacks[k] \ ran :
        \E t \in Threads : /\ canceller[t].token = k
                           /\ canceller[t].at = "copy" \/ c \in canceller[t].todo

\* What the docstrings of is_cancelled and on_cancelled say together: on a token
\* that is cancelled, by itself or through an ancestor, a callback has run once
\* no thread is inside a cancel of one of them.
CancelledTokensCall ==
    \A k \in Tokens : IsCancelled(k) /\ callbacks[k] \ ran # {} =>
        \E t \in Threads : canceller[t].token \in Ancestors(k)
=============================================================================
