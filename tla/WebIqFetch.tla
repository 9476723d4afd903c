----------------------------- MODULE WebIqFetch -----------------------------
(***************************************************************************)
(* fetch of WebIqResolver (resolvers/web_iq.py): posts a request until it  *)
(* is answered, out of retries, out of time or cancelled.  Time passes in  *)
(* ticks (the 0.2 s of _wait) while a thread posts or waits; its other     *)
(* steps take none.                                                        *)
(***************************************************************************)
EXTENDS CancellationToken, Integers

CONSTANTS
    SearchTime,     \* _timeout_s: the time of a SEARCH
    BrowseTime,     \* _browse_max_wait_s: the time of a BROWSE
    PostTime,       \* the longest a post takes: _timeout_s bounds its parts
    MaxRetries,     \* _max_retries
    Delays,         \* what retry-after may ask for
    CallTokens      \* the tokens that calls carry, or NoToken

ASSUME FetchAssumption ==
    /\ SearchTime \in Nat \ {0} /\ BrowseTime \in Nat \ {0} /\ PostTime \in Nat \ {0}
    /\ MaxRetries \in Nat
    /\ Delays \subseteq Nat
    /\ CallTokens \subseteq Tokens \cup {NoToken}

VARIABLE fetch      \* the call of every thread

FetchSteps == {"idle", "check", "post", "reply", "wait"}
NoFetch == [at |-> "idle", token |-> NoToken, mode |-> "search", left |-> 0, transient |-> 0,
            spent |-> 0, pause |-> 0, late |-> 0]

FetchTypeOK ==
    fetch \in [Threads -> [at : FetchSteps, token : Tokens \cup {NoToken}, mode : {"search", "browse"},
                           left : Int, transient : 0..MaxRetries, spent : 0..PostTime,
                           pause : Nat, late : Nat]]

FetchInit == fetch = [t \in Threads |-> NoFetch]

Cancelled(t) == fetch[t].token # NoToken /\ IsCancelled(fetch[t].token)

\* left is the time to the deadline, which a post may overrun.
Fetch(t, mode, k) ==
    /\ fetch[t].at = "idle"
    /\ fetch' = [fetch EXCEPT ![t] = [NoFetch EXCEPT !.at = "check", !.mode = mode, !.token = k,
                     !.left = IF mode = "browse" THEN BrowseTime ELSE SearchTime]]

\* Whatever ends a call, fetch makes a result of it.
Done(t) == fetch' = [fetch EXCEPT ![t] = NoFetch]

\* Mutation: only the waits look at the token.
CheckNothing(t) == fetch[t].at = "check" /\ fetch' = [fetch EXCEPT ![t].at = "post"]

\* _check_cancelled at the head of the loop of _post.
Check(t) ==
    /\ fetch[t].at = "check"
    /\ IF Cancelled(t) THEN Done(t) ELSE fetch' = [fetch EXCEPT ![t].at = "post"]

\* The request leaves; late counts those that leave after a cancellation.
Post(t) ==
    /\ fetch[t].at = "post"
    /\ fetch' = [fetch EXCEPT ![t].at = "reply", ![t].spent = 0,
                              ![t].late = IF Cancelled(t) THEN @ + 1 ELSE @]

\* Mutation: a wait may reach beyond the deadline.
WaitAnyway(t, h, delay) == fetch' = [fetch EXCEPT ![t] = [h EXCEPT !.at = "wait", !.pause = delay]]

\* _wait: a delay that does not fit into the time that is left ends the call.
Wait(t, h, delay) ==
    IF h.left <= 0 \/ delay > h.left
      THEN Done(t)
      ELSE fetch' = [fetch EXCEPT ![t] = [h EXCEPT !.at = "wait", !.pause = delay]]

\* A network error waits 1, 2, 4 and then 8, a server its retry-after.
Backoff(n) == CASE n = 0 -> 1 [] n = 1 -> 2 [] n = 2 -> 4 [] OTHER -> 8

\* The answer, which takes time: 200, or what is not retried; a network error
\* or a retryable status; 202 of a BROWSE, which does not count as a retry.
Reply(t) ==
    LET h == fetch[t]
        retried == [h EXCEPT !.transient = @ + 1]
    IN  /\ h.at = "reply" /\ h.spent > 0
        /\ \/ Done(t)
           \/ /\ h.transient < MaxRetries
              /\ \E delay \in Delays \cup {Backoff(h.transient)} : Wait(t, retried, delay)
           \/ /\ h.mode = "browse"
              /\ \E delay \in Delays : Wait(t, h, delay)

\* The small steps of _wait, each of which looks at the token.
WaitStep(t) ==
    /\ fetch[t].at = "wait"
    /\ \/ fetch[t].pause = 0 /\ fetch' = [fetch EXCEPT ![t].at = "check"]
       \/ fetch[t].pause > 0 /\ Cancelled(t) /\ Done(t)

\* Time passes where a thread waits, and a post ends after PostTime.
Passing(h) == IF h.at = "wait" THEN h.pause > 0 ELSE h.at = "reply" /\ h.spent < PostTime
Tick ==
    LET busy == {t \in Threads : fetch[t].at # "idle"} IN
    /\ busy # {} /\ \A t \in busy : Passing(fetch[t])
    /\ fetch' = [t \in Threads |->
           CASE fetch[t].at = "idle" -> fetch[t]
             [] fetch[t].at = "wait" -> [fetch[t] EXCEPT !.left = @ - 1, !.pause = @ - 1]
             [] OTHER -> [fetch[t] EXCEPT !.left = @ - 1, !.spent = @ + 1]]

FetchStep(t) == Check(t) \/ Post(t) \/ Reply(t) \/ WaitStep(t)

-----------------------------------------------------------------------------
(* Properties                                                               *)

\* A call overruns its deadline by one post at most, however often the server
\* asks for patience and however long its delays are.
OverrunsByOnePost == \A t \in Threads : fetch[t].left >= -PostTime

\* A call whose token, or an ancestor of it, is cancelled sends one request
\* more at most, the one that had passed the check.
CancelStopsPosting == \A t \in Threads : fetch[t].late <= 1
=============================================================================
