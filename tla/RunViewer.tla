------------------------------ MODULE RunViewer ------------------------------
(***************************************************************************)
(* Watching runs from the browser: the page of runs (RunsPage.vue), its    *)
(* panel that polls the record of the selected run (NexusRuntime.vue), and *)
(* the service that reads the record in three queries                      *)
(* (RunsController.cs), while the asks of AskRun write it.                 *)
(***************************************************************************)
EXTENDS AskRun, FiniteSets

CONSTANTS
    Retries,      \* how often a failed poll is repeated, 12 in load
    MaxSelects,   \* bound: how often the user selects a run
    Network       \* TRUE: a request may fail

NoRun == [id |-> "none"]

\* A chain of polls belongs to one selection; it has at most one request or
\* one timer at a time.
Chains == 1..MaxSelects

ASSUME ViewerConstantsOK ==
    /\ Retries \in Nat /\ MaxSelects \in Nat /\ Network \in BOOLEAN

VARIABLES
    selected,  \* the run-id property of the panel
    selects,   \* the number of selections so far
    detail,    \* what the panel shows
    error,     \* the panel shows an error instead
    tries,     \* failed polls in a row
    timer,     \* the chain whose timer the panel could still clear, 0 for none
    chains     \* where every chain is, and what its request has read

viewer == <<selected, selects, detail, error, tries, timer, chains>>
allvars == <<vars, viewer>>

Idle == [step |-> "idle", read |-> NoRun]

ViewerInit ==
    /\ Init
    /\ selected = "none" /\ selects = 0
    /\ detail = NoRun /\ error = FALSE
    /\ tries = 0 /\ timer = 0
    /\ chains = [c \in Chains |-> Idle]

-----------------------------------------------------------------------------
(* RunsController.GetRun: three queries, each of what is there by then.      *)

Blank(r) == [id |-> r, run |-> "none", rows |-> [s \in 1..Stages |-> "none"], node |-> "none"]

Step(c, step, read) == chains' = [chains EXCEPT ![c] = [step |-> step, read |-> read]]
panel == <<selected, selects, detail, error, tries, timer>>

\* load, after a failure: the polls that failed are counted for all chains.
Failed(c) ==
    /\ IF tries < Retries
       THEN Step(c, "timer", NoRun) /\ timer' = c /\ tries' = tries + 1 /\ UNCHANGED error
       ELSE Step(c, "idle", NoRun) /\ error' = TRUE /\ UNCHANGED <<timer, tries>>
    /\ UNCHANGED <<selected, selects, detail>>

ReadRun(c) ==
    LET r == chains[c].read.id IN
    /\ chains[c].step = "sent"
    /\ IF run[r] = "none" THEN Failed(c)
       ELSE Step(c, "run", [chains[c].read EXCEPT !.run = run[r]]) /\ UNCHANGED panel
    /\ UNCHANGED vars

ReadStages(c) ==
    LET r == chains[c].read.id IN
    /\ chains[c].step = "run"
    /\ Step(c, "stages", [chains[c].read EXCEPT !.rows = rows[r]])
    /\ UNCHANGED <<vars, panel>>

\* A request that fails later on looks the same to the panel.
RequestFails(c) ==
    /\ Network
    /\ chains[c].step = "sent"
    /\ Failed(c)
    /\ UNCHANGED vars

-----------------------------------------------------------------------------
(* NexusRuntime                                                             *)

\* A run the user can select: it is on the list, or its ask has returned.
Known(r) == run[r] # "none" \/ at[r] \notin {"idle", "opened"}

\* Mutation: the panel is reset and nothing is loaded.
SelectOnly(r) ==
    /\ selects < MaxSelects /\ r # selected /\ Known(r)
    /\ selected' = r /\ selects' = selects + 1
    /\ detail' = NoRun /\ error' = FALSE /\ tries' = 0 /\ timer' = 0
    /\ chains' = [c \in Chains |-> IF c = timer THEN Idle ELSE chains[c]]
    /\ UNCHANGED vars

\* The watch of the property: reset clears the one timer the panel knows of,
\* and load sends a request.  Requests that are under way are not stopped.
Select(r) ==
    /\ selects < MaxSelects /\ r # selected /\ Known(r)
    /\ selected' = r /\ selects' = selects + 1
    /\ detail' = NoRun /\ error' = FALSE /\ tries' = 0 /\ timer' = 0
    /\ chains' = [c \in Chains |->
                    CASE c = selects + 1 -> [step |-> "sent", read |-> Blank(r)]
                      [] c = timer -> Idle
                      [] OTHER -> chains[c]]
    /\ UNCHANGED vars

\* The whole record, once the third query is made.
Read(c) == [chains[c].read EXCEPT !.node = node[chains[c].read.id]]

\* Mutation: the state of the run is read last.
ShowLatest(c) ==
    /\ chains[c].step = "stages"
    /\ detail' = [Read(c) EXCEPT !.run = run[chains[c].read.id]] /\ error' = FALSE /\ tries' = 0
    /\ IF detail'.run = "running"
       THEN Step(c, "timer", NoRun) /\ timer' = c
       ELSE Step(c, "idle", NoRun) /\ UNCHANGED timer
    /\ UNCHANGED <<vars, selected, selects>>

\* The third query and load, after the response: it is shown whatever is
\* selected by now.  A response that is late is a late query.
Show(c) ==
    /\ chains[c].step = "stages"
    /\ detail' = Read(c) /\ error' = FALSE /\ tries' = 0
    /\ IF detail'.run = "running"
       THEN Step(c, "timer", NoRun) /\ timer' = c
       ELSE Step(c, "idle", NoRun) /\ UNCHANGED timer
    /\ UNCHANGED <<vars, selected, selects>>

\* A timer goes off: the run that is selected by now is read.
Fire(c) ==
    /\ chains[c].step = "timer"
    /\ Step(c, "sent", Blank(selected))
    /\ timer' = IF timer = c THEN 0 ELSE timer
    /\ UNCHANGED <<vars, selected, selects, detail, error, tries>>

Poll(c) ==
    ReadRun(c) \/ ReadStages(c) \/ RequestFails(c) \/ Show(c) \/ Fire(c)

ViewerNext ==
    \/ Next /\ UNCHANGED viewer
    \/ \E r \in Runs : Select(r)
    \/ \E c \in Chains : Poll(c)

ViewerSpec == ViewerInit /\ [][ViewerNext]_allvars

\* Requests are answered, timers go off, and the asks go on; the user need
\* not select anything.
ViewerFairSpec ==
    /\ ViewerSpec
    /\ \A r \in Runs : WF_allvars(Ask(r) /\ UNCHANGED viewer)
    /\ \A c \in Chains : WF_allvars(Poll(c))

-----------------------------------------------------------------------------
(* Properties                                                               *)

\* What is shown of a run that has ended is all of its record, though it was
\* read in three queries while the run was writing it: the panel may stop.
ShownWhole ==
    detail # NoRun /\ detail.run \in Ended =>
        LET r == detail.id
        IN  detail = [id |-> r, run |-> run[r], rows |-> rows[r], node |-> node[r]]

\* A run that was selected is shown to its end, unless another one is selected
\* or the panel reports that it cannot be read; what the requests for the runs
\* selected earlier still bring does not stop it.
FollowedToEnd ==
    \A r \in Runs :
        selected = r /\ detail = NoRun /\ ~error ~>
            \/ detail # NoRun /\ detail.id = r /\ detail.run \in Ended
            \/ error \/ selected # r

=============================================================================
