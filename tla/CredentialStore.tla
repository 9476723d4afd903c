--------------------------- MODULE CredentialStore ---------------------------
(***************************************************************************)
(* The credential store (services/credential.py) behind its endpoints      *)
(* (api/v1/endpoints/credentials.py): a credential is a row of             *)
(* app_credential that names a secret of Key Vault, and every operation    *)
(* changes the two one after the other.  A process serves one request at a *)
(* time; threads of asks load credentials meanwhile, and several processes *)
(* may share the stores.  Compute engines are the users of a credential.   *)
(***************************************************************************)
EXTENDS FiniteSets

CONSTANTS
    Procs,      \* processes that serve requests
    Threads,    \* threads of asks, which only load
    Names,      \* credential names
    Secrets,    \* secret names; a save takes one that was never used
    Inputs,     \* what a request may carry: a type and its non-empty fields
    NoSecret,
    Faults      \* what may go wrong, a subset of FaultKinds

FaultKinds == {"reject",      \* a statement fails and has no effect
               "lost_reply",  \* a statement takes effect and is reported failed
               "vault",       \* a call of Key Vault fails, with or without effect
               "crash"}       \* a process dies in the middle of a request

Types == {"sql", "azure_openai", "web_iq", "local_file"}

\* The fields the constructor of every credential type insists on.
Required == [t \in Types |->
    CASE t = "sql" -> {"server", "database", "username", "password"}
      [] t = "azure_openai" -> {"endpoint", "key"}
      [] t = "web_iq" -> {"api_key"}
      [] t = "local_file" -> {"base_dir"}]

Complete(t, fields) == Required[t] \subseteq fields

Fields == UNION {i.fields : i \in Inputs}

ASSUME StoreAssumption ==
    /\ Inputs \subseteq [type : Types, fields : SUBSET Fields]
    /\ NoSecret \notin Secrets \cup Names
    /\ Procs \cap Threads = {}
    /\ Faults \subseteq FaultKinds

VARIABLES
    active,    \* names whose row has is_active = 1
    rows,      \* names that have a row
    meta,      \* credential_type and secret_name of every row
    live,      \* secrets that are in Key Vault
    content,   \* what was written into every secret, and for which name
    engines,   \* names that an active row of compute_engines references
    handler,   \* the request of every process, the load of every thread
    blurred    \* names on which two requests met, or one met a fault (history)

store == <<active, rows, meta, live, content, engines>>
vars == <<active, rows, meta, live, content, engines, handler, blurred>>

Actors == Procs \cup Threads
Unwritten == [name |-> NoSecret, fields |-> {}]
AnyType == CHOOSE t \in Types : TRUE

Steps == {"idle", "meta", "secret", "row", "undo", "old", "refs", "have"}
Handlers == [op : {"none", "save", "delete", "engine", "load"}, at : Steps,
             name : Names \cup {NoSecret}, type : Types, fields : SUBSET Fields,
             old : Secrets \cup {NoSecret}, new : Secrets \cup {NoSecret}, found : BOOLEAN]
Idle == [op |-> "none", at |-> "idle", name |-> NoSecret, type |-> AnyType, fields |-> {},
         old |-> NoSecret, new |-> NoSecret, found |-> FALSE]

TypeOK ==
    /\ active \subseteq rows /\ rows \subseteq Names
    /\ meta \in [Names -> [type : Types, secret : Secrets \cup {NoSecret}]]
    /\ live \subseteq Secrets
    /\ content \in [Secrets -> [name : Names \cup {NoSecret}, fields : SUBSET Fields]]
    /\ engines \subseteq Names
    /\ handler \in [Actors -> Handlers]
    /\ blurred \subseteq Names

Init ==
    /\ active = {} /\ rows = {} /\ live = {} /\ engines = {} /\ blurred = {}
    /\ meta = [n \in Names |-> [type |-> AnyType, secret |-> NoSecret]]
    /\ content = [s \in Secrets |-> Unwritten]
    /\ handler = [a \in Actors |-> Idle]

-----------------------------------------------------------------------------
(* Moving a request.  Two requests that meet on a name blur it, and so does *)
(* a fault that leaves one of the two stores behind the other.              *)

At(a, op, step) == handler[a].op = op /\ handler[a].at = step
Name(a) == handler[a].name
Busy(n) == \E p \in Procs : handler[p].name = n

Goto(a, step) == handler' = [handler EXCEPT ![a].at = step]
Return(a) == handler' = [handler EXCEPT ![a] = Idle]
Smoothly == UNCHANGED blurred
Blurs(a, split) == blurred' = IF split THEN blurred \cup {Name(a)} ELSE blurred

Enter(a, op, step, n, t, f) ==
    /\ handler[a] = Idle
    /\ handler' = [handler EXCEPT ![a] =
           [op |-> op, at |-> step, name |-> n, type |-> t, fields |-> f,
            old |-> NoSecret, new |-> NoSecret, found |-> FALSE]]
    /\ blurred' = IF a \in Procs /\ Busy(n) THEN blurred \cup {n} ELSE blurred
    /\ UNCHANGED store

\* sql_db._run: what a statement of three attempts did, and what it reports.
\* An INSERT that took effect before its connection broke is sent again and
\* comes back as a violation of the primary key.
Outcomes == {[done |-> TRUE, ok |-> TRUE]}
    \cup (IF "reject" \in Faults THEN {[done |-> FALSE, ok |-> FALSE]} ELSE {})
    \cup (IF "lost_reply" \in Faults THEN {[done |-> TRUE, ok |-> FALSE]} ELSE {})

VaultOutcomes == {[done |-> TRUE, ok |-> TRUE]}
    \cup (IF "vault" \in Faults THEN [done : BOOLEAN, ok : {FALSE}] ELSE {})

\* begin_delete_secret: a failure is logged and passed over.
DropSecret(a, s) ==
    \E o \in VaultOutcomes :
        /\ live' = IF o.done THEN live \ {s} ELSE live
        /\ Blurs(a, ~o.done)

-----------------------------------------------------------------------------
(* load                                                                     *)

LoadBegin(a, n) == Enter(a, "load", "meta", n, AnyType, {})

\* A query that fails reads as a credential that is not there.
LoadMeta(a) ==
    /\ handler[a].op \in {"load", "engine"} /\ handler[a].at = "meta"
    /\ \/ /\ Name(a) \in active
          /\ handler' = [handler EXCEPT ![a].at = "secret", ![a].type = meta[Name(a)].type,
                                        ![a].old = meta[Name(a)].secret]
       \/ (Name(a) \notin active \/ "reject" \in Faults) /\ Return(a)
    /\ Smoothly
    /\ UNCHANGED store

LoadSecret(a) ==
    /\ handler[a].op \in {"load", "engine"} /\ handler[a].at = "secret"
    /\ \/ /\ handler[a].old \in live
          /\ handler' = [handler EXCEPT ![a].at = "have",
                                        ![a].fields = content[handler[a].old].fields]
       \/ (handler[a].old \notin live \/ "vault" \in Faults) /\ Return(a)
    /\ Smoothly
    /\ UNCHANGED store

LoadEnd(a) == At(a, "load", "have") /\ Return(a) /\ Smoothly /\ UNCHANGED store

-----------------------------------------------------------------------------
(* save                                                                     *)

SaveBegin(p, n, t, f) == Complete(t, f) /\ Enter(p, "save", "meta", n, t, f)

SaveMeta(p) ==
    /\ At(p, "save", "meta")
    /\ \/ /\ Name(p) \in active
          /\ handler' = [handler EXCEPT ![p].at = "secret", ![p].found = TRUE,
                                        ![p].old = meta[Name(p)].secret]
       \/ (Name(p) \notin active \/ "reject" \in Faults) /\ Goto(p, "secret")
    /\ Smoothly
    /\ UNCHANGED store

\* Mutation: the secret of the credential is overwritten, none is made.
SaveSecretInPlace(p) ==
    /\ At(p, "save", "secret")
    /\ \E s \in Secrets :
        /\ IF handler[p].found THEN s = handler[p].old ELSE content[s] = Unwritten
        /\ live' = live \cup {s}
        /\ content' = [content EXCEPT ![s] = [name |-> Name(p), fields |-> handler[p].fields]]
        /\ handler' = [handler EXCEPT ![p].at = "row", ![p].new = s]
    /\ Smoothly
    /\ UNCHANGED <<active, rows, meta, engines>>

\* Mutation: the old secret is deleted before the row names the new one.
SaveSecretFirstDropsOld(p) ==
    /\ At(p, "save", "secret")
    /\ \E s \in Secrets :
        /\ content[s] = Unwritten
        /\ content' = [content EXCEPT ![s] = [name |-> Name(p), fields |-> handler[p].fields]]
        /\ live' = (live \cup {s}) \ {handler[p].old}
        /\ handler' = [handler EXCEPT ![p].at = "row", ![p].new = s]
    /\ Smoothly
    /\ UNCHANGED <<active, rows, meta, engines>>

SaveSecret(p) ==
    /\ At(p, "save", "secret")
    /\ \E s \in Secrets, o \in VaultOutcomes :
        /\ content[s] = Unwritten
        /\ content' = [content EXCEPT ![s] = [name |-> Name(p), fields |-> handler[p].fields]]
        /\ live' = IF o.done THEN live \cup {s} ELSE live
        /\ IF o.ok THEN handler' = [handler EXCEPT ![p].at = "row", ![p].new = s] ELSE Return(p)
        /\ Blurs(p, o.done /\ ~o.ok)
    /\ UNCHANGED <<active, rows, meta, engines>>

\* UPDATE of the row that was found, otherwise INSERT, which the row of a
\* deleted credential refuses.
SaveRow(p) ==
    LET n == Name(p) IN
    /\ At(p, "save", "row")
    /\ \E o \in Outcomes, clash \in {~handler[p].found /\ n \in rows} :
        /\ IF o.done /\ ~clash
             THEN /\ active' = active \cup {n}
                  /\ rows' = rows \cup {n}
                  /\ meta' = [meta EXCEPT ![n] = [type |-> handler[p].type, secret |-> handler[p].new]]
             ELSE UNCHANGED <<active, rows, meta>>
        /\ IF o.ok /\ ~clash THEN Goto(p, "old") ELSE Goto(p, "undo")
        /\ Blurs(p, o.done /\ ~o.ok)
    /\ UNCHANGED <<live, content, engines>>

SaveUndo(p) ==
    /\ At(p, "save", "undo")
    /\ DropSecret(p, handler[p].new)
    /\ Return(p)
    /\ UNCHANGED <<active, rows, meta, content, engines>>

\* Mutation: the old secret stays.
SaveKeepsOld(p) == At(p, "save", "old") /\ Return(p) /\ Smoothly /\ UNCHANGED store

SaveOld(p) ==
    /\ At(p, "save", "old")
    /\ IF handler[p].old = NoSecret THEN Smoothly /\ UNCHANGED live
                                    ELSE DropSecret(p, handler[p].old)
    /\ Return(p)
    /\ UNCHANGED <<active, rows, meta, content, engines>>

-----------------------------------------------------------------------------
(* credential_delete, and the delete of the store it calls                  *)

DeleteBegin(p, n) == Enter(p, "delete", "refs", n, AnyType, {})

\* Mutation: nobody asks which engines use the credential.
DeleteUnasked(p) == At(p, "delete", "refs") /\ Goto(p, "meta") /\ Smoothly /\ UNCHANGED store

DeleteRefs(p) ==
    /\ At(p, "delete", "refs")
    /\ \/ (Name(p) \in engines \/ "reject" \in Faults) /\ Return(p)
       \/ Name(p) \notin engines /\ Goto(p, "meta")
    /\ Smoothly
    /\ UNCHANGED store

DeleteMeta(p) ==
    /\ At(p, "delete", "meta")
    /\ \/ /\ Name(p) \in active
          /\ handler' = [handler EXCEPT ![p].at = "secret", ![p].old = meta[Name(p)].secret]
       \/ (Name(p) \notin active \/ "reject" \in Faults) /\ Return(p)
    /\ Smoothly
    /\ UNCHANGED store

DeleteSecret(p) ==
    /\ At(p, "delete", "secret")
    /\ DropSecret(p, handler[p].old)
    /\ Goto(p, "row")
    /\ UNCHANGED <<active, rows, meta, content, engines>>

DeleteRow(p) ==
    /\ At(p, "delete", "row")
    /\ \E o \in Outcomes :
        /\ active' = IF o.done THEN active \ {Name(p)} ELSE active
        /\ Blurs(p, ~o.done)
    /\ Return(p)
    /\ UNCHANGED <<rows, meta, live, content, engines>>

-----------------------------------------------------------------------------
(* Compute engines: create_definition loads the credential and inserts the  *)
(* row that references it; a deletion removes the reference.                *)

EngineBegin(p, n) == n \notin engines /\ Enter(p, "engine", "meta", n, AnyType, {})

EngineInsert(p) ==
    /\ At(p, "engine", "have")
    /\ \E o \in Outcomes :
        engines' = IF o.done /\ handler[p].type = "sql" THEN engines \cup {Name(p)} ELSE engines
    /\ Return(p)
    /\ Smoothly
    /\ UNCHANGED <<active, rows, meta, live, content>>

EngineDropped(n) ==
    /\ n \in engines
    /\ engines' = engines \ {n}
    /\ UNCHANGED <<active, rows, meta, live, content, handler, blurred>>

Crash(a) ==
    /\ "crash" \in Faults /\ handler[a] # Idle
    /\ Return(a)
    /\ Blurs(a, a \in Procs)
    /\ UNCHANGED store

-----------------------------------------------------------------------------
SaveStep(p) == SaveMeta(p) \/ SaveSecret(p) \/ SaveRow(p) \/ SaveUndo(p) \/ SaveOld(p)
DeleteStep(p) == DeleteRefs(p) \/ DeleteMeta(p) \/ DeleteSecret(p) \/ DeleteRow(p)
LoadStep(a) == LoadMeta(a) \/ LoadSecret(a) \/ LoadEnd(a)

Next ==
    \/ \E a \in Actors : LoadStep(a) \/ Crash(a) \/ \E n \in Names : LoadBegin(a, n)
    \/ \E p \in Procs : SaveStep(p) \/ DeleteStep(p) \/ EngineInsert(p)
    \/ \E p \in Procs, n \in Names :
          \/ DeleteBegin(p, n) \/ EngineBegin(p, n)
          \/ \E i \in Inputs : SaveBegin(p, n, i.type, i.fields)
    \/ \E n \in Names : EngineDropped(n)

Spec == Init /\ [][Next]_vars

-----------------------------------------------------------------------------
(* Properties                                                               *)

\* A credential that was loaded is one that was saved: the data of the secret
\* has every field that the type in the row insists on, although row and
\* secret are read one after the other while saves and deletions go on (load
\* would otherwise raise where its callers expect a credential or None).
LoadedIsComplete ==
    \A a \in Actors : handler[a].at = "have" => Complete(handler[a].type, handler[a].fields)

\* Neither a leak nor a loss: between requests, a name that is not blurred has
\* exactly the secret its active row names, and none when it has no active row.
\* A save or a deletion that one of the stores refuses leaves the two in
\* agreement (the order of the steps of save, and its undo).
OneSecretPerCredential ==
    \A n \in Names \ blurred : ~Busy(n) =>
        {s \in live : content[s].name = n} = (IF n \in active THEN {meta[n].secret} ELSE {})

\* The credential of an engine cannot be deleted under it while the requests
\* of its name come one at a time (the check in credential_delete).
EngineHasCredential == engines \ blurred \subseteq active

Stranded(n) == n \in active /\ meta[n].secret \notin live
StrandsByDelete ==
    \A n \in Names : ~Stranded(n) /\ Stranded(n)' =>
        \E p \in Procs : /\ At(p, "delete", "secret") \/ At(p, "save", "undo")
                        /\ handler'[p] # handler[p]

\* Only a deletion, or the undo of a write that did take effect, leaves an
\* active row without its secret: no interleaving of saves makes one delete
\* the secret that another one, or the row, relies on.
OnlyDeleteStrands == [][StrandsByDelete]_vars
=============================================================================
