------------------------ MODULE CredentialStore_proofs ------------------------
(***************************************************************************)
(* Proofs about CredentialStore, for any number of processes, threads,     *)
(* names and secrets and under every fault.                                *)
(***************************************************************************)
EXTENDS CredentialStore, TLAPS

\* The secret s was written for the name n with data a credential of type t needs.
Saved(s, n, t) == s \in Secrets /\ content[s].name = n /\ Complete(t, content[s].fields)

RowsSaved == \A n \in rows : Saved(meta[n].secret, n, meta[n].type)

\* What the record h of a request or a load of a may say.
Sound(a, h) ==
    /\ h.op \in {"save", "delete", "engine"} => a \in Procs
    /\ h.op # "none" => h.name \in Names
    /\ h.op = "none" => h = Idle
    /\ h.op = "save" => Complete(h.type, h.fields)
    /\ h.old # NoSecret => h.old \in Secrets /\ content[h.old].name = h.name
    /\ h.new # NoSecret => h.new \in Secrets /\ content[h.new].name = h.name
    /\ h.op \in {"load", "engine"} /\ h.at = "secret" => Saved(h.old, h.name, h.type)
    /\ h.at = "have" => Complete(h.type, h.fields)
    /\ h.op = "save" /\ h.at = "row" => h.new \in live /\ Saved(h.new, h.name, h.type)
    /\ h.op = "save" /\ h.at = "old" => h.name \in rows /\ meta[h.name].secret # h.old

\* The secret of a save is its own until a row names it.
Own(p) ==
    At(p, "save", "row") =>
        /\ \A n \in rows : meta[n].secret # handler[p].new
        /\ \A a \in Actors : handler[a].old # handler[p].new
        /\ \A a \in Actors \ {p} : handler[a].new # handler[p].new

Inv == TypeOK /\ RowsSaved /\ (\A a \in Actors : Sound(a, handler[a]) /\ Own(a))

-----------------------------------------------------------------------------
LEMMA InitInv == Init => Inv
<1> SUFFICES ASSUME Init PROVE Inv
  OBVIOUS
<1> USE StoreAssumption DEF Init
<1>1. AnyType \in Types
  BY DEF AnyType, Types
<1>2. Idle \in Handlers
  BY <1>1 DEF Idle, Handlers, Steps
<1>3. TypeOK
  BY <1>1, <1>2 DEF TypeOK, Unwritten
<1>4. RowsSaved
  BY DEF RowsSaved
<1>5. ASSUME NEW a \in Actors PROVE Sound(a, handler[a]) /\ Own(a)
  BY DEF Sound, Own, At, Idle
<1> QED
  BY <1>3, <1>4, <1>5 DEF Inv

\* A step that leaves rows and the contents of secrets alone and moves one
\* actor to a record h that says no more than the stores bear out, claims no
\* new secret, and takes no secret from a save that is about to write its row.
LEMMA QuietStep ==
    ASSUME Inv, NEW a \in Actors, NEW h \in Handlers, handler' = [handler EXCEPT ![a] = h],
           UNCHANGED <<rows, meta, content>>, Sound(a, h)',
           active' \subseteq rows, live' \subseteq Secrets, engines' \subseteq Names, blurred' \subseteq Names,
           \A b \in Actors \ {a} : At(b, "save", "row") => handler[b].new \in live',
           ~(h.op = "save" /\ h.at = "row"),
           h.new \in {NoSecret, handler[a].new},
           h.old \in {NoSecret, handler[a].old} \cup {meta[n].secret : n \in rows}
    PROVE  Inv'
<1>0. \A b \in Actors : handler'[b] = IF b = a THEN h ELSE handler[b]
  BY DEF Inv, TypeOK
<1>1. TypeOK'
  BY DEF Inv, TypeOK
<1>2. RowsSaved'
  BY DEF Inv, RowsSaved, Saved
<1>3. ASSUME NEW b \in Actors PROVE Sound(b, handler[b])'
  <2>1. CASE b = a
    BY <1>0, <2>1 DEF Sound, Saved
  <2>2. CASE b # a
    <3>1. handler'[b] = handler[b] /\ Sound(b, handler[b])
      BY <1>0, <2>2 DEF Inv
    <3> QED BY <2>2, <3>1 DEF Sound, Saved, At
  <2> QED BY <2>1, <2>2
<1>4. ASSUME NEW b \in Actors PROVE Own(b)'
  <2> SUFFICES ASSUME At(b, "save", "row")'
               PROVE /\ \A n \in rows : meta[n].secret # handler'[b].new
                     /\ \A c \in Actors : handler'[c].old # handler'[b].new
                     /\ \A c \in Actors \ {b} : handler'[c].new # handler'[b].new
    BY DEF Own
  <2>1. b # a /\ At(b, "save", "row") /\ handler'[b].new = handler[b].new
    BY <1>0 DEF At
  <2>2. /\ \A n \in rows : meta[n].secret # handler[b].new
        /\ \A c \in Actors : handler[c].old # handler[b].new
        /\ \A c \in Actors \ {b} : handler[c].new # handler[b].new
    BY <2>1 DEF Inv, Own
  <2>3. handler[b].new # NoSecret
    BY <2>1, StoreAssumption DEF Inv, Sound, Saved, At
  <2> QED BY <1>0, <2>1, <2>2, <2>3
<1> QED BY <1>1, <1>2, <1>3, <1>4 DEF Inv

LEMMA IdleTyped == Idle \in Handlers /\ AnyType \in Types
<1>1. AnyType \in Types
  BY DEF AnyType, Types
<1> QED BY <1>1 DEF Idle, Handlers, Steps

\* A request that returns without touching the stores.
LEMMA ReturnStep ==
    ASSUME Inv, NEW a \in Actors, Return(a), UNCHANGED <<rows, meta, content>>,
           active' \subseteq rows, live' \subseteq Secrets, engines' \subseteq Names, blurred' \subseteq Names,
           \A b \in Actors \ {a} : At(b, "save", "row") => handler[b].new \in live'
    PROVE  Inv'
<1>1. Idle \in Handlers
  BY IdleTyped
<1>2. Sound(a, Idle)'
  BY DEF Sound, Idle
<1>3. Idle.op = "none" /\ Idle.new = NoSecret /\ Idle.old = NoSecret
  BY DEF Idle
<1> QED BY <1>1, <1>2, <1>3, QuietStep DEF Return

\* Entering a request.
LEMMA EnterStep ==
    ASSUME Inv, NEW a \in Actors, NEW n \in Names, NEW t \in Types, NEW f \in SUBSET Fields,
           NEW op \in {"save", "delete", "engine", "load"}, NEW step \in {"meta", "refs"},
           op # "load" => a \in Procs, op = "save" => Complete(t, f), Enter(a, op, step, n, t, f)
    PROVE  Inv'
<1> DEFINE h == [op |-> op, at |-> step, name |-> n, type |-> t, fields |-> f,
                 old |-> NoSecret, new |-> NoSecret, found |-> FALSE]
<1>2. h \in Handlers
  BY DEF Handlers, Steps
<1>3. Sound(a, h)'
  BY DEF Sound
<1>4. /\ handler' = [handler EXCEPT ![a] = h]
      /\ UNCHANGED store
      /\ blurred' \subseteq Names
  BY DEF Enter, Inv, TypeOK
<1>5. \A b \in Actors \ {a} : At(b, "save", "row") => handler[b].new \in live'
  BY <1>4 DEF Inv, Sound, At, store
<1>6. active' \subseteq rows /\ live' \subseteq Secrets /\ engines' \subseteq Names
  BY <1>4 DEF Inv, TypeOK, store
<1>7. ~(h.op = "save" /\ h.at = "row") /\ h.new = NoSecret /\ h.old = NoSecret
  OBVIOUS
<1> HIDE DEF h
<1> QED BY <1>2, <1>3, <1>4, <1>5, <1>6, <1>7, QuietStep DEF store

-----------------------------------------------------------------------------
\* What the stores keep for everyone else while they do not change.
LEMMA StoreKept ==
    ASSUME Inv, UNCHANGED store
    PROVE  /\ active' \subseteq rows /\ live' \subseteq Secrets /\ engines' \subseteq Names
           /\ \A b \in Actors : At(b, "save", "row") => handler[b].new \in live'
  BY DEF Inv, TypeOK, Sound, At, store

LEMMA LoadMetaStep == ASSUME Inv, NEW a \in Actors, LoadMeta(a) PROVE Inv'
<1>0. UNCHANGED store /\ blurred' \subseteq Names
  BY DEF LoadMeta, Smoothly, Inv, TypeOK
<1>1. CASE Return(a)
  BY <1>0, <1>1, StoreKept, ReturnStep DEF store
<1>2. CASE ~Return(a)
  <2> DEFINE n == handler[a].name
             m == meta[n]
  <2>1. n \in rows /\ Saved(m.secret, n, m.type) /\ Sound(a, handler[a])
    BY <1>2 DEF LoadMeta, Name, Inv, TypeOK, RowsSaved
  <2>2. /\ handler' = [handler EXCEPT ![a].at = "secret", ![a].type = m.type, ![a].old = m.secret]
        /\ handler[a].op \in {"load", "engine"}
    BY <1>2 DEF LoadMeta, Name
  <2>4. [handler[a] EXCEPT !.at = "secret", !.type = m.type, !.old = m.secret] \in Handlers
    BY <2>1 DEF Inv, TypeOK, Handlers, Steps
  <2>5. PICK h \in Handlers :
           /\ handler' = [handler EXCEPT ![a] = h]
           /\ h.op = handler[a].op /\ h.op \in {"load", "engine"} /\ h.at = "secret"
           /\ h.name = n /\ h.type = m.type /\ h.old = m.secret /\ h.new = handler[a].new
    BY <2>2, <2>4 DEF Inv, TypeOK, Handlers
  <2>3. Sound(a, h)'
    BY <1>0, <2>1, <2>5 DEF Sound, Saved, store
  <2> QED BY <1>0, <2>1, <2>5, <2>3, StoreKept, QuietStep DEF store
<1> QED BY <1>1, <1>2

LEMMA LoadSecretStep == ASSUME Inv, NEW a \in Actors, LoadSecret(a) PROVE Inv'
<1>0. UNCHANGED store /\ blurred' \subseteq Names
  BY DEF LoadSecret, Smoothly, Inv, TypeOK
<1>1. CASE Return(a)
  BY <1>0, <1>1, StoreKept, ReturnStep DEF store
<1>2. CASE ~Return(a)
  <2> DEFINE s == handler[a].old
  <2>1. /\ s \in live /\ Sound(a, handler[a]) /\ Saved(s, handler[a].name, handler[a].type)
    BY <1>2 DEF LoadSecret, Inv, Sound
  <2>2. PICK h \in Handlers :
           /\ handler' = [handler EXCEPT ![a] = h]
           /\ h.op = handler[a].op /\ h.op \in {"load", "engine"} /\ h.at = "have"
           /\ h.name = handler[a].name /\ h.type = handler[a].type /\ h.fields = content[s].fields
           /\ h.old = s /\ h.new = handler[a].new
    BY <1>2, <2>1 DEF LoadSecret, Inv, TypeOK, Handlers, Steps
  <2>3. Sound(a, h)'
    BY <1>0, <2>1, <2>2 DEF Sound, Saved, store
  <2> QED BY <1>0, <2>1, <2>2, <2>3, StoreKept, QuietStep DEF store
<1> QED BY <1>1, <1>2

LEMMA SaveMetaStep == ASSUME Inv, NEW p \in Procs, SaveMeta(p) PROVE Inv'
<1>0. UNCHANGED store /\ blurred' \subseteq Names /\ p \in Actors
  BY DEF SaveMeta, Smoothly, Inv, TypeOK, Actors
<1>1. \E h \in Handlers :
         /\ handler' = [handler EXCEPT ![p] = h]
         /\ h.op = "save" /\ h.at = "secret" /\ h.name = handler[p].name /\ h.new = handler[p].new
         /\ h.type = handler[p].type /\ h.fields = handler[p].fields
         /\ \/ handler[p].name \in rows /\ h.old = meta[handler[p].name].secret
            \/ h.old = handler[p].old
  <2>1. CASE Name(p) \in active /\ handler' = [handler EXCEPT ![p].at = "secret", ![p].found = TRUE,
                                                            ![p].old = meta[Name(p)].secret]
    <3> DEFINE h == [handler[p] EXCEPT !.at = "secret", !.found = TRUE, !.old = meta[Name(p)].secret]
    <3>1. h \in Handlers /\ handler' = [handler EXCEPT ![p] = h]
      BY <1>0, <2>1 DEF Name, Inv, TypeOK, Handlers, Steps
    <3> QED BY <1>0, <2>1, <3>1 DEF SaveMeta, At, Name, Inv, TypeOK, Handlers
  <2>2. CASE Goto(p, "secret")
    <3> DEFINE h == [handler[p] EXCEPT !.at = "secret"]
    <3>1. h \in Handlers /\ handler' = [handler EXCEPT ![p] = h]
      BY <1>0, <2>2 DEF Goto, Inv, TypeOK, Handlers, Steps
    <3> QED BY <1>0, <2>2, <3>1 DEF SaveMeta, At, Inv, TypeOK, Handlers
  <2> QED BY <2>1, <2>2 DEF SaveMeta
<1>2. PICK h \in Handlers :
         /\ handler' = [handler EXCEPT ![p] = h]
         /\ h.op = "save" /\ h.at = "secret" /\ h.name = handler[p].name /\ h.new = handler[p].new
         /\ h.type = handler[p].type /\ h.fields = handler[p].fields
         /\ \/ handler[p].name \in rows /\ h.old = meta[handler[p].name].secret
            \/ h.old = handler[p].old
  BY <1>1
<1>3. handler[p].op = "save" /\ Sound(p, handler[p]) /\ RowsSaved
  BY <1>0 DEF SaveMeta, At, Inv
<1>4. Sound(p, h)'
  BY <1>0, <1>2, <1>3 DEF Sound, RowsSaved, Saved, store
<1> QED BY <1>0, <1>2, <1>3, <1>4, StoreKept, QuietStep DEF store

\* A request of p takes s from Key Vault: what its own record may name.
LEMMA DropKeeps ==
    ASSUME Inv, NEW p \in Actors, NEW s, DropSecret(p, s),
           s \in {handler[p].old, handler[p].new}, handler[p].op # "none", ~At(p, "save", "row")
    PROVE  /\ live' \subseteq Secrets /\ blurred' \subseteq Names
           /\ \A b \in Actors \ {p} : At(b, "save", "row") => handler[b].new \in live'
<1>1. live' \subseteq live /\ live \ live' \subseteq {s}
  BY DEF DropSecret
<1>2. blurred' \subseteq blurred \cup {handler[p].name}
  BY DEF DropSecret, Blurs, Name
<1>3. ASSUME NEW b \in Actors \ {p}, At(b, "save", "row") PROVE handler[b].new \in live'
  BY <1>1, <1>3 DEF Inv, Own, Sound, At
<1> QED BY <1>1, <1>2, <1>3 DEF Inv, TypeOK, Sound

LEMMA DeleteMetaStep == ASSUME Inv, NEW p \in Procs, DeleteMeta(p) PROVE Inv'
<1>0. UNCHANGED store /\ blurred' \subseteq Names /\ p \in Actors
  BY DEF DeleteMeta, Smoothly, Inv, TypeOK, Actors
<1>1. CASE Return(p)
  BY <1>0, <1>1, StoreKept, ReturnStep DEF store
<1>2. CASE ~Return(p)
  <2> DEFINE n == handler[p].name
  <2>1. n \in rows /\ Saved(meta[n].secret, n, meta[n].type) /\ Sound(p, handler[p])
    BY <1>0, <1>2 DEF DeleteMeta, Name, Inv, TypeOK, RowsSaved
  <2>2. /\ handler' = [handler EXCEPT ![p].at = "secret", ![p].old = meta[n].secret]
        /\ handler[p].op = "delete"
    BY <1>2 DEF DeleteMeta, Name, At
  <2>3. [handler[p] EXCEPT !.at = "secret", !.old = meta[n].secret] \in Handlers
    BY <1>0, <2>1 DEF Inv, TypeOK, Handlers, Steps
  <2>4. PICK h \in Handlers :
           /\ handler' = [handler EXCEPT ![p] = h]
           /\ h.op = "delete" /\ h.at = "secret" /\ h.name = n
           /\ h.old = meta[n].secret /\ h.new = handler[p].new
    BY <1>0, <2>2, <2>3 DEF Inv, TypeOK, Handlers
  <2>5. Sound(p, h)'
    <3>1. n \in Names /\ content' = content
      BY <1>0, <2>1, <2>2 DEF Sound, store
    <3>2. h.old \in Secrets /\ content'[h.old].name = h.name
      BY <2>1, <2>4, <3>1 DEF Saved
    <3>3. h.new # NoSecret => h.new \in Secrets /\ content'[h.new].name = h.name
      BY <2>1, <2>4, <3>1 DEF Sound
    <3> QED BY <2>4, <3>1, <3>2, <3>3 DEF Sound
  <2> QED BY <1>0, <2>1, <2>4, <2>5, StoreKept, QuietStep DEF store
<1> QED BY <1>1, <1>2

LEMMA DeleteRefsStep == ASSUME Inv, NEW p \in Procs, DeleteRefs(p) PROVE Inv'
<1>0. UNCHANGED store /\ blurred' \subseteq Names /\ p \in Actors
  BY DEF DeleteRefs, Smoothly, Inv, TypeOK, Actors
<1>1. CASE Return(p)
  BY <1>0, <1>1, StoreKept, ReturnStep DEF store
<1>2. CASE Goto(p, "meta")
  <2>1. [handler[p] EXCEPT !.at = "meta"] \in Handlers
    BY <1>0 DEF Inv, TypeOK, Handlers, Steps
  <2>2. PICK h \in Handlers :
           /\ handler' = [handler EXCEPT ![p] = h]
           /\ h.op = "delete" /\ h.at = "meta" /\ h.name = handler[p].name
           /\ h.old = handler[p].old /\ h.new = handler[p].new
    BY <1>0, <1>2, <2>1 DEF DeleteRefs, At, Goto, Inv, TypeOK, Handlers
  <2>3. Sound(p, handler[p]) /\ handler[p].op = "delete"
    BY <1>0 DEF Inv, DeleteRefs, At
  <2>5. content' = content
    BY <1>0 DEF store
  <2>4. Sound(p, h)'
    <3>1. handler[p].name \in Names
      BY <2>3 DEF Sound
    <3>2. h.old # NoSecret => h.old \in Secrets /\ content'[h.old].name = h.name
      BY <2>2, <2>3, <2>5 DEF Sound
    <3>3. h.new # NoSecret => h.new \in Secrets /\ content'[h.new].name = h.name
      BY <2>2, <2>3, <2>5 DEF Sound
    <3> QED BY <2>2, <3>1, <3>2, <3>3 DEF Sound
  <2>6. h.new \in {NoSecret, handler[p].new} /\ h.old \in {NoSecret, handler[p].old}
    BY <2>2
  <2> QED BY <1>0, <2>2, <2>4, <2>6, StoreKept, QuietStep DEF store
<1> QED BY <1>1, <1>2 DEF DeleteRefs

LEMMA DeleteSecretStep == ASSUME Inv, NEW p \in Procs, DeleteSecret(p) PROVE Inv'
<1>0. /\ p \in Actors /\ handler[p].op = "delete" /\ Sound(p, handler[p])
      /\ UNCHANGED <<active, rows, meta, content, engines>>
  BY DEF DeleteSecret, At, Actors, Inv
<1>1. /\ live' \subseteq Secrets /\ blurred' \subseteq Names
      /\ \A b \in Actors \ {p} : At(b, "save", "row") => handler[b].new \in live'
  BY <1>0, DropKeeps DEF DeleteSecret, At
<1>2. [handler[p] EXCEPT !.at = "row"] \in Handlers
  BY <1>0 DEF Inv, TypeOK, Handlers, Steps
<1>3. PICK h \in Handlers :
         /\ handler' = [handler EXCEPT ![p] = h]
         /\ h.op = "delete" /\ h.at = "row" /\ h.name = handler[p].name
         /\ h.old = handler[p].old /\ h.new = handler[p].new
  BY <1>0, <1>2 DEF DeleteSecret, Goto, Inv, TypeOK, Handlers
<1>4. Sound(p, h)'
  BY <1>0, <1>3 DEF Sound
<1>5. active' \subseteq rows /\ engines' \subseteq Names
  BY <1>0 DEF Inv, TypeOK
<1> QED BY <1>0, <1>1, <1>3, <1>4, <1>5, QuietStep

\* The steps that end a request: the undo, the old secret, the deactivation,
\* the row of an engine, a load, a crash.
LEMMA LastStep ==
    ASSUME Inv, NEW a \in Actors,
           \/ a \in Procs /\ (SaveUndo(a) \/ SaveOld(a) \/ DeleteRow(a) \/ EngineInsert(a))
           \/ LoadEnd(a) \/ Crash(a)
    PROVE  Inv'
<1>1. Return(a) /\ UNCHANGED <<rows, meta, content>>
  BY DEF SaveUndo, SaveOld, DeleteRow, EngineInsert, LoadEnd, Crash, store
<1>2. active' \subseteq rows /\ engines' \subseteq Names /\ handler[a] # Idle
  BY DEF SaveUndo, SaveOld, DeleteRow, EngineInsert, LoadEnd, Crash, store, Inv, TypeOK,
         At, Idle, Name, Sound
<1>3. CASE SaveUndo(a) \/ (SaveOld(a) /\ handler[a].old # NoSecret)
  <2>1. /\ DropSecret(a, handler[a].old) \/ DropSecret(a, handler[a].new)
        /\ handler[a].op = "save" /\ handler[a].at # "row"
    BY <1>3 DEF SaveUndo, SaveOld, At
  <2> QED BY <1>1, <1>2, <2>1, DropKeeps, ReturnStep DEF At
<1>4. CASE ~SaveUndo(a) /\ ~(SaveOld(a) /\ handler[a].old # NoSecret)
  <2>1. live' = live
    BY <1>4 DEF SaveUndo, SaveOld, DeleteRow, EngineInsert, LoadEnd, Crash, store
  <2>2. blurred' \subseteq blurred \cup {handler[a].name}
    BY <1>4 DEF SaveUndo, SaveOld, DeleteRow, EngineInsert, LoadEnd, Crash, Smoothly, Blurs, Name
  <2>3. handler[a].op # "none" \/ blurred' = blurred
    BY <1>4 DEF SaveUndo, SaveOld, DeleteRow, EngineInsert, LoadEnd, Crash, Smoothly, Blurs, At, Inv, Sound
  <2>4. blurred' \subseteq Names
    BY <2>2, <2>3 DEF Inv, TypeOK, Sound
  <2>5. live' \subseteq Secrets /\ \A b \in Actors \ {a} : At(b, "save", "row") => handler[b].new \in live'
    BY <2>1 DEF Inv, TypeOK, Sound, At
  <2> QED BY <1>1, <1>2, <2>4, <2>5, ReturnStep
<1> QED BY <1>3, <1>4

-----------------------------------------------------------------------------
\* The two steps that write a secret and the row that names it.
LEMMA SaveSecretStep == ASSUME Inv, NEW p \in Procs, SaveSecret(p) PROVE Inv'
<1>0. /\ p \in Actors /\ handler[p].op = "save" /\ handler[p].at = "secret" /\ Sound(p, handler[p])
      /\ UNCHANGED <<active, rows, meta, engines>>
  BY DEF SaveSecret, At, Actors, Inv
<1>1. PICK s \in Secrets, o \in VaultOutcomes :
         /\ content[s] = Unwritten
         /\ content' = [content EXCEPT ![s] = [name |-> Name(p), fields |-> handler[p].fields]]
         /\ live' = IF o.done THEN live \cup {s} ELSE live
         /\ IF o.ok THEN handler' = [handler EXCEPT ![p].at = "row", ![p].new = s] ELSE Return(p)
         /\ Blurs(p, o.done /\ ~o.ok)
  BY DEF SaveSecret
<1>2. o.ok => o.done
  <2>1. CASE o = [done |-> TRUE, ok |-> TRUE]
    BY <2>1
  <2>2. CASE o \in [done : BOOLEAN, ok : {FALSE}]
    BY <2>2
  <2> QED BY <2>1, <2>2 DEF VaultOutcomes
<1>3. content'[s].name = handler[p].name /\ content'[s].fields = handler[p].fields
  BY <1>1 DEF Inv, TypeOK, Name
<1>4. \A x \in Secrets : content[x].name \in Names => x # s /\ content'[x] = content[x]
  BY <1>1, StoreAssumption DEF Inv, TypeOK, Unwritten
<1>5. \A b \in Actors : handler[b].old # s /\ handler[b].new # s
  BY <1>4, StoreAssumption DEF Inv, Sound, Idle
<1>6. \A n \in rows : meta[n].secret # s
  BY <1>4 DEF Inv, RowsSaved, Saved, TypeOK
<1>7. \A b \in Actors \ {p} : handler'[b] = handler[b]
  BY <1>1 DEF Return, Inv, TypeOK
<1>8. \/ handler'[p] = Idle
      \/ /\ o.ok /\ handler'[p].op = "save" /\ handler'[p].at = "row" /\ handler'[p].new = s
         /\ handler'[p].name = handler[p].name /\ handler'[p].old = handler[p].old
         /\ handler'[p].type = handler[p].type /\ handler'[p].fields = handler[p].fields
  BY <1>0, <1>1 DEF Return, Inv, TypeOK, Handlers
<1>9. TypeOK'
  <2>1. handler' \in [Actors -> Handlers]
    <3>1. handler \in [Actors -> Handlers] /\ Idle \in Handlers
      BY IdleTyped DEF Inv, TypeOK
    <3>2. [handler[p] EXCEPT !.at = "row", !.new = s] \in Handlers
      BY <1>0, <3>1 DEF Handlers, Steps
    <3>3. \/ handler' = [handler EXCEPT ![p] = [handler[p] EXCEPT !.at = "row", !.new = s]]
          \/ handler' = [handler EXCEPT ![p] = Idle]
      BY <1>0, <1>1, <3>1 DEF Return
    <3> QED BY <1>0, <3>1, <3>2, <3>3
  <2>2. content' \in [Secrets -> [name : Names \cup {NoSecret}, fields : SUBSET Fields]]
    BY <1>0, <1>1 DEF Inv, TypeOK, Handlers, Sound, Name
  <2>3. live' \subseteq Secrets /\ blurred' \subseteq Names
    BY <1>0, <1>1 DEF Inv, TypeOK, Blurs, Name, Sound
  <2> QED BY <1>0, <2>1, <2>2, <2>3 DEF Inv, TypeOK
<1>10. RowsSaved'
  BY <1>0, <1>4 DEF Inv, RowsSaved, Saved, TypeOK
<1>11. ASSUME NEW b \in Actors PROVE Sound(b, handler[b])'
  <2>1. CASE handler'[b] = Idle
    BY <2>1 DEF Sound, Idle
  <2>2. CASE b = p /\ handler'[b] # Idle
    <3>1. s \in live'
      BY <1>1, <1>2, <1>8, <2>2
    <3>2. content'[s].name = handler[p].name /\ Complete(handler[p].type, content'[s].fields)
      BY <1>0, <1>3 DEF Sound
    <3>3. handler[p].old # NoSecret => content'[handler[p].old].name = handler[p].name /\ handler[p].old \in Secrets
      BY <1>0, <1>4 DEF Sound
    <3>4. handler[p].name \in Names /\ Complete(handler[p].type, handler[p].fields)
      BY <1>0 DEF Sound
    <3> HIDE DEF Complete
    <3> QED BY <1>0, <1>8, <2>2, <3>1, <3>2, <3>3, <3>4 DEF Sound, Saved
  <2>3. CASE b # p
    <3>1. handler'[b] = handler[b] /\ Sound(b, handler[b]) /\ live \subseteq live'
      BY <1>1, <1>7, <2>3 DEF Inv
    <3>2. handler[b] = Idle \/ handler[b].name \in Names
      BY <3>1 DEF Sound
    <3>3. CASE handler[b] # Idle
      <4>1. handler[b].name \in Names /\ handler[b].op # "none"
        BY <3>1, <3>2, <3>3 DEF Idle, Sound
      <4>2. ASSUME NEW x \in Secrets, content[x].name = handler[b].name PROVE content'[x] = content[x]
        BY <1>4, <4>1, <4>2
      <4> HIDE DEF Complete
      <4> QED BY <1>0, <3>1, <4>1, <4>2 DEF Sound, Saved
    <3> QED BY <2>1, <3>1, <3>3
  <2> QED BY <2>1, <2>2, <2>3
<1>12. ASSUME NEW b \in Actors PROVE Own(b)'
  <2> SUFFICES ASSUME At(b, "save", "row")'
               PROVE /\ \A n \in rows' : meta'[n].secret # handler'[b].new
                     /\ \A c \in Actors : handler'[c].old # handler'[b].new
                     /\ \A c \in Actors \ {b} : handler'[c].new # handler'[b].new
    BY DEF Own
  <2>1. handler'[p].old \in {NoSecret, handler[p].old} /\ handler'[p].new \in {NoSecret, s}
    BY <1>8 DEF Idle
  <2>2. s # NoSecret
    BY StoreAssumption
  <2>3. CASE b = p
    <3>1. handler'[b].new = s
      BY <1>8, <2>3 DEF At, Idle
    <3> QED BY <1>0, <1>5, <1>6, <1>7, <2>1, <2>2, <2>3, <3>1
  <2>4. CASE b # p
    <3>1. handler'[b] = handler[b] /\ At(b, "save", "row") /\ Own(b)
      BY <1>7, <2>4 DEF At, Inv
    <3>2. handler[b].new # NoSecret /\ handler[b].new # s
      BY <1>5, <3>1, StoreAssumption DEF Inv, Sound, Saved, At
    <3> QED BY <1>0, <1>7, <2>1, <2>4, <3>1, <3>2 DEF Own
  <2> QED BY <2>3, <2>4
<1> QED BY <1>9, <1>10, <1>11, <1>12 DEF Inv

LEMMA SaveRowStep == ASSUME Inv, NEW p \in Procs, SaveRow(p) PROVE Inv'
<1> DEFINE n == handler[p].name
           s == handler[p].new
<1>0. /\ p \in Actors /\ At(p, "save", "row") /\ Sound(p, handler[p]) /\ Own(p)
      /\ UNCHANGED <<live, content, engines>> /\ blurred' \subseteq Names
      /\ n \in Names /\ s \in live /\ Saved(s, n, handler[p].type)
  BY DEF SaveRow, At, Actors, Inv, Blurs, TypeOK, Sound, Name
<1>1. \A b \in Actors \ {p} : handler'[b] = handler[b]
  BY DEF SaveRow, Goto, Inv, TypeOK
<1>2. /\ handler'[p].op = "save" /\ handler'[p].at \in {"old", "undo"} /\ handler'[p].name = n
      /\ handler'[p].new = s /\ handler'[p].old = handler[p].old /\ handler'[p].type = handler[p].type
      /\ handler'[p].fields = handler[p].fields /\ handler'[p] \in Handlers
      /\ handler' \in [Actors -> Handlers]
  BY <1>0 DEF SaveRow, Goto, At, Inv, TypeOK, Handlers, Steps
<1>3. CASE UNCHANGED <<active, rows, meta>> /\ handler'[p].at = "undo"
  <2>1. TypeOK' /\ RowsSaved'
    BY <1>0, <1>2, <1>3 DEF Inv, TypeOK, RowsSaved, Saved
  <2>2. ASSUME NEW b \in Actors PROVE Sound(b, handler[b])'
    <3>1. CASE b = p
      BY <1>0, <1>2, <1>3, <3>1 DEF Sound, Saved, At
    <3>2. CASE b # p
      BY <1>0, <1>1, <1>3, <3>2 DEF Sound, Saved, Inv
    <3> QED BY <3>1, <3>2
  <2>3. ASSUME NEW b \in Actors PROVE Own(b)'
    BY <1>0, <1>1, <1>2, <1>3 DEF Own, At, Inv
  <2> QED BY <2>1, <2>2, <2>3 DEF Inv
<1>4. CASE /\ active' = active \cup {n} /\ rows' = rows \cup {n}
           /\ meta' = [meta EXCEPT ![n] = [type |-> handler[p].type, secret |-> s]]
  <2>1. meta'[n].type = handler[p].type /\ meta'[n].secret = s /\ \A m \in Names \ {n} : meta'[m] = meta[m]
    BY <1>0, <1>4 DEF Inv, TypeOK
  <2>2. TypeOK'
    BY <1>0, <1>2, <1>4 DEF Inv, TypeOK, Saved, Handlers
  <2>3. RowsSaved'
    BY <1>0, <1>4, <2>1 DEF Inv, TypeOK, RowsSaved, Saved
  <2>4. \A b \in Actors : handler[b].old # s
    BY <1>0 DEF Own
  <2>5. ASSUME NEW b \in Actors PROVE Sound(b, handler[b])'
    <3>1. CASE b = p
      BY <1>0, <1>2, <1>4, <2>1, <2>4, <3>1 DEF Sound, Saved, At
    <3>2. CASE b # p
      <4>1. handler'[b] = handler[b] /\ Sound(b, handler[b]) /\ handler[b] \in Handlers
        BY <1>1, <3>2 DEF Inv, TypeOK
      <4>2. At(b, "save", "old") => handler[b].name \in rows' /\ meta'[handler[b].name].secret # handler[b].old
        BY <1>4, <2>1, <2>4, <4>1 DEF Sound, At, Inv, TypeOK
      <4> QED BY <1>0, <4>1, <4>2 DEF Sound, Saved, At
    <3> QED BY <3>1, <3>2
  <2>6. ASSUME NEW b \in Actors PROVE Own(b)'
    <3>1. CASE b = p
      BY <1>2, <3>1 DEF Own, At
    <3>2. CASE b # p /\ At(b, "save", "row")'
      <4>1. handler'[b] = handler[b] /\ At(b, "save", "row") /\ Own(b)
        BY <1>1, <3>2 DEF At, Inv
      <4>2. handler[b].new # s
        BY <1>0, <3>2, <4>1 DEF Own
      <4>3. \A m \in rows' : meta'[m].secret # handler[b].new
        BY <1>4, <2>1, <4>1, <4>2 DEF Own, Inv, TypeOK
      <4>4. \A c \in Actors : handler'[c].old = handler[c].old /\ handler'[c].new = handler[c].new
        BY <1>1, <1>2
      <4> QED BY <4>1, <4>3, <4>4 DEF Own
    <3>3. CASE ~At(b, "save", "row")'
      BY <3>3 DEF Own
    <3> QED BY <3>1, <3>2, <3>3
  <2> QED BY <2>2, <2>3, <2>5, <2>6 DEF Inv
<1>5. PICK o \in Outcomes, clash \in BOOLEAN :
         /\ IF o.done /\ ~clash
              THEN /\ active' = active \cup {n}
                   /\ rows' = rows \cup {n}
                   /\ meta' = [meta EXCEPT ![n] = [type |-> handler[p].type, secret |-> s]]
              ELSE UNCHANGED <<active, rows, meta>>
         /\ IF o.ok /\ ~clash THEN Goto(p, "old") ELSE Goto(p, "undo")
  BY DEF SaveRow, Name
<1>6. o.ok => o.done
  BY DEF Outcomes
<1>7. Goto(p, "undo") => handler'[p].at = "undo"
  BY <1>0 DEF Goto, Inv, TypeOK, Handlers
<1> QED BY <1>3, <1>4, <1>5, <1>6, <1>7
-----------------------------------------------------------------------------
LEMMA DroppedStep == ASSUME Inv, NEW n \in Names, EngineDropped(n) PROVE Inv'
<1>1. UNCHANGED <<active, rows, meta, live, content, handler, blurred>> /\ engines' \subseteq engines
  BY DEF EngineDropped
<1> QED BY <1>1 DEF Inv, TypeOK, RowsSaved, Saved, Sound, Own, At

LEMMA BeginStep ==
    ASSUME Inv, NEW a \in Actors, NEW n \in Names,
           \/ LoadBegin(a, n)
           \/ a \in Procs /\ (DeleteBegin(a, n) \/ EngineBegin(a, n)
                             \/ \E i \in Inputs : SaveBegin(a, n, i.type, i.fields))
    PROVE  Inv'
<1>1. AnyType \in Types /\ {} \in SUBSET Fields
  BY IdleTyped
<1>2. CASE LoadBegin(a, n)
  BY <1>1, <1>2, EnterStep DEF LoadBegin
<1>3. CASE a \in Procs /\ DeleteBegin(a, n)
  BY <1>1, <1>3, EnterStep DEF DeleteBegin
<1>4. CASE a \in Procs /\ EngineBegin(a, n)
  BY <1>1, <1>4, EnterStep DEF EngineBegin
<1>5. ASSUME a \in Procs, NEW i \in Inputs, SaveBegin(a, n, i.type, i.fields) PROVE Inv'
  <2>1. i.type \in Types /\ i.fields \in SUBSET Fields
    BY StoreAssumption
  <2> QED BY <1>5, <2>1, EnterStep DEF SaveBegin
<1> QED BY <1>2, <1>3, <1>4, <1>5

LEMMA NextInv == Inv /\ [Next]_vars => Inv'
<1> SUFFICES ASSUME Inv, [Next]_vars PROVE Inv'
  OBVIOUS
<1>1. CASE UNCHANGED vars
  BY <1>1 DEF vars, Inv, TypeOK, RowsSaved, Saved, Sound, Own, At
<1>2. ASSUME NEW a \in Actors, LoadStep(a) \/ Crash(a) PROVE Inv'
  BY <1>2, LoadMetaStep, LoadSecretStep, LastStep DEF LoadStep
<1>3. ASSUME NEW p \in Procs, SaveStep(p) PROVE Inv'
  <2>1. p \in Actors
    BY DEF Actors
  <2> QED BY <1>3, <2>1, SaveMetaStep, SaveSecretStep, SaveRowStep, LastStep DEF SaveStep
<1>4. ASSUME NEW p \in Procs, DeleteStep(p) \/ EngineInsert(p) PROVE Inv'
  <2>1. p \in Actors
    BY DEF Actors
  <2> QED BY <1>4, <2>1, DeleteRefsStep, DeleteMetaStep, DeleteSecretStep, LastStep DEF DeleteStep
<1>5. ASSUME NEW a \in Actors, NEW n \in Names, LoadBegin(a, n) PROVE Inv'
  BY <1>5, BeginStep
<1>6. ASSUME NEW p \in Procs, NEW n \in Names,
             DeleteBegin(p, n) \/ EngineBegin(p, n) \/ \E i \in Inputs : SaveBegin(p, n, i.type, i.fields)
      PROVE Inv'
  <2>1. p \in Actors
    BY DEF Actors
  <2> QED BY <1>6, <2>1, BeginStep
<1> QED BY <1>1, <1>2, <1>3, <1>4, <1>5, <1>6, DroppedStep DEF Next

\* The stores and the requests stay what they are meant to be.
THEOREM TypeCorrect == Spec => []TypeOK
<1>1. Inv => TypeOK
  BY DEF Inv
<1> QED BY <1>1, InitInv, NextInv, PTL DEF Spec

\* Whatever meets in the two stores, and whatever fails, a load that returns a
\* credential returns one with all the fields of its type.
THEOREM LoadsAreComplete == Spec => []LoadedIsComplete
<1>1. Inv => LoadedIsComplete
  BY DEF Inv, LoadedIsComplete, Sound
<1> QED BY <1>1, InitInv, NextInv, PTL DEF Spec

\* The deletion of the old secret at the end of a save takes no secret from a
\* row: the old secret was written for the name that the save has just moved
\* to another one.
LEMMA SaveOldKeeps ==
    ASSUME Inv, NEW p \in Procs, SaveOld(p), NEW n \in Names, Stranded(n)' PROVE Stranded(n)
<1>1. /\ p \in Actors /\ Sound(p, handler[p]) /\ At(p, "save", "old")
      /\ UNCHANGED <<active, rows, meta, content>> /\ live \ live' \subseteq {handler[p].old}
  BY DEF SaveOld, DropSecret, Actors, Inv
<1> SUFFICES ASSUME n \in active, meta[n].secret = handler[p].old, meta[n].secret \in Secrets PROVE FALSE
  BY <1>1 DEF Stranded, Inv, TypeOK, RowsSaved, Saved
<1>2. content[meta[n].secret].name = n
  BY DEF Inv, TypeOK, RowsSaved, Saved
<1>3. content[handler[p].old].name = handler[p].name
  BY <1>1, StoreAssumption DEF Sound
<1>4. meta[handler[p].name].secret # handler[p].old
  BY <1>1 DEF Sound, At
<1> QED BY <1>2, <1>3, <1>4

LEMMA SaveRowKeeps ==
    ASSUME Inv, NEW p \in Procs, SaveRow(p), NEW n \in Names, Stranded(n)' PROVE Stranded(n)
<1>1. /\ Sound(p, handler[p]) /\ At(p, "save", "row") /\ handler[p].new \in live
      /\ live' = live /\ Name(p) = handler[p].name /\ Name(p) \in Names
  BY DEF SaveRow, Actors, Inv, Sound, At, Name
<1>2. CASE UNCHANGED <<active, meta>>
  BY <1>1, <1>2 DEF Stranded
<1>3. CASE /\ active' = active \cup {Name(p)}
           /\ meta' = [meta EXCEPT ![Name(p)] = [type |-> handler[p].type, secret |-> handler[p].new]]
  BY <1>1, <1>3 DEF Stranded, Inv, TypeOK
<1> QED BY <1>2, <1>3 DEF SaveRow

\* No interleaving of saves, loads, deletions and engines takes the secret of
\* an active row, but for a deletion and for the undo of a write.
THEOREM OnlyDeletesStrand == Spec => OnlyDeleteStrands
<1>1. Inv /\ [Next]_vars => [StrandsByDelete]_vars
  <2> DEFINE Excused == \E p \in Procs : /\ At(p, "delete", "secret") \/ At(p, "save", "undo")
                                         /\ handler'[p] # handler[p]
  <2> SUFFICES ASSUME Inv, Next, NEW n \in Names, ~Stranded(n), Stranded(n)' PROVE Excused
    BY DEF StrandsByDelete
  <2>1. ASSUME active' \subseteq active, live \subseteq live', meta' = meta PROVE FALSE
    BY <2>1 DEF Stranded
  <2>2. ASSUME NEW p \in Procs, SaveUndo(p) \/ DeleteSecret(p) PROVE Excused
    <3>1. handler'[p].at \in {"idle", "row"} /\ handler[p].at \in {"undo", "secret"}
      BY <2>2 DEF SaveUndo, DeleteSecret, Return, Goto, At, Idle, Inv, TypeOK, Actors, Handlers
    <3> QED BY <2>2, <3>1 DEF SaveUndo, DeleteSecret
  <2>3. ASSUME NEW p \in Procs, SaveOld(p) \/ SaveRow(p) PROVE FALSE
    BY <2>3, SaveOldKeeps, SaveRowKeeps
  <2>4. ASSUME NEW p \in Procs, SaveMeta(p) \/ SaveSecret(p) \/ DeleteRefs(p) \/ DeleteMeta(p)
                               \/ DeleteRow(p) \/ EngineInsert(p) PROVE FALSE
    BY <2>1, <2>4 DEF SaveMeta, SaveSecret, DeleteRefs, DeleteMeta, DeleteRow, EngineInsert, store
  <2>5. ASSUME NEW a \in Actors, LoadStep(a) \/ Crash(a) PROVE FALSE
    BY <2>1, <2>5 DEF LoadStep, LoadMeta, LoadSecret, LoadEnd, Crash, store
  <2>6. ASSUME NEW a \in Actors, NEW m \in Names,
               \/ LoadBegin(a, m) \/ DeleteBegin(a, m) \/ EngineBegin(a, m)
               \/ \E i \in Inputs : SaveBegin(a, m, i.type, i.fields) PROVE FALSE
    BY <2>1, <2>6 DEF LoadBegin, DeleteBegin, EngineBegin, SaveBegin, Enter, store
  <2>7. ASSUME NEW m \in Names, EngineDropped(m) PROVE FALSE
    BY <2>1, <2>7 DEF EngineDropped
  <2> HIDE DEF Excused
  <2> QED BY <2>2, <2>3, <2>4, <2>5, <2>6, <2>7 DEF Next, SaveStep, DeleteStep, Actors
<1> QED BY <1>1, InitInv, NextInv, PTL DEF Spec, OnlyDeleteStrands

-----------------------------------------------------------------------------
(* Agreement of the two stores.  On a name that is not blurred at most one  *)
(* request is at work, and what it has done so far says how the secrets of  *)
(* the name differ from the one its row names.                              *)

Vault(n) == {s \in live : content[s].name = n}
RowSecret(n) == IF n \in active THEN {meta[n].secret} ELSE {}

\* The stores of the name n while the request h is at work on it.
InStep(n, h) ==
    /\ \/ h.op = "save" /\ h.at \in {"row", "undo", "old"}
       \/ h.op = "delete" /\ h.at = "row"
       \/ Vault(n) = RowSecret(n)
    /\ h.op = "save" /\ h.at = "meta" => h.old = NoSecret /\ ~h.found
    /\ h.op = "save" /\ h.at \in {"secret", "row"} =>
          IF h.found THEN n \in active /\ h.old = meta[n].secret ELSE h.old = NoSecret
    /\ h.op = "save" /\ h.at \in {"row", "undo"} =>
          Vault(n) = RowSecret(n) \cup {h.new} /\ h.new \notin RowSecret(n)
    /\ h.op = "save" /\ h.at = "old" => n \in active /\ Vault(n) \ {h.old} = RowSecret(n)
    /\ h.op = "delete" /\ h.at \in {"meta", "secret", "row"} => n \notin engines
    /\ h.op = "delete" /\ h.at = "secret" => n \in active /\ h.old = meta[n].secret
    /\ h.op = "delete" /\ h.at = "row" => Vault(n) = {}
    /\ h.op = "engine" /\ h.at \in {"secret", "have"} => n \in active

Calm(n) ==
    /\ \A p, q \in Procs : handler[p].name = n /\ handler[q].name = n => p = q
    /\ ~Busy(n) => Vault(n) = RowSecret(n)
    /\ \A p \in Procs : handler[p].name = n => InStep(n, handler[p])
    /\ n \in engines => n \in active

AgreeInv ==
    /\ Inv
    /\ \A s \in live : content[s].name # NoSecret
    /\ \A n \in Names \ blurred : Calm(n)

LEMMA InitAgree == Init => AgreeInv
<1> SUFFICES ASSUME Init PROVE AgreeInv
  OBVIOUS
<1>1. \A p \in Procs : handler[p].name = NoSecret
  BY DEF Init, Idle, Actors
<1>2. \A n \in Names : n # NoSecret
  BY StoreAssumption
<1>3. ASSUME NEW n \in Names PROVE Calm(n)
  BY <1>1, <1>2 DEF Init, Calm, Busy, Vault, RowSecret
<1> QED BY <1>3, InitInv DEF AgreeInv, Init

\* A step of the request of p that only touches what the two stores have
\* under its name, and leaves them as its new record says.
LEMMA CalmStep ==
    ASSUME AgreeInv, Inv', NEW p \in Procs, NEW n \in Names, handler[p].name = n,
           \A b \in Actors \ {p} : handler'[b] = handler[b], handler'[p].name \in {n, NoSecret},
           \A m \in Names \ {n} : /\ Vault(m)' = Vault(m) /\ meta'[m] = meta[m]
                                  /\ (m \in active') = (m \in active)
                                  /\ (m \in engines') = (m \in engines),
           blurred \subseteq blurred', \A s \in live' : content'[s].name # NoSecret,
           n \notin blurred' => /\ handler'[p].name = n => InStep(n, handler[p])'
                                /\ handler'[p].name # n => Vault(n)' = RowSecret(n)'
                                /\ n \in engines' => n \in active'
    PROVE  AgreeInv'
<1>1. \A q \in Procs : q \in Actors
  BY DEF Actors
<1>2. NoSecret \notin Names
  BY StoreAssumption
<1>3. ASSUME n \notin blurred' PROVE Calm(n)'
  <2>1. Calm(n)
    BY <1>3 DEF AgreeInv
  <2>2. \A q \in Procs : handler'[q].name = n => q = p /\ handler'[p].name = n
    BY <1>1, <2>1 DEF Calm
  <2>3. ~Busy(n)' => handler'[p].name # n
    BY DEF Busy
  <2> QED BY <1>3, <2>2, <2>3 DEF Calm
<1>4. ASSUME NEW m \in Names \ blurred', m # n PROVE Calm(m)'
  <2>1. Calm(m)
    BY <1>4 DEF AgreeInv
  <2>2. \A q \in Procs : handler'[q].name = m => q # p /\ handler'[q] = handler[q]
    BY <1>1, <1>2, <1>4
  <2>3. \A q \in Procs : handler[q].name = m => handler'[q] = handler[q]
    BY <1>1, <1>4
  <2>4. /\ Vault(m)' = Vault(m) /\ RowSecret(m)' = RowSecret(m) /\ meta'[m] = meta[m]
        /\ (m \in active') = (m \in active) /\ (m \in engines') = (m \in engines)
    BY <1>4 DEF RowSecret
  <2>5. Busy(m)' = Busy(m)
    BY <2>2, <2>3 DEF Busy
  <2>6. ASSUME NEW q \in Procs, handler'[q].name = m PROVE InStep(m, handler[q])'
    <3>1. handler'[q] = handler[q] /\ InStep(m, handler[q])
      BY <2>1, <2>2, <2>6 DEF Calm
    <3> QED BY <2>4, <3>1 DEF InStep
  <2> QED BY <2>1, <2>2, <2>4, <2>5, <2>6 DEF Calm
<1> QED BY <1>3, <1>4 DEF AgreeInv

\* What holds of a request of p that is at work on its name.
LEMMA AtWork ==
    ASSUME AgreeInv, NEW p \in Procs, handler[p].op # "none"
    PROVE  /\ p \in Actors /\ handler[p] \in Handlers /\ Sound(p, handler[p])
           /\ handler[p].name \in Names /\ NoSecret \notin Names
           /\ handler[p].name \notin blurred =>
                 /\ InStep(handler[p].name, handler[p])
                 /\ handler[p].name \in engines => handler[p].name \in active
<1>1. p \in Actors /\ Sound(p, handler[p]) /\ handler[p] \in Handlers
  BY DEF AgreeInv, Inv, TypeOK, Actors
<1>2. handler[p].name \in Names
  BY <1>1 DEF Sound
<1> QED BY <1>1, <1>2, StoreAssumption DEF AgreeInv, Calm

\* A step of the request of p that changes neither store.
LEMMA QuietCalm ==
    ASSUME AgreeInv, Inv', NEW p \in Procs, handler[p].op # "none", NEW n \in Names, n = handler[p].name,
           UNCHANGED store, blurred \subseteq blurred',
           \A b \in Actors \ {p} : handler'[b] = handler[b],
           handler'[p] = Idle \/ handler'[p].name = n,
           n \notin blurred' => IF handler'[p] = Idle THEN Vault(n) = RowSecret(n) ELSE InStep(n, handler[p])'
    PROVE  AgreeInv'
<1>1. n # NoSecret /\ (n \notin blurred => (n \in engines => n \in active))
  BY AtWork
<1>2. Idle.name = NoSecret
  BY DEF Idle
<1>3. /\ active' = active /\ meta' = meta /\ engines' = engines /\ live' = live /\ content' = content
      /\ \A m \in Names : Vault(m)' = Vault(m) /\ RowSecret(m)' = RowSecret(m)
  BY DEF store, Vault, RowSecret
<1>4. \A s \in live' : content'[s].name # NoSecret
  BY <1>3 DEF AgreeInv
<1>5. n \notin blurred' => /\ handler'[p].name = n => InStep(n, handler[p])'
                           /\ handler'[p].name # n => Vault(n)' = RowSecret(n)'
                           /\ n \in engines' => n \in active'
  BY <1>1, <1>2, <1>3
<1>6. handler'[p].name \in {n, NoSecret}
  BY <1>2
<1> QED BY <1>1, <1>3, <1>4, <1>5, <1>6, CalmStep

LEMMA LoadCalm == ASSUME AgreeInv, Inv', NEW p \in Procs, LoadStep(p) PROVE AgreeInv'
<1>0. /\ handler[p].op \in {"load", "engine"} /\ UNCHANGED store /\ blurred' = blurred
      /\ \A b \in Actors \ {p} : handler'[b] = handler[b]
  BY DEF LoadStep, LoadMeta, LoadSecret, LoadEnd, At, Return, Smoothly, AgreeInv, Inv, TypeOK
<1>1. PICK n \in Names : n = handler[p].name
  BY <1>0, AtWork
<1>2. n \notin blurred => InStep(n, handler[p]) /\ Vault(n) = RowSecret(n)
  BY <1>0, <1>1, AtWork DEF InStep
<1>3. p \in Actors /\ handler[p] \in Handlers
  BY <1>0, <1>1, AtWork
<1>4. CASE Return(p)
  <2>1. handler'[p] = Idle
    BY <1>3, <1>4 DEF Return, AgreeInv, Inv, TypeOK
  <2> QED BY <1>0, <1>1, <1>2, <2>1, QuietCalm
<1>5. CASE ~Return(p)
  <2>1. /\ handler'[p].op = handler[p].op /\ handler'[p].name = n
        /\ \/ handler'[p].at = "secret" /\ n \in active
           \/ handler'[p].at = "have" /\ handler[p].at = "secret"
    BY <1>1, <1>3, <1>5 DEF LoadStep, LoadMeta, LoadSecret, LoadEnd, Name, AgreeInv, Inv, TypeOK, Handlers
  <2>2. n \notin blurred => InStep(n, handler[p])'
    BY <1>0, <1>1, <1>2, <2>1 DEF InStep, Vault, RowSecret, store
  <2> QED BY <1>0, <1>1, <1>2, <2>1, <2>2, QuietCalm
<1> QED BY <1>4, <1>5

LEMMA SaveMetaCalm == ASSUME AgreeInv, Inv', NEW p \in Procs, SaveMeta(p) PROVE AgreeInv'
<1>0. /\ handler[p].op = "save" /\ handler[p].at = "meta" /\ UNCHANGED store /\ blurred' = blurred
      /\ \A b \in Actors \ {p} : handler'[b] = handler[b]
  BY DEF SaveMeta, At, Goto, Smoothly, AgreeInv, Inv, TypeOK
<1>1. PICK n \in Names : n = handler[p].name
  BY <1>0, AtWork
<1>2. p \in Actors /\ handler[p] \in Handlers
  BY <1>0, AtWork
<1>3. /\ handler'[p].op = "save" /\ handler'[p].at = "secret" /\ handler'[p].name = n
      /\ \/ n \in active /\ handler'[p].found /\ handler'[p].old = meta[n].secret
         \/ handler'[p].found = handler[p].found /\ handler'[p].old = handler[p].old
  BY <1>0, <1>1, <1>2 DEF SaveMeta, Goto, Name, AgreeInv, Inv, TypeOK, Handlers
<1>4. ASSUME n \notin blurred PROVE InStep(n, handler[p])'
  <2>1. /\ Vault(n) = RowSecret(n)
        /\ handler[p].old = NoSecret /\ ~handler[p].found
    BY <1>0, <1>1, <1>4, AtWork DEF InStep
  <2> QED BY <1>0, <1>1, <1>3, <2>1 DEF InStep, Vault, RowSecret, store
<1>5. handler'[p] # Idle
  BY <1>3 DEF Idle
<1> QED BY <1>0, <1>1, <1>3, <1>4, <1>5, QuietCalm

LEMMA DeleteCheckCalm == ASSUME AgreeInv, Inv', NEW p \in Procs, DeleteRefs(p) \/ DeleteMeta(p) PROVE AgreeInv'
<1>0. /\ handler[p].op = "delete" /\ handler[p].at \in {"refs", "meta"}
      /\ UNCHANGED store /\ blurred' = blurred
      /\ \A b \in Actors \ {p} : handler'[b] = handler[b]
  BY DEF DeleteRefs, DeleteMeta, At, Goto, Return, Smoothly, AgreeInv, Inv, TypeOK
<1>1. PICK n \in Names : n = handler[p].name
  BY <1>0, AtWork
<1>2. p \in Actors /\ handler[p] \in Handlers
  BY <1>0, AtWork
<1>3. n \notin blurred => InStep(n, handler[p]) /\ Vault(n) = RowSecret(n)
  BY <1>0, <1>1, AtWork DEF InStep
<1>4. CASE Return(p)
  <2>1. handler'[p] = Idle
    BY <1>2, <1>4 DEF Return, AgreeInv, Inv, TypeOK
  <2> QED BY <1>0, <1>1, <1>3, <2>1, QuietCalm
<1>5. CASE ~Return(p)
  <2>1. /\ handler'[p].op = "delete" /\ handler'[p].name = n
        /\ \/ handler'[p].at = "meta" /\ n \notin engines
           \/ /\ handler[p].at = "meta" /\ handler'[p].at = "secret" /\ n \in active
              /\ handler'[p].old = meta[n].secret
    BY <1>0, <1>1, <1>2, <1>5 DEF DeleteRefs, DeleteMeta, At, Goto, Name, AgreeInv, Inv, TypeOK, Handlers
  <2>2. n \notin blurred => InStep(n, handler[p])'
    BY <1>0, <1>1, <1>3, <2>1 DEF InStep, Vault, RowSecret, store
  <2>3. handler'[p] # Idle
    BY <2>1 DEF Idle
  <2> QED BY <1>0, <1>1, <2>1, <2>2, <2>3, QuietCalm
<1> QED BY <1>4, <1>5

\* What the call that drops the secret s does to the secrets of the names.
LEMMA DropVault ==
    ASSUME AgreeInv, NEW p \in Procs, NEW n \in Names, n = handler[p].name, NEW s, DropSecret(p, s),
           content' = content, s \in Secrets, content[s].name = n
    PROVE  /\ \A m \in Names \ {n} : Vault(m)' = Vault(m)
           /\ blurred \subseteq blurred' /\ live' \subseteq live
           /\ n \notin blurred' => Vault(n)' = Vault(n) \ {s}
<1>1. PICK o \in VaultOutcomes :
         /\ live' = IF o.done THEN live \ {s} ELSE live
         /\ blurred' = IF ~o.done THEN blurred \cup {n} ELSE blurred
  BY DEF DropSecret, Blurs, Name
<1>2. ASSUME NEW m \in Names \ {n} PROVE Vault(m)' = Vault(m)
  BY <1>1 DEF Vault
<1>3. ASSUME n \notin blurred' PROVE Vault(n)' = Vault(n) \ {s}
  BY <1>1, <1>3 DEF Vault
<1> QED BY <1>1, <1>2, <1>3

LEMMA SaveSecretCalm == ASSUME AgreeInv, Inv', NEW p \in Procs, SaveSecret(p) PROVE AgreeInv'
<1>0. /\ handler[p].op = "save" /\ handler[p].at = "secret"
      /\ UNCHANGED <<active, rows, meta, engines>>
  BY DEF SaveSecret, At
<1>1. PICK n \in Names : n = handler[p].name
  BY <1>0, AtWork
<1>2. PICK s \in Secrets, o \in VaultOutcomes :
         /\ content[s] = Unwritten
         /\ content' = [content EXCEPT ![s] = [name |-> n, fields |-> handler[p].fields]]
         /\ live' = IF o.done THEN live \cup {s} ELSE live
         /\ IF o.ok THEN handler' = [handler EXCEPT ![p].at = "row", ![p].new = s] ELSE Return(p)
         /\ blurred' = IF o.done /\ ~o.ok THEN blurred \cup {n} ELSE blurred
  BY <1>1 DEF SaveSecret, Name, Blurs
<1>3. o.ok => o.done
  <2>1. CASE o = [done |-> TRUE, ok |-> TRUE]
    BY <2>1
  <2>2. CASE o \in [done : BOOLEAN, ok : {FALSE}]
    BY <2>2
  <2> QED BY <2>1, <2>2 DEF VaultOutcomes
<1>4. /\ p \in Actors /\ handler[p] \in Handlers /\ NoSecret \notin Names
      /\ n \notin blurred => InStep(n, handler[p])
  BY <1>0, <1>1, AtWork
<1>5. \A b \in Actors \ {p} : handler'[b] = handler[b]
  BY <1>2 DEF Return, AgreeInv, Inv, TypeOK
<1>6. /\ content'[s].name = n /\ content[s].name = NoSecret
      /\ \A x \in Secrets \ {s} : content'[x] = content[x]
  BY <1>2 DEF AgreeInv, Inv, TypeOK, Unwritten
<1>7. s \notin live /\ live \subseteq Secrets
  BY <1>6 DEF AgreeInv, Inv, TypeOK
<1>8. \A x \in live' : content'[x].name # NoSecret
  BY <1>2, <1>4, <1>6, <1>7 DEF AgreeInv
<1>9. ASSUME NEW m \in Names \ {n} PROVE Vault(m)' = Vault(m)
  BY <1>2, <1>6, <1>7 DEF Vault
<1>10. Vault(n)' = IF o.done THEN Vault(n) \cup {s} ELSE Vault(n)
  BY <1>2, <1>6, <1>7 DEF Vault
<1>11. RowSecret(n)' = RowSecret(n)
  BY <1>0 DEF RowSecret
<1>12. CASE o.ok
  <2>1. /\ handler'[p].op = "save" /\ handler'[p].at = "row" /\ handler'[p].new = s /\ handler'[p].name = n
        /\ handler'[p].old = handler[p].old /\ handler'[p].found = handler[p].found
    BY <1>0, <1>1, <1>2, <1>4, <1>12 DEF AgreeInv, Inv, TypeOK, Handlers
  <2>2. n \notin blurred => s \notin RowSecret(n)
    BY <1>0, <1>4, <1>7 DEF InStep, Vault
  <2>3. n \notin blurred' => InStep(n, handler[p])'
    BY <1>0, <1>2, <1>3, <1>4, <1>10, <1>11, <1>12, <2>1, <2>2 DEF InStep
  <2>4. n \notin blurred' => (n \in engines' => n \in active')
    BY <1>0, <1>1, <1>2, AtWork
  <2> QED BY <1>0, <1>1, <1>2, <1>4, <1>5, <1>8, <1>9, <2>1, <2>3, <2>4, CalmStep
<1>13. CASE ~o.ok
  <2>1. handler'[p].name = NoSecret
    BY <1>2, <1>4, <1>13 DEF Return, Idle, AgreeInv, Inv, TypeOK
  <2>2. n \notin blurred' => Vault(n)' = RowSecret(n)'
    BY <1>0, <1>2, <1>4, <1>10, <1>11, <1>13 DEF InStep
  <2>3. n \notin blurred' => (n \in engines' => n \in active')
    BY <1>0, <1>1, <1>2, AtWork
  <2> QED BY <1>0, <1>1, <1>2, <1>4, <1>5, <1>8, <1>9, <2>1, <2>2, <2>3, CalmStep
<1> QED BY <1>12, <1>13

LEMMA SaveRowCalm == ASSUME AgreeInv, Inv', NEW p \in Procs, SaveRow(p) PROVE AgreeInv'
<1>0. handler[p].op = "save" /\ handler[p].at = "row" /\ UNCHANGED <<live, content, engines>>
  BY DEF SaveRow, At
<1>1. PICK n \in Names : n = handler[p].name
  BY <1>0, AtWork
<1> DEFINE s == handler[p].new
<1>2. PICK o \in Outcomes, clash \in BOOLEAN :
         /\ clash = (~handler[p].found /\ n \in rows)
         /\ IF o.done /\ ~clash
              THEN /\ active' = active \cup {n}
                   /\ rows' = rows \cup {n}
                   /\ meta' = [meta EXCEPT ![n] = [type |-> handler[p].type, secret |-> s]]
              ELSE UNCHANGED <<active, rows, meta>>
         /\ IF o.ok /\ ~clash THEN Goto(p, "old") ELSE Goto(p, "undo")
         /\ blurred' = IF o.done /\ ~o.ok THEN blurred \cup {n} ELSE blurred
  BY <1>1 DEF SaveRow, Name, Blurs
<1>3. o.ok => o.done
  BY DEF Outcomes
<1>4. /\ p \in Actors /\ handler[p] \in Handlers /\ NoSecret \notin Names
      /\ n \notin blurred => InStep(n, handler[p]) /\ (n \in engines => n \in active)
  BY <1>0, <1>1, AtWork
<1>5. /\ \A b \in Actors \ {p} : handler'[b] = handler[b]
      /\ handler'[p].op = "save" /\ handler'[p].name = n
      /\ handler'[p].at = IF o.ok /\ ~clash THEN "old" ELSE "undo"
      /\ handler'[p].new = s /\ handler'[p].old = handler[p].old
  BY <1>0, <1>1, <1>2, <1>4 DEF Goto, AgreeInv, Inv, TypeOK, Handlers
<1>6. /\ \A m \in Names : Vault(m)' = Vault(m)
      /\ \A x \in live' : content'[x].name # NoSecret
  BY <1>0 DEF Vault, AgreeInv
<1>7. /\ \A m \in Names \ {n} : meta'[m] = meta[m] /\ (m \in active') = (m \in active)
      /\ n \in active => n \in active'
  BY <1>2 DEF AgreeInv, Inv, TypeOK
<1>8. ASSUME n \notin blurred' PROVE InStep(n, handler[p])'
  <2>1. InStep(n, handler[p]) /\ (n \notin rows => n \notin active)
    BY <1>2, <1>4, <1>8 DEF AgreeInv, Inv, TypeOK
  <2>2. /\ Vault(n) = RowSecret(n) \cup {s} /\ s \notin RowSecret(n)
        /\ IF handler[p].found THEN n \in active /\ handler[p].old = meta[n].secret
                               ELSE handler[p].old = NoSecret
    BY <1>0, <2>1 DEF InStep
  <2>3. o.done => o.ok
    BY <1>2, <1>8
  <2>4. CASE o.ok /\ ~clash
    <3>1. n \in active' /\ meta'[n].secret = s
      BY <1>2, <1>3, <2>4 DEF AgreeInv, Inv, TypeOK
    <3>2. RowSecret(n)' = {s}
      BY <3>1 DEF RowSecret
    <3>3. s # NoSecret /\ RowSecret(n) = IF handler[p].found THEN {handler[p].old} ELSE {}
      <4>1. s \in Vault(n) /\ live \subseteq Secrets
        BY <2>2 DEF AgreeInv, Inv, TypeOK
      <4> QED BY <1>2, <2>1, <2>2, <2>4, <4>1, StoreAssumption DEF RowSecret, Vault
    <3>4. Vault(n) \ {handler[p].old} = {s}
      BY <2>2, <3>3
    <3> QED BY <1>5, <1>6, <2>4, <3>1, <3>2, <3>4 DEF InStep
  <2>5. CASE ~(o.ok /\ ~clash)
    <3>1. UNCHANGED <<active, rows, meta>>
      BY <1>2, <2>3, <2>5
    <3>2. RowSecret(n)' = RowSecret(n)
      BY <3>1 DEF RowSecret
    <3> QED BY <1>5, <1>6, <2>2, <2>5, <3>1, <3>2 DEF InStep
  <2> QED BY <2>4, <2>5
<1>9. n \notin blurred' => (n \in engines' => n \in active')
  BY <1>0, <1>2, <1>4, <1>7
<1> QED BY <1>0, <1>1, <1>2, <1>4, <1>5, <1>6, <1>7, <1>8, <1>9, CalmStep

LEMMA SaveEndCalm == ASSUME AgreeInv, Inv', NEW p \in Procs, SaveUndo(p) \/ SaveOld(p) PROVE AgreeInv'
<1>0. /\ handler[p].op = "save" /\ handler[p].at \in {"undo", "old"} /\ Return(p)
      /\ UNCHANGED <<active, rows, meta, content, engines>>
  BY DEF SaveUndo, SaveOld, At
<1>1. PICK n \in Names : n = handler[p].name
  BY <1>0, AtWork
<1> DEFINE s == IF handler[p].at = "undo" THEN handler[p].new ELSE handler[p].old
<1>2. /\ p \in Actors /\ handler[p] \in Handlers /\ NoSecret \notin Names /\ Sound(p, handler[p])
      /\ n \notin blurred => InStep(n, handler[p]) /\ (n \in engines => n \in active)
  BY <1>0, <1>1, AtWork
<1>3. handler'[p].name = NoSecret /\ \A b \in Actors \ {p} : handler'[b] = handler[b]
  BY <1>0, <1>2 DEF Return, Idle, AgreeInv, Inv, TypeOK
<1>4. RowSecret(n)' = RowSecret(n)
  BY <1>0 DEF RowSecret
<1>5. CASE s # NoSecret /\ DropSecret(p, s)
  <2>1. s \in Secrets /\ content[s].name = n
    BY <1>1, <1>2, <1>5 DEF Sound
  <2>2. /\ \A m \in Names \ {n} : Vault(m)' = Vault(m)
        /\ blurred \subseteq blurred' /\ live' \subseteq live
        /\ n \notin blurred' => Vault(n)' = Vault(n) \ {s}
    BY <1>0, <1>1, <1>5, <2>1, DropVault
  <2>3. n \notin blurred' => Vault(n)' = RowSecret(n)'
    BY <1>0, <1>2, <1>4, <2>2 DEF InStep
  <2>4. \A x \in live' : content'[x].name # NoSecret
    BY <1>0, <2>2 DEF AgreeInv
  <2> QED BY <1>0, <1>1, <1>2, <1>3, <2>2, <2>3, <2>4, CalmStep
<1>6. CASE s = NoSecret
  <2>1. live \subseteq Secrets /\ NoSecret \notin Secrets
    BY StoreAssumption DEF AgreeInv, Inv, TypeOK
  <2>2. live' = live /\ blurred \subseteq blurred'
    BY <1>0, <1>6, <2>1 DEF SaveUndo, SaveOld, DropSecret, Smoothly, Blurs, At
  <2>3. \A m \in Names : Vault(m)' = Vault(m)
    BY <1>0, <2>2 DEF Vault
  <2>4. n \notin blurred' => Vault(n)' = RowSecret(n)'
    <3>1. s \notin Vault(n)
      BY <1>6, <2>1 DEF Vault
    <3> QED BY <1>0, <1>2, <1>4, <1>6, <2>2, <2>3, <3>1 DEF InStep
  <2>5. \A x \in live' : content'[x].name # NoSecret
    BY <1>0, <2>2 DEF AgreeInv
  <2> QED BY <1>0, <1>1, <1>2, <1>3, <2>2, <2>3, <2>4, <2>5, CalmStep
<1>7. s = NoSecret \/ DropSecret(p, s)
  BY <1>0 DEF SaveUndo, SaveOld, At
<1> QED BY <1>5, <1>6, <1>7

LEMMA DeleteCalm == ASSUME AgreeInv, Inv', NEW p \in Procs, DeleteSecret(p) \/ DeleteRow(p) PROVE AgreeInv'
<1>0. /\ handler[p].op = "delete" /\ handler[p].at \in {"secret", "row"}
      /\ UNCHANGED <<rows, meta, content, engines>>
  BY DEF DeleteSecret, DeleteRow, At
<1>1. PICK n \in Names : n = handler[p].name
  BY <1>0, AtWork
<1>2. /\ p \in Actors /\ handler[p] \in Handlers /\ NoSecret \notin Names /\ Sound(p, handler[p])
      /\ n \notin blurred => InStep(n, handler[p])
  BY <1>0, <1>1, AtWork
<1>3. CASE DeleteSecret(p)
  <2> DEFINE s == handler[p].old
  <2>1. /\ DropSecret(p, s) /\ handler[p].at = "secret" /\ active' = active
        /\ \A b \in Actors \ {p} : handler'[b] = handler[b]
        /\ handler'[p].op = "delete" /\ handler'[p].at = "row" /\ handler'[p].name = n
    BY <1>1, <1>2, <1>3 DEF DeleteSecret, At, Goto, AgreeInv, Inv, TypeOK, Handlers
  <2>2. CASE s # NoSecret
    <3>1. s \in Secrets /\ content[s].name = n
      BY <1>1, <1>2, <2>2 DEF Sound
    <3>2. /\ \A m \in Names \ {n} : Vault(m)' = Vault(m)
          /\ blurred \subseteq blurred' /\ live' \subseteq live
          /\ n \notin blurred' => Vault(n)' = Vault(n) \ {s}
      BY <1>0, <1>1, <2>1, <3>1, DropVault
    <3>3. n \notin blurred' => InStep(n, handler[p])' /\ n \notin engines'
      BY <1>0, <1>2, <2>1, <3>2 DEF InStep, RowSecret
    <3>4. \A x \in live' : content'[x].name # NoSecret
      BY <1>0, <3>2 DEF AgreeInv
    <3> QED BY <1>0, <1>1, <2>1, <3>2, <3>3, <3>4, CalmStep
  <2>3. CASE s = NoSecret
    <3>1. live \subseteq Secrets /\ NoSecret \notin Secrets
      BY StoreAssumption DEF AgreeInv, Inv, TypeOK
    <3>2. live' = live /\ blurred \subseteq blurred'
      BY <2>1, <2>3, <3>1 DEF DropSecret, Blurs
    <3>3. n \in blurred
      <4>1. n \notin blurred => n \in active /\ s = meta[n].secret /\ n \in rows
        BY <1>0, <1>2, <2>1 DEF InStep, AgreeInv, Inv, TypeOK
      <4> QED BY <2>3, <3>1, <4>1 DEF AgreeInv, Inv, RowsSaved, Saved
    <3>4. (\A m \in Names : Vault(m)' = Vault(m)) /\ (\A x \in live' : content'[x].name # NoSecret)
      BY <1>0, <3>2 DEF Vault, AgreeInv
    <3> QED BY <1>0, <1>1, <2>1, <3>2, <3>3, <3>4, CalmStep
  <2> QED BY <2>2, <2>3
<1>4. CASE DeleteRow(p)
  <2>1. /\ handler[p].at = "row" /\ live' = live /\ blurred \subseteq blurred'
        /\ handler'[p].name = NoSecret /\ \A b \in Actors \ {p} : handler'[b] = handler[b]
        /\ \A m \in Names \ {n} : (m \in active') = (m \in active)
    BY <1>1, <1>2, <1>4 DEF DeleteRow, At, Return, Idle, Blurs, Name, AgreeInv, Inv, TypeOK
  <2>2. n \notin blurred' => n \notin active'
    BY <1>1, <1>4 DEF DeleteRow, Blurs, Name
  <2>3. (\A m \in Names : Vault(m)' = Vault(m)) /\ (\A x \in live' : content'[x].name # NoSecret)
    BY <1>0, <2>1 DEF Vault, AgreeInv
  <2>4. n \notin blurred' => Vault(n)' = RowSecret(n)' /\ n \notin engines'
    BY <1>0, <1>2, <2>1, <2>2, <2>3 DEF InStep, RowSecret
  <2> QED BY <1>0, <1>1, <1>2, <2>1, <2>3, <2>4, CalmStep
<1> QED BY <1>3, <1>4

LEMMA EngineInsertCalm == ASSUME AgreeInv, Inv', NEW p \in Procs, EngineInsert(p) PROVE AgreeInv'
<1>0. /\ handler[p].op = "engine" /\ handler[p].at = "have" /\ blurred' = blurred
      /\ UNCHANGED <<active, rows, meta, live, content>>
  BY DEF EngineInsert, At, Smoothly
<1>1. PICK n \in Names : n = handler[p].name
  BY <1>0, AtWork
<1>2. /\ p \in Actors /\ NoSecret \notin Names
      /\ n \notin blurred => InStep(n, handler[p])
  BY <1>0, <1>1, AtWork
<1>3. handler'[p].name = NoSecret /\ \A b \in Actors \ {p} : handler'[b] = handler[b]
  BY <1>2 DEF EngineInsert, Return, Idle, AgreeInv, Inv, TypeOK
<1>4. \A m \in Names \ {n} : (m \in engines') = (m \in engines)
  BY <1>1 DEF EngineInsert, Name
<1>5. (\A m \in Names : Vault(m)' = Vault(m)) /\ (\A x \in live' : content'[x].name # NoSecret)
  BY <1>0 DEF Vault, AgreeInv
<1>6. n \notin blurred' => Vault(n)' = RowSecret(n)' /\ n \in active'
  BY <1>0, <1>2, <1>5 DEF InStep, RowSecret
<1> QED BY <1>0, <1>1, <1>2, <1>3, <1>4, <1>5, <1>6, CalmStep

\* Steps that no process takes with a request of its own: the threads of asks
\* and the deletion of an engine.
LEMMA OtherCalm ==
    ASSUME AgreeInv, Inv', UNCHANGED <<active, rows, meta, live, content>>, blurred' = blurred,
           engines' \subseteq engines, \A p \in Procs : handler'[p] = handler[p]
    PROVE  AgreeInv'
<1>1. (\A n \in Names : Vault(n)' = Vault(n) /\ RowSecret(n)' = RowSecret(n))
  BY DEF Vault, RowSecret
<1>2. ASSUME NEW n \in Names \ blurred' PROVE Calm(n)'
  <2>1. Calm(n)
    BY <1>2 DEF AgreeInv
  <2>2. Busy(n)' = Busy(n)
    BY DEF Busy
  <2>3. ASSUME NEW p \in Procs, handler'[p].name = n PROVE InStep(n, handler[p])'
    <3>1. handler'[p] = handler[p] /\ InStep(n, handler[p])
      BY <2>1, <2>3 DEF Calm
    <3> QED BY <1>1, <1>2, <3>1 DEF InStep
  <2> QED BY <1>1, <1>2, <2>1, <2>2, <2>3 DEF Calm
<1> QED BY <1>2 DEF AgreeInv

LEMMA EnterCalm ==
    ASSUME AgreeInv, Inv', NEW p \in Procs, NEW n \in Names, NEW op, NEW step, NEW t, NEW f,
           Enter(p, op, step, n, t, f), step \in {"meta", "refs"}, op = "delete" => step = "refs"
    PROVE  AgreeInv'
<1>1. /\ p \in Actors /\ NoSecret \notin Names /\ handler[p].name = NoSecret
      /\ \A q \in Procs : q \in Actors
  BY StoreAssumption DEF Actors, Enter, Idle
<1>2. /\ handler'[p].op = op /\ handler'[p].at = step /\ handler'[p].name = n
      /\ handler'[p].old = NoSecret /\ handler'[p].found = FALSE
      /\ \A b \in Actors \ {p} : handler'[b] = handler[b]
  BY <1>1 DEF Enter, AgreeInv, Inv, TypeOK
<1>3. /\ active' = active /\ meta' = meta /\ engines' = engines /\ live' = live /\ content' = content
      /\ \A m \in Names : Vault(m)' = Vault(m) /\ RowSecret(m)' = RowSecret(m)
  BY DEF Enter, store, Vault, RowSecret
<1>4. blurred' = IF Busy(n) THEN blurred \cup {n} ELSE blurred
  BY DEF Enter
<1>5. ASSUME n \notin blurred' PROVE Calm(n)'
  <2>1. Calm(n) /\ ~Busy(n)
    BY <1>4, <1>5 DEF AgreeInv
  <2>2. \A q \in Procs : handler'[q].name = n => q = p
    BY <1>1, <1>2, <2>1 DEF Busy
  <2>3. Vault(n) = RowSecret(n)
    BY <2>1 DEF Calm
  <2>4. InStep(n, handler[p])'
    BY <1>2, <1>3, <2>3 DEF InStep
  <2> QED BY <1>2, <1>3, <2>1, <2>2, <2>4 DEF Calm, Busy
<1>6. ASSUME NEW m \in Names \ blurred', m # n PROVE Calm(m)'
  <2>1. Calm(m)
    BY <1>4, <1>6 DEF AgreeInv
  <2>2. \A q \in Procs : handler'[q].name = m => q # p /\ handler'[q] = handler[q]
    BY <1>1, <1>2, <1>6
  <2>3. \A q \in Procs : handler[q].name = m => handler'[q] = handler[q]
    BY <1>1, <1>2
  <2>4. Busy(m)' = Busy(m)
    BY <2>2, <2>3 DEF Busy
  <2>5. ASSUME NEW q \in Procs, handler'[q].name = m PROVE InStep(m, handler[q])'
    <3>1. handler'[q] = handler[q] /\ InStep(m, handler[q])
      BY <2>1, <2>2, <2>5 DEF Calm
    <3> QED BY <1>3, <3>1 DEF InStep
  <2> QED BY <1>3, <2>1, <2>2, <2>4, <2>5 DEF Calm
<1> QED BY <1>3, <1>5, <1>6 DEF AgreeInv

LEMMA CrashCalm == ASSUME AgreeInv, Inv', NEW p \in Procs, Crash(p) PROVE AgreeInv'
<1>1. p \in Actors /\ handler[p] # Idle /\ UNCHANGED store /\ Return(p)
  BY DEF Crash, Actors
<1>2. handler[p].op # "none"
  BY <1>1 DEF AgreeInv, Inv, Sound
<1>3. PICK n \in Names : n = handler[p].name
  BY <1>2, AtWork
<1>4. blurred' = blurred \cup {n}
  BY <1>3 DEF Crash, Blurs, Name
<1>5. handler'[p] = Idle /\ \A b \in Actors \ {p} : handler'[b] = handler[b]
  BY <1>1 DEF Return, AgreeInv, Inv, TypeOK
<1> QED BY <1>1, <1>2, <1>3, <1>4, <1>5, QuietCalm

LEMMA ThreadCalm ==
    ASSUME AgreeInv, Inv', NEW a \in Threads, LoadStep(a) \/ Crash(a) \/ \E n \in Names : LoadBegin(a, n)
    PROVE  AgreeInv'
<1>1. a \notin Procs /\ a \in Actors /\ \A p \in Procs : p \in Actors
  BY StoreAssumption DEF Actors
<1>2. UNCHANGED store /\ blurred' = blurred
  BY <1>1 DEF LoadStep, LoadMeta, LoadSecret, LoadEnd, Crash, LoadBegin, Enter, Smoothly, Blurs
<1>3. \A p \in Procs : handler'[p] = handler[p]
  BY <1>1 DEF LoadStep, LoadMeta, LoadSecret, LoadEnd, Crash, LoadBegin, Enter, Return, AgreeInv, Inv, TypeOK
<1> QED BY <1>2, <1>3, OtherCalm DEF store

LEMMA NextAgree == AgreeInv /\ [Next]_vars => AgreeInv'
<1> SUFFICES ASSUME AgreeInv, [Next]_vars PROVE AgreeInv'
  OBVIOUS
<1>0. Inv'
  BY NextInv DEF AgreeInv
<1>1. CASE UNCHANGED vars
  BY <1>0, <1>1, OtherCalm DEF vars
<1>2. ASSUME NEW a \in Actors, LoadStep(a) \/ Crash(a) \/ \E n \in Names : LoadBegin(a, n) PROVE AgreeInv'
  <2>1. CASE a \in Threads
    BY <1>0, <1>2, <2>1, ThreadCalm
  <2>2. CASE a \in Procs /\ (LoadStep(a) \/ Crash(a))
    BY <1>0, <2>2, LoadCalm, CrashCalm
  <2>3. CASE a \in Procs /\ \E n \in Names : LoadBegin(a, n)
    BY <1>0, <2>3, EnterCalm DEF LoadBegin
  <2> QED BY <1>2, <2>1, <2>2, <2>3 DEF Actors
<1>3. ASSUME NEW p \in Procs, SaveStep(p) PROVE AgreeInv'
  BY <1>0, <1>3, SaveMetaCalm, SaveSecretCalm, SaveRowCalm, SaveEndCalm DEF SaveStep
<1>4. ASSUME NEW p \in Procs, DeleteStep(p) \/ EngineInsert(p) PROVE AgreeInv'
  BY <1>0, <1>4, DeleteCheckCalm, DeleteCalm, EngineInsertCalm DEF DeleteStep
<1>5. ASSUME NEW p \in Procs, NEW n \in Names,
             DeleteBegin(p, n) \/ EngineBegin(p, n) \/ \E i \in Inputs : SaveBegin(p, n, i.type, i.fields)
      PROVE AgreeInv'
  BY <1>0, <1>5, EnterCalm DEF DeleteBegin, EngineBegin, SaveBegin
<1>6. ASSUME NEW n \in Names, EngineDropped(n) PROVE AgreeInv'
  BY <1>0, <1>6, OtherCalm DEF EngineDropped
<1> QED BY <1>1, <1>2, <1>3, <1>4, <1>5, <1>6 DEF Next

\* Whatever fails, and whoever else is at work, a name whose requests come one
\* at a time and meet no fault that splits the stores has, between requests,
\* the one secret its active row names and no other: no save leaks the old
\* secret or loses the new one, and a refused save is undone.
THEOREM NamesKeepOneSecret == Spec => []OneSecretPerCredential
<1>1. AgreeInv => OneSecretPerCredential
  BY DEF AgreeInv, Calm, Vault, RowSecret, OneSecretPerCredential
<1> QED BY <1>1, InitInv, InitAgree, NextAgree, PTL DEF Spec

\* The credential an engine references cannot be deleted under it: the check
\* of credential_delete holds from its query to the row, on such a name.
THEOREM EnginesKeepCredential == Spec => []EngineHasCredential
<1>1. AgreeInv => EngineHasCredential
  BY DEF AgreeInv, Inv, TypeOK, Calm, EngineHasCredential
<1> QED BY <1>1, InitInv, InitAgree, NextAgree, PTL DEF Spec
=============================================================================
