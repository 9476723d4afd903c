------------------------- MODULE OntologyRepository -------------------------
(***************************************************************************)
(* The ontologies and their grants in the database                         *)
(* (src/backend/app/nexus/ontology/repository.py) and the owner's edits    *)
(* (NexusClient.save_ontology, publish_ontology, delete_ontology).  Every  *)
(* statement commits on its own: a publish changes the visibility, then    *)
(* removes every grant, then inserts the new ones, and readers run in      *)
(* between; a statement that fails ends the edit where it is.              *)
(*                                                                         *)
(* The owner edits through one client, one edit at a time.  Bounds:        *)
(* MaxEdits edits.                                                         *)
(***************************************************************************)
EXTENDS Naturals

CONSTANTS Ontologies,  \* ontology ids
          Users,       \* users other than the owner
          Graphs,      \* the graphs a save may store
          NewGraph,    \* the graph of an ontology that was just created
          NoOntology,
          MaxEdits

ASSUME OntologiesNamed == NoOntology \notin Ontologies

VARIABLES onto,   \* the rows, by id
          grants, \* the users granted each ontology
          edit,   \* the statement an edit under way runs next
          edits   \* edits so far

repositoryVars == <<onto, grants, edit, edits>>

Visibility == {"private", "shared", "public"}

Row == [visibility: Visibility, graph: Graphs \cup {NewGraph}]

Absent == [visibility |-> "absent", graph |-> NewGraph]

NoEdit == [step |-> "none", id |-> NoOntology, users |-> {}]

RepositoryTypeOK ==
  /\ onto \in [Ontologies -> Row \cup {Absent}]
  /\ grants \in [Ontologies -> SUBSET Users]
  /\ edit \in [step: {"clear", "grant", "drop"}, id: Ontologies,
               users: SUBSET Users] \cup {NoEdit}
  /\ edits \in Nat

(* can_read, of a row and the grants that were read with it, for a user *)
(* who is not the owner.                                                 *)
CanRead(row, granted, u) ==
  \/ row.visibility = "public"
  \/ row.visibility = "shared" /\ u \in granted

Readable(o, u) == CanRead(onto[o], grants[o], u)

(* list_for_user asks it of every row in one query. *)
Visible(u) == {o \in Ontologies : Readable(o, u)}

StartEdit(e) ==
  /\ edit = NoEdit
  /\ edits < MaxEdits
  /\ edits' = edits + 1
  /\ edit' = e

(* A new id, private, with a graph nothing can use yet. *)
Create ==
  /\ StartEdit(NoEdit)
  /\ \E o \in Ontologies :
       /\ onto[o] = Absent
       /\ onto' = [onto EXCEPT ![o] = [visibility |-> "private",
                                       graph |-> NewGraph]]
  /\ UNCHANGED grants

Owned == {o \in Ontologies : onto[o] # Absent}

Save ==
  /\ StartEdit(NoEdit)
  /\ \E o \in Owned, g \in Graphs :
       onto' = [onto EXCEPT ![o] = [visibility |-> onto[o].visibility,
                                    graph |-> g]]
  /\ UNCHANGED grants

(* The visibility first; the grants only when it is shared. *)
Publish ==
  \E o \in Owned, v \in Visibility, named \in SUBSET Users :
    /\ StartEdit([step |-> "clear", id |-> o,
                  users |-> IF v = "shared" THEN named ELSE {}])
    /\ onto' = [onto EXCEPT ![o] = [visibility |-> v,
                                    graph |-> onto[o].graph]]
    /\ UNCHANGED grants

GrantsLeft(users) ==
  IF users = {} THEN NoEdit
                ELSE [step |-> "grant", id |-> edit.id, users |-> users]

ClearGrants ==
  /\ edit.step = "clear"
  /\ grants' = [grants EXCEPT ![edit.id] = {}]
  /\ edit' = GrantsLeft(edit.users)
  /\ UNCHANGED <<onto, edits>>

GrantNext ==
  /\ edit.step = "grant"
  /\ \E u \in edit.users :
       /\ grants' = [grants EXCEPT ![edit.id] = @ \cup {u}]
       /\ edit' = GrantsLeft(edit.users \ {u})
  /\ UNCHANGED <<onto, edits>>

Delete ==
  \E o \in Owned :
    /\ StartEdit([step |-> "drop", id |-> o, users |-> {}])
    /\ grants' = [grants EXCEPT ![o] = {}]
    /\ UNCHANGED onto

DropRow ==
  /\ edit.step = "drop"
  /\ onto' = [onto EXCEPT ![edit.id] = Absent]
  /\ edit' = NoEdit
  /\ UNCHANGED <<grants, edits>>

(* A statement fails: the edit ends, what it did before stays. *)
EditFails ==
  /\ edit # NoEdit
  /\ edit' = NoEdit
  /\ UNCHANGED <<onto, grants, edits>>

Edit == \/ Create \/ Save \/ Publish \/ ClearGrants \/ GrantNext
        \/ Delete \/ DropRow \/ EditFails
=============================================================================
