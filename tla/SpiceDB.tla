------------------------------ MODULE SpiceDB ------------------------------
(***************************************************************************)
(* The relationships the program keeps in SpiceDB and the one call it      *)
(* writes them with.  SpiceDB itself is external: what is modelled is how  *)
(* the program uses it.  The stored relationships are a variable of the    *)
(* modules that use this one; here they are a parameter.                   *)
(***************************************************************************)
EXTENDS ContentDB, Sequences

CONSTANT MaxUpdatesPerCall  \* SpiceDB's limit on the updates of one request

ASSUME LimitAssumption == MaxUpdatesPerCall \in Nat

(***************************************************************************)
(* Objects.  The ids are built with fmt.Sprintf as "<org>_root" and        *)
(* "<org>_root/ungrouped"; all that matters is that they are distinct.     *)
(***************************************************************************)
Organization(org) == <<"organization", org>>
Root(org) == <<"workspace", <<org, "root">>>>
Ungrouped(org) == <<"workspace", <<org, "ungrouped">>>>
Host(h) == <<"inventory/host", h>>
System(s) == <<"patch/system", s>>
Patch(n) == <<"patch/patch", n>>

Rel(resource, relation, subject) ==
    [resource |-> resource, relation |-> relation, subject |-> subject]

(***************************************************************************)
(* The relationships the migrations write, one operator per relation of    *)
(* the schema.                                                             *)
(***************************************************************************)
RootParent(org) == Rel(Root(org), "parent", Organization(org))
UngroupedParent(org) == Rel(Ungrouped(org), "parent", Root(org))
HostWorkspace(h, org) == Rel(Host(h), "workspace", Ungrouped(org))
SystemHost(s, h) == Rel(System(s), "host", Host(h))
PatchSystem(n, s) == Rel(Patch(n), "system", System(s))

Relationships ==
    { RootParent(org) : org \in Accounts }
    \cup { UngroupedParent(org) : org \in Accounts }
    \cup { HostWorkspace(h, org) : h \in Hosts, org \in Accounts }
    \cup { SystemHost(s, h) : s \in Systems, h \in Hosts }
    \cup { PatchSystem(n, s) : n \in Names, s \in Systems }

(***************************************************************************)
(* One RelationshipUpdate of a WriteRelationships request.                 *)
(***************************************************************************)
Touch(rel) == [op |-> "TOUCH", rel |-> rel]
Delete(rel) == [op |-> "DELETE", rel |-> rel]

(***************************************************************************)
(* WriteRelationships refuses a request that exceeds its limit or names a  *)
(* relationship twice, and applies any other one atomically.               *)
(***************************************************************************)
Acceptable(updates) ==
    /\ Len(updates) <= MaxUpdatesPerCall
    /\ \A i, j \in 1..Len(updates) :
         updates[i].rel = updates[j].rel => i = j

Applied(stored, deleted, touched) == (stored \ deleted) \cup touched

WriteRelationships(stored, updates) ==
    LET sent(op) == { updates[i].rel : i \in
                        { k \in 1..Len(updates) : updates[k].op = op } }
    IN  Applied(stored, sent("DELETE"), sent("TOUCH"))

(***************************************************************************)
(* The same for a request of which only the relationships matter, not      *)
(* their order: none is deleted twice or touched twice.                    *)
(***************************************************************************)
AcceptableSets(deleted, touched) ==
    /\ Cardinality(deleted) + Cardinality(touched) <= MaxUpdatesPerCall
    /\ deleted \cap touched = {}

=============================================================================
