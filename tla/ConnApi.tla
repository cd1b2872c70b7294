------------------------------- MODULE ConnApi -------------------------------
(***************************************************************************)
(* The connection handlers of internal/httpapi: create, update, delete,    *)
(* list and the navigation tree (handlers_connections.go, handlers_nav.go) *)
(* and loadConn, with which every MySQL and Redis handler starts           *)
(* (connutil.go).  Requests run concurrently.  A handler that changes the  *)
(* list loads it, edits its copy and saves the copy: Load and Save are     *)
(* each atomic (ConnFile implements AtomicRegister), the pair is not.      *)
(* The server validates neither the type nor the configuration of a body:  *)
(* it stores what it is sent, and answers 400 when the connection is used. *)
(*                                                                         *)
(* The list is a set of connection records: its order is layout.  The      *)
(* fields of a configuration other than the password are one value, addr.  *)
(* A connection's mysql and redis pointers are the function cfg; NoConfig  *)
(* is nil.                                                                 *)
(***************************************************************************)
EXTENDS FiniteSets, Naturals

CONSTANTS
  Reqs,          \* requests that may be in flight
  Ids,           \* what util.NewID may return; each once
  Names, Addrs,
  Passwords,     \* non-empty passwords
  Blank,         \* the password ""
  NoConfig,      \* a nil *MySQLConfig or *RedisConfig
  Absent,        \* a nil pointer in an update: leave the field
  CreateBodies, UpdateBodies,   \* the JSON bodies clients send
  MaxMutators    \* bound: requests that change the list in flight at a time

Types == {"mysql", "redis"}

\* A ConnType is any string: "other" is one that the code has no name for.
ConnTypes == Types \cup {"other"}

Configs  == [addr : Addrs, password : Passwords \cup {Blank}]
CfgField == [Types -> Configs \cup {NoConfig}]

Conns == [id : Ids, name : Names, type : ConnTypes, cfg : CfgField]

ASSUME PasswordsAssumption == Blank \notin Passwords
ASSUME NoConfigAssumption  == NoConfig \notin Configs
ASSUME AbsentAssumption    == Absent \notin Names \cup ConnTypes

ASSUME CreateBodiesAssumption ==
  CreateBodies \subseteq [name : Names, type : ConnTypes, cfg : CfgField]

ASSUME UpdateBodiesAssumption ==
  UpdateBodies \subseteq
    [name : Names \cup {Absent}, type : ConnTypes \cup {Absent}, cfg : CfgField]

\* The configuration of the type and no other; none if the type is left out.
WellFormed(type, cfg) ==
  \A k \in Types : cfg[k] # NoConfig <=> k = type

\* What Connections.tsx sends (onCreate, onEdit) is regular, and so is an
\* update that leaves both the type and the configuration alone.
Regular(b) == b.type \in Types \cup {Absent} /\ WellFormed(b.type, b.cfg)

VARIABLES
  conns,    \* the list in connections.json
  req,      \* [Reqs -> requests], what each handler goroutine is doing
  used,     \* identifiers NewID has returned
  sent,     \* <<id, kind, password>> clients sent in creates and updates
  odd       \* identifiers for which a client sent a body that is not Regular

vars == <<conns, req, used, sent, odd>>

Idle   == [pc |-> "idle"]
Silent == {}      \* the body of a reply that carries no connection

(***************************************************************************)
(* Requests.  pc "load": about to call LoadConnections; "save": about to   *)
(* call SaveConnections with list; "reply": the response is written.       *)
(***************************************************************************)
Creating(i, b)  == [kind |-> "create", id |-> i, body |-> b]
Updating(i, b)  == [kind |-> "update", id |-> i, body |-> b]
Deleting(i)     == [kind |-> "delete", id |-> i]
Listing         == [kind |-> "list"]
Navigating      == [kind |-> "nav"]
Opening(i, k)   == [kind |-> "open", id |-> i, type |-> k]   \* loadConn

Mutators == {"create", "update", "delete"}

Loading(o)    == [pc |-> "load", op |-> o]
Replied(s, c) == [pc |-> "reply", status |-> s, body |-> c]

\* base is the list that was loaded, list what the handler made of it.
Saving(o, b, l, c) ==
  [pc |-> "save", op |-> o, base |-> b, list |-> l, body |-> c]

Becomes(r, x) == req' = [req EXCEPT ![r] = x]

Mutating(r) ==
  req[r].pc \in {"load", "save"} /\ req[r].op.kind \in Mutators

MayMutate == Cardinality({r \in Reqs : Mutating(r)}) < MaxMutators

Init ==
  /\ conns = {}
  /\ req = [r \in Reqs |-> Idle]
  /\ used = {}
  /\ sent = {}
  /\ odd = {}

Sends(i, cfg) == {<<i, k, cfg[k].password>> : k \in {j \in Types : cfg[j] # NoConfig}}

Submitted(i, b) ==
  /\ sent' = sent \cup Sends(i, b.cfg)
  /\ odd' = IF Regular(b) THEN odd ELSE odd \cup {i}

\* NewID returns twelve random bytes: never one returned before.
StartCreate(r, b) ==
  /\ req[r] = Idle
  /\ MayMutate
  /\ \E i \in Ids \ used :
       /\ used' = used \cup {i}
       /\ Submitted(i, b)
       /\ Becomes(r, Loading(Creating(i, b)))
  /\ UNCHANGED conns

\* A client names a connection it has seen: the identifier was given out, and
\* not in a create that is still running.
Known ==
  {i \in used : \A r \in Reqs :
     Mutating(r) /\ req[r].op.kind = "create" => req[r].op.id # i}

StartUpdate(r, i, b) ==
  /\ req[r] = Idle
  /\ MayMutate
  /\ i \in Known
  /\ Submitted(i, b)
  /\ Becomes(r, Loading(Updating(i, b)))
  /\ UNCHANGED <<conns, used>>

StartDelete(r, i) ==
  /\ req[r] = Idle
  /\ MayMutate
  /\ i \in Known
  /\ Becomes(r, Loading(Deleting(i)))
  /\ UNCHANGED <<conns, used, sent, odd>>

Readings ==
  {Listing, Navigating} \cup {Opening(i, k) : i \in Known, k \in Types}

StartRead(r) ==
  /\ req[r] = Idle
  /\ \E o \in Readings : Becomes(r, Loading(o))
  /\ UNCHANGED <<conns, used, sent, odd>>

At(r, pc, kind) ==
  req[r].pc = pc /\ req[r].op.kind = kind

Named(l, i) == {c \in l : c.id = i}

(***************************************************************************)
(* handleCreateConnection, from LoadConnections on.                        *)
(***************************************************************************)
NewConn(i, b) == [id |-> i, name |-> b.name, type |-> b.type, cfg |-> b.cfg]

LoadForCreate(r) ==
  /\ At(r, "load", "create")
  /\ LET o == req[r].op
         c == NewConn(o.id, o.body)
     IN  Becomes(r, Saving(o, conns, conns \cup {c}, {c}))
  /\ UNCHANGED <<conns, used, sent, odd>>

(***************************************************************************)
(* handleUpdateConnection: the patch of one connection.  A password left   *)
(* blank means "do not change"; a body with any configuration replaces     *)
(* both.                                                                   *)
(***************************************************************************)
KeepPassword(new, old) ==
  IF new # NoConfig /\ old # NoConfig /\ new.password = Blank
    THEN [new EXCEPT !.password = old.password]
    ELSE new

\* A mutant of Given: a field the update leaves out is stored as absent.
GivenAlways(new, old) == new

Given(new, old) == IF new = Absent THEN old ELSE new

\* Mutants of Patch: each configuration is replaced on its own; the kept
\* password is whichever the connection has.
PatchEach(c, b) ==
  [id   |-> c.id,
   name |-> Given(b.name, c.name),
   type |-> Given(b.type, c.type),
   cfg  |-> [k \in Types |-> IF b.cfg[k] = NoConfig
                               THEN c.cfg[k]
                               ELSE KeepPassword(b.cfg[k], c.cfg[k])]]

PatchAnyPassword(c, b) ==
  [id   |-> c.id,
   name |-> Given(b.name, c.name),
   type |-> Given(b.type, c.type),
   cfg  |-> IF \E k \in Types : b.cfg[k] # NoConfig
              THEN [k \in Types |-> KeepPassword(b.cfg[k], c.cfg[c.type])]
              ELSE c.cfg]

Patch(c, b) ==
  [id   |-> c.id,
   name |-> Given(b.name, c.name),
   type |-> Given(b.type, c.type),
   cfg  |-> IF \E k \in Types : b.cfg[k] # NoConfig
              THEN [k \in Types |-> KeepPassword(b.cfg[k], c.cfg[k])]
              ELSE c.cfg]

\* A mutant of LoadForUpdate: the patched connection is added to the list.
LoadForUpdateAdds(r) ==
  /\ At(r, "load", "update")
  /\ LET o == req[r].op
     IN  \/ \E c \in Named(conns, o.id) :
              Becomes(r, Saving(o, conns, conns \cup {Patch(c, o.body)},
                                {Patch(c, o.body)}))
         \/ /\ Named(conns, o.id) = {}
            /\ Becomes(r, Replied(404, Silent))
  /\ UNCHANGED <<conns, used, sent, odd>>

LoadForUpdate(r) ==
  /\ At(r, "load", "update")
  /\ LET o == req[r].op
     IN  \/ \E c \in Named(conns, o.id) :
              Becomes(r, Saving(o, conns, (conns \ {c}) \cup {Patch(c, o.body)},
                                {Patch(c, o.body)}))
         \/ /\ Named(conns, o.id) = {}
            /\ Becomes(r, Replied(404, Silent))
  /\ UNCHANGED <<conns, used, sent, odd>>

(***************************************************************************)
(* handleDeleteConnection.                                                 *)
(***************************************************************************)
\* A mutant of LoadForDelete: it does not say that nothing was found.
LoadForDeleteSilently(r) ==
  /\ At(r, "load", "delete")
  /\ Becomes(r, Saving(req[r].op, conns, conns \ Named(conns, req[r].op.id), Silent))
  /\ UNCHANGED <<conns, used, sent, odd>>

LoadForDelete(r) ==
  /\ At(r, "load", "delete")
  /\ LET o == req[r].op
     IN  Becomes(r, IF Named(conns, o.id) = {}
                      THEN Replied(404, Silent)
                      ELSE Saving(o, conns, conns \ Named(conns, o.id), Silent))
  /\ UNCHANGED <<conns, used, sent, odd>>

SaveStatus(kind) == IF kind = "create" THEN 201 ELSE 200

\* SaveConnections replaces the whole list by the handler's copy.
Save(r) ==
  /\ req[r].pc = "save"
  /\ conns' = req[r].list
  /\ Becomes(r, Replied(SaveStatus(req[r].op.kind), req[r].body))
  /\ UNCHANGED <<used, sent, odd>>

(***************************************************************************)
(* The readers: handleGetConnections, handleNavTree, loadConn.             *)
(***************************************************************************)
\* The tree groups its entries by type, and shows no connection of another.
NavTree ==
  {[id |-> c.id, name |-> c.name, type |-> c.type] :
     c \in {d \in conns : d.type \in Types}}

LoadForRead(r) ==
  /\ req[r].pc = "load" /\ req[r].op.kind \in {"list", "nav"}
  /\ Becomes(r, Replied(200, IF req[r].op.kind = "nav" THEN NavTree ELSE conns))
  /\ UNCHANGED <<conns, used, sent, odd>>

\* The connection, if it has the type the endpoint is for; its handler then
\* refuses a connection without a configuration of that type.
LoadForOpen(r) ==
  /\ At(r, "load", "open")
  /\ LET o == req[r].op
     IN  \/ \E c \in Named(conns, o.id) :
              Becomes(r, IF c.type = o.type /\ c.cfg[o.type] # NoConfig
                           THEN Replied(200, {c})
                           ELSE Replied(400, Silent))
         \/ /\ Named(conns, o.id) = {}
            /\ Becomes(r, Replied(404, Silent))
  /\ UNCHANGED <<conns, used, sent, odd>>

\* LoadConnections or SaveConnections returned an error.
StorageError(r) ==
  /\ req[r].pc \in {"load", "save"}
  /\ Becomes(r, Replied(500, Silent))
  /\ UNCHANGED <<conns, used, sent, odd>>

\* The client has the response.
Deliver(r) ==
  /\ req[r].pc = "reply"
  /\ Becomes(r, Idle)
  /\ UNCHANGED <<conns, used, sent, odd>>

\* The process serving the request is killed: Shutdown waits five seconds and
\* main returns (main.go:59-61).
Drop(r) ==
  /\ req[r] # Idle
  /\ Becomes(r, Idle)
  /\ UNCHANGED <<conns, used, sent, odd>>

Next ==
  \E r \in Reqs :
    \/ \E b \in CreateBodies : StartCreate(r, b)
    \/ \E i \in Ids, b \in UpdateBodies : StartUpdate(r, i, b)
    \/ \E i \in Ids : StartDelete(r, i)
    \/ StartRead(r)
    \/ LoadForCreate(r) \/ LoadForUpdate(r) \/ LoadForDelete(r)
    \/ LoadForRead(r) \/ LoadForOpen(r)
    \/ Save(r) \/ StorageError(r) \/ Deliver(r) \/ Drop(r)

Spec == Init /\ [][Next]_vars

(***************************************************************************)
(* Properties.                                                             *)
(***************************************************************************)
CreateOps == [kind : {"create"}, id : Ids, body : CreateBodies]
UpdateOps == [kind : {"update"}, id : Ids, body : UpdateBodies]
DeleteOps == [kind : {"delete"}, id : Ids]
ReadOps   == [kind : {"list", "nav"}]
               \cup [kind : {"open"}, id : Ids, type : Types]
Ops == CreateOps \cup UpdateOps \cup DeleteOps \cup ReadOps

RequestOK(x) ==
  \/ x = Idle
  \/ x.pc = "load" /\ x = Loading(x.op) /\ x.op \in Ops
  \/ /\ x.pc = "save"
     /\ x = Saving(x.op, x.base, x.list, x.body)
     /\ x.op \in CreateOps \cup UpdateOps \cup DeleteOps
     /\ x.base \subseteq Conns /\ x.list \subseteq Conns
  \/ /\ x.pc = "reply"
     /\ x = Replied(x.status, x.body)
     /\ x.status \in {200, 201, 400, 404, 500}

TypeOK ==
  /\ conns \subseteq Conns
  /\ DOMAIN req = Reqs
  /\ \A r \in Reqs : RequestOK(req[r])
  /\ used \subseteq Ids
  /\ sent \subseteq Ids \X Types \X (Passwords \cup {Blank})
  /\ odd \subseteq Ids

\* The lists that are, or may become, the content of connections.json.
Versions == {conns} \cup {req[r].list : r \in {q \in Reqs : req[q].pc = "save"}}

(***************************************************************************)
(* An identifier names at most one connection, however the copies of       *)
(* concurrent handlers overwrite each other: update and loadConn stop at   *)
(* the first match, delete drops every match (handlers_connections.go:110, *)
(* 166, connutil.go:42), and they agree because of this.                   *)
(***************************************************************************)
UniqueIds ==
  \A l \in Versions : \A c, d \in l : c.id = d.id => c = d

(***************************************************************************)
(* A connection has the configuration its type needs, and no other, as     *)
(* long as the bodies sent for it are Regular: an update may change the    *)
(* type, and may leave the configuration alone (handlers_connections.go:   *)
(* 118, 122), the server validates neither, and what other clients send    *)
(* for other connections, and handlers that overwrite each other's lists,  *)
(* do not bring a connection to "missing mysql config".                    *)
(***************************************************************************)
TypeHasConfig ==
  \A l \in Versions : \A c \in l :
    c.id \notin odd => c.type \in Types /\ WellFormed(c.type, c.cfg)

(***************************************************************************)
(* A stored password is one a client sent for that connection and that     *)
(* kind of server: keeping the old password (handlers_connections.go:      *)
(* 123-129) never takes it from another connection, or the MySQL one for   *)
(* Redis.                                                                  *)
(***************************************************************************)
PasswordProvenance ==
  \A l \in Versions : \A c \in l : Sends(c.id, c.cfg) \subseteq sent

(***************************************************************************)
(* "A password left blank means: do not change it, so that an edit does    *)
(* not clear it" (handlers_connections.go:123): a Save for such an update  *)
(* leaves the stored password as it finds it.                              *)
(***************************************************************************)
BlankBody(o, k) ==
  /\ o.kind = "update"
  /\ o.body.cfg[k] # NoConfig
  /\ o.body.cfg[k].password = Blank

Saves(r) == req[r].pc = "save" /\ req'[r].pc = "reply" /\ req'[r].status < 400

BlankKeepsPassword ==
  [][\A r \in Reqs : Saves(r) =>
       \A k \in Types : BlankBody(req[r].op, k) =>
         \A c \in conns, d \in conns' :
           /\ c.id = req[r].op.id
           /\ d.id = c.id
           /\ c.cfg[k] # NoConfig
           => d.cfg[k].password = c.cfg[k].password]_vars

(***************************************************************************)
(* The handlers implement the table of ConnRegistry, whatever reads,       *)
(* failures and kills surround them, but for the update that load and save *)
(* lose between them: a change whose list was edited from an older one     *)
(* than the stored (Stale) is the operation on that older table, and puts  *)
(* it back.  An answer takes effect when the handler learns it: an error   *)
(* or a reader's answer at Load, a change at Save.                         *)
(***************************************************************************)
CallOf(x) ==
  IF x = Idle THEN [state |-> "free"]
  ELSE IF x.pc = "reply"
       THEN [state |-> "answered", status |-> x.status, body |-> x.body]
       ELSE [state |-> "asked", op |-> x.op]

Registry == INSTANCE ConnRegistry WITH
  table <- conns,
  born  <- used,
  call  <- [r \in Reqs |-> CallOf(req[r])]

Stale(r) == req[r].pc = "save" /\ req[r].base # conns

\* Every step is a step of the table, or a stale change of its older state.
ImplementsRegistry ==
  /\ Registry!Init
  /\ [][\/ Registry!Next
        \/ \E r \in Reqs : Stale(r) /\ Registry!Change(r, req[r].base)
       ]_(Registry!vars)

(***************************************************************************)
(* The inductive invariant of the proofs: every version of the list is     *)
(* good, a create in flight owns its identifier alone, and what a create   *)
(* or an update will store was sent, and is regular where all was.         *)
(***************************************************************************)
Creates(r) == Mutating(r) /\ req[r].op.kind = "create"

GoodList(l) ==
  /\ \A c, d \in l : c.id = d.id => c = d
  /\ \A c \in l : /\ c.id \in used
                  /\ c.id \notin odd => c.type \in Types /\ WellFormed(c.type, c.cfg)
                  /\ Sends(c.id, c.cfg) \subseteq sent

ListsGood == \A l \in Versions : GoodList(l)

CreateOwnsId ==
  \A r \in Reqs : Creates(r) =>
    /\ req[r].op.id \in used
    /\ \A c \in conns : c.id # req[r].op.id
    /\ \A q \in Reqs \ {r} :
         /\ Creates(q) => req[q].op.id # req[r].op.id
         /\ req[q].pc = "save" => \A c \in req[q].list : c.id # req[r].op.id

BodiesSent ==
  \A r \in Reqs : Mutating(r) /\ req[r].op.kind \in {"create", "update"} =>
    /\ Sends(req[r].op.id, req[r].op.body.cfg) \subseteq sent
    /\ req[r].op.id \notin odd => Regular(req[r].op.body)

IInv == TypeOK /\ ListsGood /\ CreateOwnsId /\ BodiesSent

(***************************************************************************)
(* What the proof of ImplementsRegistry adds: a handler that saves has     *)
(* edited the list it loaded, and that list was good.                      *)
(***************************************************************************)
EditsBase(x) ==
  \/ /\ x.op.kind = "create"
     /\ LET c == NewConn(x.op.id, x.op.body)
        IN  x.list = x.base \cup {c} /\ x.body = {c}
  \/ /\ x.op.kind = "update"
     /\ \E c \in Named(x.base, x.op.id) :
          LET d == Patch(c, x.op.body)
          IN  x.list = (x.base \ {c}) \cup {d} /\ x.body = {d}
  \/ /\ x.op.kind = "delete"
     /\ Named(x.base, x.op.id) # {}
     /\ x.list = x.base \ Named(x.base, x.op.id) /\ x.body = Silent

EditInv ==
  \A r \in Reqs : req[r].pc = "save" =>
    GoodList(req[r].base) /\ EditsBase(req[r])
==============================================================================
