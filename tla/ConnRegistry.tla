---------------------------- MODULE ConnRegistry ----------------------------
(***************************************************************************)
(* What the connection API promises a client: a table of connections.  A   *)
(* request takes effect once, between its submission and its answer; one   *)
(* answered with an error, or whose process was killed before it took      *)
(* effect, changed nothing.  An identifier names one connection for ever:  *)
(* a deleted connection does not come back.  An update that leaves the     *)
(* password out keeps the one that is stored.  A change takes the table it *)
(* acts on as a parameter: here, always the current one.                   *)
(***************************************************************************)
CONSTANTS
  Reqs, Ids, Names, Types, ConnTypes, Configs, Blank, NoConfig, Absent,
  CreateBodies, UpdateBodies

VARIABLES
  table,    \* the connections
  born,     \* the identifiers given out
  call      \* [Reqs -> calls]

vars == <<table, born, call>>

\* The body of an answer is the set of connections, or tree entries, it shows.
Free              == [state |-> "free"]
Asked(o)          == [state |-> "asked", op |-> o]
Answered(s, c)    == [state |-> "answered", status |-> s, body |-> c]

Init ==
  /\ table = {}
  /\ born = {}
  /\ call = [r \in Reqs |-> Free]

Becomes(r, x) == call' = [call EXCEPT ![r] = x]

SubmitCreate(r, i, b) ==
  /\ call[r] = Free
  /\ i \notin born
  /\ born' = born \cup {i}
  /\ Becomes(r, Asked([kind |-> "create", id |-> i, body |-> b]))
  /\ UNCHANGED table

Submit(r, o) ==
  /\ call[r] = Free
  /\ Becomes(r, Asked(o))
  /\ UNCHANGED <<table, born>>

OtherOps ==
  [kind : {"update"}, id : Ids, body : UpdateBodies]
    \cup [kind : {"delete"}, id : Ids]
    \cup [kind : {"list", "nav"}]
    \cup [kind : {"open"}, id : Ids, type : Types]

Create(r, o, on) ==
  LET c == [id |-> o.id, name |-> o.body.name, type |-> o.body.type,
            cfg |-> o.body.cfg]
  IN  /\ o.kind = "create"
      /\ table' = on \cup {c}
      /\ Becomes(r, Answered(201, {c}))

\* The password of a configuration after an update.
StoredPassword(sent, old) ==
  IF sent.password # Blank \/ old = NoConfig THEN sent.password
                                             ELSE old.password

\* d is what the update b makes of c.
Updated(c, b, d) ==
  /\ d.id = c.id
  /\ d.name = IF b.name = Absent THEN c.name ELSE b.name
  /\ d.type = IF b.type = Absent THEN c.type ELSE b.type
  /\ \/ /\ \A k \in Types : b.cfg[k] = NoConfig
        /\ d.cfg = c.cfg
     \/ /\ \E k \in Types : b.cfg[k] # NoConfig
        /\ \A k \in Types :
             d.cfg[k] = IF b.cfg[k] = NoConfig THEN NoConfig
                        ELSE [addr |-> b.cfg[k].addr,
                              password |-> StoredPassword(b.cfg[k], c.cfg[k])]

Connections ==
  [id : Ids, name : Names, type : ConnTypes, cfg : [Types -> Configs \cup {NoConfig}]]

Update(r, o, on) ==
  /\ o.kind = "update"
  /\ \E c \in on, d \in Connections :
       /\ c.id = o.id
       /\ Updated(c, o.body, d)
       /\ table' = (on \ {c}) \cup {d}
       /\ Becomes(r, Answered(200, {d}))

Delete(r, o, on) ==
  /\ o.kind = "delete"
  /\ \E c \in on :
       /\ c.id = o.id
       /\ table' = on \ {c}
       /\ Becomes(r, Answered(200, {}))

\* No connection has the identifier.
Unknown(r, o) ==
  /\ o.kind \in {"update", "delete", "open"}
  /\ \A c \in table : c.id # o.id
  /\ Becomes(r, Answered(404, {}))
  /\ UNCHANGED table

List(r, o) ==
  /\ o.kind = "list"
  /\ Becomes(r, Answered(200, table))
  /\ UNCHANGED table

Navigate(r, o) ==
  /\ o.kind = "nav"
  /\ Becomes(r, Answered(200,
       {[id |-> c.id, name |-> c.name, type |-> c.type] :
          c \in {d \in table : d.type \in Types}}))
  /\ UNCHANGED table

\* A connection opens at the endpoints of its type and at no other, and not
\* without the configuration they need.
Open(r, o) ==
  /\ o.kind = "open"
  /\ \E c \in table :
       /\ c.id = o.id
       /\ Becomes(r, IF c.type # o.type \/ c.cfg[o.type] = NoConfig
                       THEN Answered(400, {})
                       ELSE Answered(200, {c}))
  /\ UNCHANGED table

Refuse(r, o) ==
  /\ Becomes(r, Answered(500, {}))
  /\ UNCHANGED table

Execute(r) ==
  /\ call[r].state = "asked"
  /\ LET o == call[r].op
     IN  \/ Unknown(r, o) \/ List(r, o) \/ Navigate(r, o) \/ Open(r, o)
         \/ Refuse(r, o)
  /\ UNCHANGED born

\* A create, update or delete takes effect on the table `on`.
Change(r, on) ==
  /\ call[r].state = "asked"
  /\ LET o == call[r].op
     IN  Create(r, o, on) \/ Update(r, o, on) \/ Delete(r, o, on)
  /\ UNCHANGED born

\* The answer is delivered, or the process that serves the request is killed.
Leave(r) ==
  /\ Becomes(r, Free)
  /\ UNCHANGED <<table, born>>

Next ==
  \E r \in Reqs :
    \/ \E i \in Ids, b \in CreateBodies : SubmitCreate(r, i, b)
    \/ \E o \in OtherOps : Submit(r, o)
    \/ Execute(r)
    \/ Change(r, table)
    \/ Leave(r)

Spec == Init /\ [][Next]_vars
=============================================================================
