--------------------------- MODULE ConnApi_proofs ---------------------------
(***************************************************************************)
(* Proofs about ConnApi, for any number of concurrent requests and any     *)
(* bodies: identifiers stay unique, a connection for which only regular    *)
(* bodies were sent has the configuration of its type, a stored password   *)
(* is one that was sent for it, and the handlers implement ConnRegistry    *)
(* but for the changes that were edited from an older list.                *)
(***************************************************************************)
EXTENDS ConnApi, TLAPS

(***************************************************************************)
(* What the patch of handleUpdateConnection preserves.                     *)
(***************************************************************************)
LEMMA KeepPasswordType ==
  ASSUME NEW new \in Configs \cup {NoConfig}, NEW old \in Configs \cup {NoConfig}
  PROVE  /\ KeepPassword(new, old) \in Configs \cup {NoConfig}
         /\ KeepPassword(new, old) = NoConfig <=> new = NoConfig
         /\ new # NoConfig =>
              \/ KeepPassword(new, old).password = new.password
              \/ /\ old # NoConfig
                 /\ KeepPassword(new, old).password = old.password
  <1>1. CASE new # NoConfig /\ old # NoConfig /\ new.password = Blank
    <2>1. /\ KeepPassword(new, old) = [new EXCEPT !.password = old.password]
          /\ new \in Configs /\ old \in Configs
      BY <1>1 DEF KeepPassword
    <2>2. /\ KeepPassword(new, old) \in Configs
          /\ KeepPassword(new, old).password = old.password
      BY <2>1 DEF Configs
    <2> QED
      BY <1>1, <2>2, NoConfigAssumption
  <1>2. CASE ~(new # NoConfig /\ old # NoConfig /\ new.password = Blank)
    BY <1>2 DEF KeepPassword
  <1> QED
    BY <1>1, <1>2

\* The configuration of its type and no other.
Fits(c) == c.type \in Types /\ WellFormed(c.type, c.cfg)

LEMMA PatchGood ==
  ASSUME NEW c \in Conns, NEW b \in UpdateBodies,
         Sends(c.id, c.cfg) \subseteq sent,
         Sends(c.id, b.cfg) \subseteq sent
  PROVE  /\ Patch(c, b) \in Conns
         /\ Patch(c, b).id = c.id
         /\ Fits(c) /\ Regular(b) => Fits(Patch(c, b))
         /\ Sends(c.id, Patch(c, b).cfg) \subseteq sent
  <1> DEFINE d == Patch(c, b)
  <1>1. b \in [name : Names \cup {Absent}, type : ConnTypes \cup {Absent},
               cfg : CfgField]
    BY UpdateBodiesAssumption
  <1>2. c.cfg \in CfgField /\ c.type \in ConnTypes /\ c.name \in Names /\ c.id \in Ids
    BY DEF Conns
  <1>3. /\ Given(b.name, c.name) \in Names
        /\ Given(b.type, c.type) \in ConnTypes
    BY <1>1, <1>2, AbsentAssumption DEF Given
  <1>4. d.id = c.id /\ d.type = Given(b.type, c.type)
    BY DEF Patch
  <1>5. CASE \A k \in Types : b.cfg[k] = NoConfig
    <2>1. d.cfg = c.cfg
      BY <1>5 DEF Patch
    <2>2. ASSUME Fits(c), Regular(b)
          PROVE  Fits(d)
      <3>1. b.type = Absent
        BY <1>5, <2>2 DEF Regular, WellFormed
      <3>2. d.type = c.type
        BY <1>4, <3>1 DEF Given
      <3> QED
        BY <2>1, <2>2, <3>2 DEF Fits
    <2> QED
      BY <1>2, <1>3, <1>4, <2>1, <2>2 DEF Patch, Conns
  <1>6. CASE \E k \in Types : b.cfg[k] # NoConfig
    <2>1. d.cfg = [k \in Types |-> KeepPassword(b.cfg[k], c.cfg[k])]
      BY <1>6 DEF Patch
    <2>2. ASSUME Regular(b)
          PROVE  /\ b.type \in Types
                 /\ WellFormed(b.type, b.cfg)
                 /\ d.type = b.type
      <3>1. b.type # Absent
        <4>1. Absent \notin Types
          BY AbsentAssumption DEF ConnTypes
        <4> QED
          BY <1>6, <2>2, <4>1 DEF Regular, WellFormed
      <3> QED
        BY <1>4, <2>2, <3>1 DEF Regular, Given
    <2>3. \A k \in Types :
            /\ b.cfg[k] \in Configs \cup {NoConfig}
            /\ c.cfg[k] \in Configs \cup {NoConfig}
      BY <1>1, <1>2 DEF CfgField
    <2>4. d.cfg \in CfgField
      <3>1. \A k \in Types : KeepPassword(b.cfg[k], c.cfg[k]) \in Configs \cup {NoConfig}
        BY <2>3, KeepPasswordType
      <3> HIDE DEF d
      <3> QED
        BY <2>1, <3>1 DEF CfgField
    <2>5. ASSUME NEW k \in Types
          PROVE  d.cfg[k] = NoConfig <=> b.cfg[k] = NoConfig
      <3>1. d.cfg[k] = KeepPassword(b.cfg[k], c.cfg[k])
        BY <2>1
      <3>2. KeepPassword(b.cfg[k], c.cfg[k]) = NoConfig <=> b.cfg[k] = NoConfig
        BY <2>3, KeepPasswordType
      <3> QED
        BY <3>1, <3>2
    <2>6. Regular(b) => Fits(d)
      BY <2>2, <2>5 DEF WellFormed, Fits
    <2>7. ASSUME NEW k \in Types, d.cfg[k] # NoConfig
          PROVE  <<c.id, k, d.cfg[k].password>> \in sent
      <3>1. b.cfg[k] # NoConfig /\ <<c.id, k, b.cfg[k].password>> \in sent
        BY <2>5, <2>7 DEF Sends
      <3>2. c.cfg[k] # NoConfig => <<c.id, k, c.cfg[k].password>> \in sent
        BY DEF Sends
      <3>3. \/ d.cfg[k].password = b.cfg[k].password
            \/ c.cfg[k] # NoConfig /\ d.cfg[k].password = c.cfg[k].password
        BY <2>1, <2>3, <3>1, KeepPasswordType
      <3> QED
        BY <3>1, <3>2, <3>3
    <2>8. Sends(c.id, d.cfg) \subseteq sent
      BY <2>7 DEF Sends
    <2>9. d \in Conns
      BY <1>2, <1>3, <2>1, <2>4 DEF Patch, Conns
    <2> QED
      BY <1>4, <2>6, <2>8, <2>9
  <1> QED
    BY <1>5, <1>6

(***************************************************************************)
(* The invariant.  An action moves one request, so a request q is either   *)
(* the one that moves or is as it was.                                     *)
(***************************************************************************)
LEMMA InitIInv == Init => IInv
  <1> SUFFICES ASSUME Init PROVE IInv
    OBVIOUS
  <1>1. \A r \in Reqs : req[r] = Idle /\ req[r].pc = "idle"
    BY DEF Init, Idle
  <1>2. TypeOK
    BY <1>1 DEF Init, TypeOK, RequestOK
  <1>3. ListsGood
    BY <1>1 DEF Init, ListsGood, Versions, GoodList
  <1>4. CreateOwnsId /\ BodiesSent
    BY <1>1 DEF CreateOwnsId, BodiesSent, Creates, Mutating
  <1> QED
    BY <1>2, <1>3, <1>4 DEF IInv

\* More identifiers given out, more passwords sent: a good list stays good.
LEMMA GoodListMonotone ==
  ASSUME NEW l, GoodList(l), used \subseteq used', sent \subseteq sent', odd \subseteq odd'
  PROVE  GoodList(l)'
  BY DEF GoodList

(***************************************************************************)
(* A new request.  It saves no list yet, its identifier is new if it       *)
(* creates, and what it will store was just sent.                          *)
(***************************************************************************)
Started(r, o) ==
  /\ req[r] = Idle
  /\ req' = [req EXCEPT ![r] = Loading(o)]
  /\ o \in Ops
  /\ conns' = conns
  /\ used \subseteq used' /\ used' \subseteq Ids
  /\ sent \subseteq sent'
  /\ sent' \subseteq Ids \X Types \X (Passwords \cup {Blank})
  /\ odd \subseteq odd' /\ odd' \subseteq Ids
  /\ o.kind = "create" => o.id \notin used /\ o.id \in used'
  /\ o.kind \in {"create", "update"} =>
       /\ Sends(o.id, o.body.cfg) \subseteq sent'
       /\ o.id \notin odd' => Regular(o.body)

LEMMA SendsType ==
  ASSUME NEW i \in Ids, NEW cfg \in CfgField
  PROVE  Sends(i, cfg) \subseteq Ids \X Types \X (Passwords \cup {Blank})
  BY DEF Sends, CfgField, Configs

LEMMA StartsAreStarted ==
  ASSUME IInv, NEW r \in Reqs,
         \/ \E b \in CreateBodies : StartCreate(r, b)
         \/ \E i \in Ids, b \in UpdateBodies : StartUpdate(r, i, b)
         \/ \E i \in Ids : StartDelete(r, i)
         \/ StartRead(r)
  PROVE  \E o \in Ops : Started(r, o)
  <1> USE DEF IInv, TypeOK, Becomes
  <1>1. ASSUME NEW b \in CreateBodies, StartCreate(r, b)
        PROVE  \E o \in Ops : Started(r, o)
    <2>1. PICK i \in Ids \ used :
            /\ used' = used \cup {i}
            /\ Submitted(i, b)
            /\ req' = [req EXCEPT ![r] = Loading(Creating(i, b))]
      BY <1>1 DEF StartCreate
    <2>2. Creating(i, b) \in Ops
      BY DEF Creating, Ops, CreateOps
    <2>3. b.cfg \in CfgField
      BY CreateBodiesAssumption
    <2>4. Started(r, Creating(i, b))
      BY <1>1, <2>1, <2>2, <2>3, SendsType DEF Started, Submitted, Creating, StartCreate
    <2> QED
      BY <2>2, <2>4
  <1>2. ASSUME NEW i \in Ids, NEW b \in UpdateBodies, StartUpdate(r, i, b)
        PROVE  \E o \in Ops : Started(r, o)
    <2>1. Updating(i, b) \in Ops
      BY DEF Updating, Ops, UpdateOps
    <2>2. b.cfg \in CfgField
      BY UpdateBodiesAssumption
    <2>3. Started(r, Updating(i, b))
      BY <1>2, <2>1, <2>2, SendsType DEF Started, Submitted, Updating, StartUpdate
    <2> QED
      BY <2>1, <2>3
  <1>3. ASSUME NEW i \in Ids, StartDelete(r, i)
        PROVE  \E o \in Ops : Started(r, o)
    <2>1. Deleting(i) \in Ops
      BY DEF Deleting, Ops, DeleteOps
    <2>2. Started(r, Deleting(i))
      BY <1>3, <2>1 DEF Started, Deleting, StartDelete
    <2> QED
      BY <2>1, <2>2
  <1>4. CASE StartRead(r)
    <2>1. PICK o \in Readings : req' = [req EXCEPT ![r] = Loading(o)]
      BY <1>4 DEF StartRead
    <2>2. o \in Ops /\ o.kind \notin Mutators
      BY DEF Readings, Listing, Navigating, Opening, Known, Ops, ReadOps, Mutators
    <2>3. Started(r, o)
      BY <1>4, <2>1, <2>2 DEF Started, StartRead, Mutators
    <2> QED
      BY <2>2, <2>3
  <1> QED
    BY <1>1, <1>2, <1>3, <1>4

LEMMA StartPreserves ==
  ASSUME IInv, NEW r \in Reqs, NEW o \in Ops, Started(r, o)
  PROVE  IInv'
  <1> USE DEF IInv, Started
  <1>1. /\ DOMAIN req' = Reqs
        /\ req'[r] = Loading(o)
        /\ \A q \in Reqs \ {r} : req'[q] = req[q]
    BY DEF TypeOK
  <1>2. req'[r].pc = "load" /\ req'[r].op = o
    BY <1>1 DEF Loading
  <1>3. TypeOK'
    BY <1>1, <1>2 DEF TypeOK, RequestOK
  <1>4. Versions' \subseteq Versions
    BY <1>1, <1>2 DEF Versions
  <1>5. ListsGood'
    BY <1>4, GoodListMonotone DEF ListsGood
  <1>6. \A q \in Reqs \ {r} : Creates(q)' = Creates(q)
    BY <1>1 DEF Creates, Mutating
  <1>7. CreateOwnsId'
    <2> SUFFICES ASSUME NEW p \in Reqs, Creates(p)'
                 PROVE  /\ req'[p].op.id \in used'
                        /\ \A c \in conns : c.id # req'[p].op.id
                        /\ \A q \in Reqs \ {p} :
                             /\ Creates(q)' => req'[q].op.id # req'[p].op.id
                             /\ req'[q].pc = "save" =>
                                  \A c \in req'[q].list : c.id # req'[p].op.id
      BY DEF CreateOwnsId
    <2>1. CASE p = r
      <3>1. o.kind = "create" /\ o.id \notin used /\ o.id \in used'
        BY <1>2, <2>1 DEF Creates
      <3>2. \A c \in conns : c.id \in used
        BY DEF ListsGood, Versions, GoodList
      <3>3. ASSUME NEW q \in Reqs \ {r}, req[q].pc = "save", NEW c \in req[q].list
            PROVE  c.id \in used
        BY <3>3 DEF ListsGood, Versions, GoodList
      <3>4. ASSUME NEW q \in Reqs \ {r}, Creates(q)
            PROVE  req[q].op.id \in used
        BY <3>4 DEF CreateOwnsId
      <3> QED
        BY <1>1, <1>2, <1>6, <2>1, <3>1, <3>2, <3>3, <3>4
    <2>2. CASE p # r
      <3>1. Creates(p) /\ req'[p] = req[p]
        BY <1>1, <1>6, <2>2
      <3>2. Creates(r)' => o.id # req[p].op.id
        BY <1>2, <3>1 DEF CreateOwnsId, Creates
      <3> QED
        BY <1>1, <1>2, <1>6, <2>2, <3>1, <3>2 DEF CreateOwnsId
    <2> QED
      BY <2>1, <2>2
  <1>8. BodiesSent'
    BY <1>1, <1>2 DEF BodiesSent, Mutating
  <1> QED
    BY <1>3, <1>5, <1>7, <1>8

(***************************************************************************)
(* A request in flight moves to x; the list stays.  If x saves a list, it  *)
(* is a good one, and it adds to the identifiers of the current list at    *)
(* most the one of the create it is for.                                   *)
(***************************************************************************)
Moved(r, x) ==
  /\ req' = [req EXCEPT ![r] = x]
  /\ UNCHANGED <<conns, used, sent, odd>>
  /\ RequestOK(x)
  /\ x.pc # "load"
  /\ x.pc = "save" =>
       /\ Mutating(r)
       /\ x.op = req[r].op
       /\ GoodList(x.list)
       /\ \A c \in x.list : \/ \E d \in conns : d.id = c.id
                            \/ x.op.kind = "create" /\ c.id = x.op.id

LEMMA MovePreserves ==
  ASSUME IInv, NEW r \in Reqs, NEW x, Moved(r, x)
  PROVE  IInv'
  <1> USE DEF IInv, Moved
  <1>1. /\ DOMAIN req' = Reqs
        /\ req'[r] = x
        /\ \A q \in Reqs \ {r} : req'[q] = req[q]
    BY DEF TypeOK
  <1>2. TypeOK'
    BY <1>1 DEF TypeOK, RequestOK
  <1>3. ListsGood'
    <2>1. \A l \in Versions' : GoodList(l)
      BY <1>1 DEF Versions, ListsGood
    <2> QED
      BY <2>1, GoodListMonotone DEF ListsGood
  <1>4. /\ \A q \in Reqs \ {r} : Creates(q)' = Creates(q)
        /\ Creates(r)' => Creates(r) /\ x.pc = "save" /\ x.op = req[r].op
    BY <1>1 DEF Creates, Mutating
  <1>5. CreateOwnsId'
    <2> SUFFICES ASSUME NEW p \in Reqs, Creates(p)'
                 PROVE  /\ req'[p].op.id \in used
                        /\ \A c \in conns : c.id # req'[p].op.id
                        /\ \A q \in Reqs \ {p} :
                             /\ Creates(q)' => req'[q].op.id # req'[p].op.id
                             /\ req'[q].pc = "save" =>
                                  \A c \in req'[q].list : c.id # req'[p].op.id
      BY DEF CreateOwnsId
    <2>1. Creates(p) /\ req'[p].op = req[p].op
      BY <1>1, <1>4
    <2>2. /\ req[p].op.id \in used
          /\ \A c \in conns : c.id # req[p].op.id
      BY <2>1 DEF CreateOwnsId
    <2>3. ASSUME NEW q \in Reqs \ {p}
          PROVE  /\ Creates(q)' => req'[q].op.id # req[p].op.id
                 /\ req'[q].pc = "save" =>
                      \A c \in req'[q].list : c.id # req[p].op.id
      <3>1. CASE q # r
        BY <1>1, <1>4, <2>1, <3>1 DEF CreateOwnsId
      <3>2. CASE q = r
        <4>1. Creates(r)' => req'[r].op.id # req[p].op.id
          BY <1>1, <1>4, <2>1, <2>3, <3>2 DEF CreateOwnsId
        <4>2. ASSUME x.pc = "save", NEW c \in x.list
              PROVE  c.id # req[p].op.id
          <5>1. CASE \E d \in conns : d.id = c.id
            BY <2>2, <5>1
          <5>2. CASE x.op.kind = "create" /\ c.id = x.op.id
            <6>1. Creates(r) /\ x.op = req[r].op
              BY <4>2, <5>2 DEF Creates
            <6> QED
              BY <2>1, <2>3, <3>2, <5>2, <6>1 DEF CreateOwnsId
          <5> QED
            BY <4>2, <5>1, <5>2
        <4> QED
          BY <1>1, <3>2, <4>1, <4>2
      <3> QED
        BY <3>1, <3>2
    <2> QED
      BY <2>1, <2>2, <2>3
  <1>6. BodiesSent'
    BY <1>1 DEF BodiesSent, Mutating
  <1> QED
    BY <1>2, <1>3, <1>5, <1>6

LEMMA CurrentListGood == IInv => GoodList(conns) /\ conns \subseteq Conns
  BY DEF IInv, ListsGood, Versions, TypeOK

LEMMA RepliesAreMoves ==
  ASSUME IInv, NEW r \in Reqs, NEW s \in {200, 201, 400, 404, 500}, NEW b,
         Becomes(r, Replied(s, b)), UNCHANGED <<conns, used, sent, odd>>
  PROVE  IInv'
  <1>1. Replied(s, b).pc = "reply" /\ RequestOK(Replied(s, b))
    BY DEF Replied, RequestOK
  <1>2. Moved(r, Replied(s, b))
    BY <1>1 DEF Moved, Becomes
  <1> QED
    BY <1>2, MovePreserves

LEMMA OpsByKind ==
  ASSUME NEW o \in Ops
  PROVE  /\ o.kind = "create" => o \in CreateOps
         /\ o.kind = "update" => o \in UpdateOps
         /\ o.kind = "delete" => o \in DeleteOps
  BY DEF Ops, CreateOps, UpdateOps, DeleteOps, ReadOps

LEMMA LoadedOp ==
  ASSUME IInv, NEW r \in Reqs, req[r].pc = "load"
  PROVE  req[r].op \in Ops
  BY DEF IInv, TypeOK, RequestOK, Idle

LEMMA LoadForCreatePreserves ==
  ASSUME IInv, NEW r \in Reqs, LoadForCreate(r)
  PROVE  IInv'
  <1> DEFINE o == req[r].op
             c == NewConn(o.id, o.body)
             x == Saving(o, conns, conns \cup {c}, {c})
  <1>1. Mutating(r) /\ Creates(r) /\ o \in CreateOps
    BY LoadedOp, OpsByKind DEF LoadForCreate, At, Creates, Mutating, Mutators
  <1>2. /\ o.body \in CreateBodies /\ o.id \in Ids
        /\ o.body \in [name : Names, type : ConnTypes, cfg : CfgField]
    BY <1>1, CreateBodiesAssumption DEF CreateOps
  <1>3. c \in Conns /\ c.id = o.id /\ c.type = o.body.type /\ c.cfg = o.body.cfg
    BY <1>2 DEF NewConn, Conns
  <1>4. /\ o.id \in used
        /\ Sends(o.id, o.body.cfg) \subseteq sent
        /\ o.id \notin odd => Regular(o.body)
        /\ \A d \in conns : d.id # o.id
    BY <1>1 DEF IInv, CreateOwnsId, BodiesSent, Creates
  <1>5. GoodList(conns \cup {c})
    <2>1. Absent \notin ConnTypes
      BY AbsentAssumption
    <2>2. c.id \notin odd => c.type \in Types /\ WellFormed(c.type, c.cfg)
      BY <1>2, <1>3, <1>4, <2>1 DEF Regular
    <2> HIDE DEF c
    <2> QED
      BY <1>3, <1>4, <2>2, CurrentListGood DEF GoodList
  <1>6. /\ x.pc = "save" /\ x.op = o /\ x.base = conns /\ x.list = conns \cup {c}
        /\ x = Saving(x.op, x.base, x.list, x.body)
        /\ Becomes(r, x) /\ UNCHANGED <<conns, used, sent, odd>>
    BY DEF Saving, LoadForCreate
  <1> HIDE DEF x
  <1>7. RequestOK(x)
    BY <1>1, <1>3, <1>6, CurrentListGood DEF RequestOK
  <1>8. Moved(r, x)
    BY <1>1, <1>3, <1>5, <1>6, <1>7 DEF Moved, Becomes, Creates
  <1> QED
    BY <1>8, MovePreserves

LEMMA LoadForUpdatePreserves ==
  ASSUME IInv, NEW r \in Reqs, LoadForUpdate(r)
  PROVE  IInv'
  <1> DEFINE o == req[r].op
  <1>1. Mutating(r) /\ o \in UpdateOps /\ o.kind = "update"
    BY LoadedOp, OpsByKind DEF LoadForUpdate, At, Mutating, Mutators
  <1>2. /\ o.body \in UpdateBodies /\ Sends(o.id, o.body.cfg) \subseteq sent
        /\ o.id \notin odd => Regular(o.body)
    BY <1>1 DEF UpdateOps, IInv, BodiesSent
  <1>3. CASE Named(conns, o.id) = {} /\ Becomes(r, Replied(404, Silent))
    BY <1>3, RepliesAreMoves DEF LoadForUpdate
  <1>4. ASSUME NEW c \in Named(conns, o.id),
               Becomes(r, Saving(o, conns, (conns \ {c}) \cup {Patch(c, o.body)},
                                 {Patch(c, o.body)}))
        PROVE  IInv'
    <2> DEFINE d == Patch(c, o.body)
               x == Saving(o, conns, (conns \ {c}) \cup {d}, {d})
    <2>1. c \in conns /\ c \in Conns /\ c.id = o.id
      BY CurrentListGood DEF Named
    <2>2. (c.id \notin odd => Fits(c)) /\ Sends(c.id, c.cfg) \subseteq sent
      BY <2>1, CurrentListGood DEF GoodList, Fits
    <2>3. /\ d \in Conns /\ d.id = c.id
          /\ c.id \notin odd => Fits(d)
          /\ Sends(d.id, d.cfg) \subseteq sent
      BY <1>2, <2>1, <2>2, PatchGood
    <2> HIDE DEF d
    <2>4. GoodList((conns \ {c}) \cup {d})
      BY <2>1, <2>3, CurrentListGood DEF GoodList, Fits
    <2>5. /\ x.pc = "save" /\ x.op = o /\ x.base = conns /\ x.list = (conns \ {c}) \cup {d}
          /\ x = Saving(x.op, x.base, x.list, x.body)
          /\ Becomes(r, x) /\ UNCHANGED <<conns, used, sent, odd>>
      BY <1>4 DEF Saving, LoadForUpdate, d
    <2> HIDE DEF x
    <2>6. RequestOK(x)
      BY <1>1, <2>3, <2>5, CurrentListGood DEF RequestOK
    <2>7. Moved(r, x)
      BY <1>1, <2>1, <2>3, <2>4, <2>5, <2>6 DEF Moved, Becomes
    <2> QED
      BY <2>7, MovePreserves
  <1> QED
    BY <1>3, <1>4 DEF LoadForUpdate

LEMMA LoadForDeletePreserves ==
  ASSUME IInv, NEW r \in Reqs, LoadForDelete(r)
  PROVE  IInv'
  <1> DEFINE o == req[r].op
             x == Saving(o, conns, conns \ Named(conns, o.id), Silent)
  <1>1. Mutating(r) /\ o \in DeleteOps
    BY LoadedOp, OpsByKind DEF LoadForDelete, At, Mutating, Mutators
  <1>2. CASE Named(conns, o.id) = {}
    BY <1>2, RepliesAreMoves DEF LoadForDelete
  <1>3. CASE Named(conns, o.id) # {}
    <2>1. GoodList(conns \ Named(conns, o.id))
      BY CurrentListGood DEF GoodList
    <2>2. /\ x.pc = "save" /\ x.op = o /\ x.base = conns /\ x.list = conns \ Named(conns, o.id)
          /\ x = Saving(x.op, x.base, x.list, x.body)
          /\ Becomes(r, x) /\ UNCHANGED <<conns, used, sent, odd>>
      BY <1>3 DEF Saving, LoadForDelete
    <2> HIDE DEF x
    <2>3. RequestOK(x)
      BY <1>1, <2>2, CurrentListGood DEF RequestOK
    <2>4. Moved(r, x)
      BY <1>1, <2>1, <2>2, <2>3 DEF Moved, Becomes
    <2> QED
      BY <2>4, MovePreserves
  <1> QED
    BY <1>2, <1>3

(***************************************************************************)
(* The save replaces the current list by a good one; no create still in    *)
(* flight finds its identifier there.                                      *)
(***************************************************************************)
LEMMA SavePreserves ==
  ASSUME IInv, NEW r \in Reqs, Save(r)
  PROVE  IInv'
  <1> USE DEF IInv, Save, Becomes
  <1> DEFINE x == Replied(SaveStatus(req[r].op.kind), req[r].body)
  <1>1. /\ req[r].pc = "save"
        /\ conns' = req[r].list
        /\ DOMAIN req' = Reqs
        /\ req'[r] = x
        /\ \A q \in Reqs \ {r} : req'[q] = req[q]
    BY DEF TypeOK
  <1>2. x.pc = "reply" /\ RequestOK(x)
    BY DEF Replied, RequestOK, SaveStatus
  <1> HIDE DEF x
  <1>3. req[r].list \subseteq Conns
    BY <1>1 DEF TypeOK, RequestOK, Idle
  <1>4. TypeOK'
    BY <1>1, <1>2, <1>3 DEF TypeOK, RequestOK
  <1>5. Versions' \subseteq Versions
    BY <1>1, <1>2 DEF Versions
  <1>6. ListsGood'
    BY <1>5, GoodListMonotone DEF ListsGood
  <1>7. /\ \A q \in Reqs \ {r} : Creates(q)' = Creates(q)
        /\ ~Creates(r)'
    BY <1>1, <1>2 DEF Creates, Mutating
  <1>8. CreateOwnsId'
    BY <1>1, <1>2, <1>7 DEF CreateOwnsId
  <1>9. BodiesSent'
    BY <1>1, <1>2 DEF BodiesSent, Mutating
  <1> QED
    BY <1>4, <1>6, <1>8, <1>9

LEMMA LeavePreserves ==
  ASSUME IInv, NEW r \in Reqs, Deliver(r) \/ Drop(r)
  PROVE  IInv'
  <1>1. Idle.pc = "idle" /\ RequestOK(Idle)
    BY DEF Idle, RequestOK
  <1>2. Moved(r, Idle)
    BY <1>1 DEF Moved, Deliver, Drop, Becomes
  <1> QED
    BY <1>2, MovePreserves

LEMMA ReadPreserves ==
  ASSUME IInv, NEW r \in Reqs, LoadForRead(r) \/ LoadForOpen(r) \/ StorageError(r)
  PROVE  IInv'
  <1>1. CASE LoadForRead(r)
    BY <1>1, RepliesAreMoves DEF LoadForRead
  <1>2. CASE StorageError(r)
    BY <1>2, RepliesAreMoves DEF StorageError
  <1>3. CASE LoadForOpen(r)
    <2>1. UNCHANGED <<conns, used, sent, odd>>
      BY <1>3 DEF LoadForOpen
    <2>2. \/ \E c \in conns : Becomes(r, Replied(200, {c}))
          \/ Becomes(r, Replied(400, Silent))
          \/ Becomes(r, Replied(404, Silent))
      BY <1>3 DEF LoadForOpen, Named
    <2>3. ASSUME NEW c \in conns, Becomes(r, Replied(200, {c})) PROVE IInv'
      BY <2>1, <2>3, RepliesAreMoves
    <2>4. ASSUME Becomes(r, Replied(400, Silent)) PROVE IInv'
      BY <2>1, <2>4, RepliesAreMoves
    <2>5. ASSUME Becomes(r, Replied(404, Silent)) PROVE IInv'
      BY <2>1, <2>5, RepliesAreMoves
    <2> QED
      BY <2>2, <2>3, <2>4, <2>5
  <1> QED
    BY <1>1, <1>2, <1>3

LEMMA StutterPreserves == IInv /\ UNCHANGED vars => IInv'
  BY DEF IInv, vars, TypeOK, ListsGood, Versions, GoodList, CreateOwnsId,
         Creates, Mutating, BodiesSent

\* The inductive invariant of the connection handlers.
THEOREM Inductive == Spec => []IInv
  <1>1. IInv /\ [Next]_vars => IInv'
    BY StartsAreStarted, StartPreserves, LoadForCreatePreserves,
       LoadForUpdatePreserves, LoadForDeletePreserves, SavePreserves,
       LeavePreserves, ReadPreserves, StutterPreserves
    DEF Next
  <1> QED
    BY InitIInv, <1>1, PTL DEF Spec

(***************************************************************************)
(* What the runs check on small instances.                                 *)
(***************************************************************************)
THEOREM TypeCorrect == Spec => []TypeOK
  BY Inductive, PTL DEF IInv

\* No two connections of any version of the list have the same identifier.
THEOREM IdsAreUnique == Spec => []UniqueIds
  <1>1. IInv => UniqueIds
    BY DEF IInv, ListsGood, GoodList, UniqueIds
  <1> QED
    BY <1>1, Inductive, PTL

\* A connection for which only regular bodies were sent has the configuration
\* of its type and no other, whatever was sent for the others.
THEOREM ConfigFollowsType == Spec => []TypeHasConfig
  <1>1. IInv => TypeHasConfig
    BY DEF IInv, ListsGood, GoodList, TypeHasConfig
  <1> QED
    BY <1>1, Inductive, PTL

\* A stored password was sent by a client for that connection and kind.
THEOREM PasswordsWereSent == Spec => []PasswordProvenance
  <1>1. IInv => PasswordProvenance
    BY DEF IInv, ListsGood, GoodList, PasswordProvenance
  <1> QED
    BY <1>1, Inductive, PTL

(***************************************************************************)
(* A handler that saves has edited the list it loaded.  A request moves to *)
(* x; the others stay, and good lists stay good.                           *)
(***************************************************************************)
LEMMA SaversMutate ==
  ASSUME TypeOK, NEW r \in Reqs, req[r].pc = "save"
  PROVE  /\ Mutating(r) /\ req[r].op \in CreateOps \cup UpdateOps \cup DeleteOps
         /\ req[r].base \subseteq Conns
  BY DEF TypeOK, RequestOK, Idle, Mutating, Mutators, CreateOps, UpdateOps, DeleteOps

LEMMA MoveKeepsEdits ==
  ASSUME TypeOK, EditInv, NEW r \in Reqs, NEW x,
         req' = [req EXCEPT ![r] = x],
         used \subseteq used', sent \subseteq sent', odd \subseteq odd',
         x.pc = "save" => GoodList(x.base) /\ EditsBase(x)
  PROVE  EditInv'
  <1>1. req'[r] = x /\ \A q \in Reqs \ {r} : req'[q] = req[q]
    BY DEF TypeOK
  <1>2. ASSUME NEW q \in Reqs, req'[q].pc = "save"
        PROVE  GoodList(req'[q].base) /\ EditsBase(req'[q])
    BY <1>1, <1>2 DEF EditInv
  <1>3. ASSUME NEW q \in Reqs, req'[q].pc = "save"
        PROVE  GoodList(req[q].base)' /\ EditsBase(req[q])'
    BY <1>2, <1>3, GoodListMonotone DEF EditsBase, Named
  <1> QED
    BY <1>3 DEF EditInv

\* A start, an answer and a leave save nothing.
LEMMA OthersKeepEdits ==
  ASSUME IInv, EditInv, NEW r \in Reqs,
         \/ \E b \in CreateBodies : StartCreate(r, b)
         \/ \E i \in Ids, b \in UpdateBodies : StartUpdate(r, i, b)
         \/ \E i \in Ids : StartDelete(r, i)
         \/ StartRead(r)
         \/ LoadForRead(r) \/ LoadForOpen(r)
         \/ Save(r) \/ StorageError(r) \/ Deliver(r) \/ Drop(r)
  PROVE  EditInv'
  <1>1. \E x : req' = [req EXCEPT ![r] = x] /\ x.pc # "save"
    <2>1. /\ \A o : Loading(o).pc # "save"
          /\ \A s, c : Replied(s, c).pc # "save"
          /\ Idle.pc # "save"
      BY DEF Loading, Replied, Idle
    <2>2. \/ \E o : Becomes(r, Loading(o))
          \/ \E s, c : Becomes(r, Replied(s, c))
          \/ Becomes(r, Idle)
      <3>1. CASE \/ \E b \in CreateBodies : StartCreate(r, b)
                 \/ \E i \in Ids, b \in UpdateBodies : StartUpdate(r, i, b)
                 \/ \E i \in Ids : StartDelete(r, i)
                 \/ StartRead(r)
        BY <3>1, Zenon DEF StartCreate, StartUpdate, StartDelete, StartRead
      <3>2. CASE LoadForRead(r) \/ Save(r) \/ StorageError(r) \/ Deliver(r) \/ Drop(r)
        BY <3>2, Zenon DEF LoadForRead, Save, StorageError, Deliver, Drop
      <3>3. CASE LoadForOpen(r)
        <4>1. CASE Becomes(r, Replied(404, Silent))
          BY <4>1
        <4>2. ASSUME NEW c, NEW p, Becomes(r, IF p THEN Replied(200, {c}) ELSE Replied(400, Silent))
              PROVE  \E s, b : Becomes(r, Replied(s, b))
          <5>1. CASE p
            BY <4>2, <5>1, Zenon
          <5>2. CASE ~p
            BY <4>2, <5>2, Zenon
          <5> QED
            BY <5>1, <5>2
        <4> QED
          BY <3>3, <4>1, <4>2, Zenon DEF LoadForOpen
      <3> QED
        BY <3>1, <3>2, <3>3
    <2> QED
      BY <2>1, <2>2 DEF Becomes
  <1>2. used \subseteq used' /\ sent \subseteq sent' /\ odd \subseteq odd'
    BY DEF StartCreate, StartUpdate, StartDelete, StartRead, LoadForRead, LoadForOpen,
           Save, StorageError, Deliver, Drop, Submitted
  <1> QED
    BY <1>1, <1>2, MoveKeepsEdits DEF IInv

LEMMA LoadKeepsEdits ==
  ASSUME IInv, EditInv, NEW r \in Reqs,
         LoadForCreate(r) \/ LoadForUpdate(r) \/ LoadForDelete(r)
  PROVE  EditInv'
  <1> DEFINE o == req[r].op
  <1>1. UNCHANGED <<conns, used, sent, odd>> /\ TypeOK
    BY DEF LoadForCreate, LoadForUpdate, LoadForDelete, IInv
  <1>2. ASSUME NEW l, NEW c, Becomes(r, Saving(o, conns, l, c)),
               EditsBase(Saving(o, conns, l, c))
        PROVE  EditInv'
    <2>1. Saving(o, conns, l, c).base = conns
      BY DEF Saving
    <2> QED
      BY <1>1, <1>2, <2>1, MoveKeepsEdits, CurrentListGood DEF Becomes
  <1>3. ASSUME NEW s, NEW c, Becomes(r, Replied(s, c))
        PROVE  EditInv'
    <2>1. Replied(s, c).pc # "save"
      BY DEF Replied
    <2> QED
      BY <1>1, <1>3, <2>1, MoveKeepsEdits DEF Becomes
  <1>4. CASE LoadForCreate(r)
    <2> DEFINE c == NewConn(o.id, o.body)
    <2>1. o.kind = "create" /\ Becomes(r, Saving(o, conns, conns \cup {c}, {c}))
      BY <1>4 DEF LoadForCreate, At
    <2>2. EditsBase(Saving(o, conns, conns \cup {c}, {c}))
      BY <2>1 DEF EditsBase, Saving
    <2> HIDE DEF o, c
    <2> QED
      BY <1>2, <2>1, <2>2
  <1>5. CASE LoadForUpdate(r)
    <2>1. ASSUME NEW c \in Named(conns, o.id),
                 Becomes(r, Saving(o, conns, (conns \ {c}) \cup {Patch(c, o.body)},
                                   {Patch(c, o.body)}))
          PROVE  EditInv'
      <3> DEFINE d == Patch(c, o.body)
      <3>1. EditsBase(Saving(o, conns, (conns \ {c}) \cup {d}, {d}))
        BY <1>5 DEF EditsBase, Saving, LoadForUpdate, At
      <3> HIDE DEF o
      <3> QED
        BY <1>2, <2>1, <3>1
    <2> QED
      BY <1>3, <1>5, <2>1 DEF LoadForUpdate
  <1>6. CASE LoadForDelete(r)
    <2>1. CASE Named(conns, o.id) = {}
      BY <1>3, <1>6, <2>1 DEF LoadForDelete
    <2>2. CASE Named(conns, o.id) # {}
      <3>1. o.kind = "delete"
            /\ Becomes(r, Saving(o, conns, conns \ Named(conns, o.id), Silent))
        BY <1>6, <2>2 DEF LoadForDelete, At
      <3>2. EditsBase(Saving(o, conns, conns \ Named(conns, o.id), Silent))
        BY <2>2, <3>1 DEF EditsBase, Saving
      <3> HIDE DEF o
      <3> QED
        BY <1>2, <3>1, <3>2
    <2> QED
      BY <2>1, <2>2
  <1> QED
    BY <1>4, <1>5, <1>6

LEMMA EditsInductive == Spec => []EditInv
  <1>1. Init => EditInv
    BY DEF Init, Idle, EditInv
  <1>2. IInv /\ EditInv /\ [Next]_vars => EditInv'
    <2> SUFFICES ASSUME IInv, EditInv, [Next]_vars PROVE EditInv'
      OBVIOUS
    <2>1. CASE UNCHANGED vars
      BY <2>1 DEF vars, EditInv, GoodList, EditsBase, Named
    <2>2. CASE Next
      BY <2>2, OthersKeepEdits, LoadKeepsEdits DEF Next
    <2> QED
      BY <2>1, <2>2
  <1> QED
    BY <1>1, <1>2, Inductive, PTL DEF Spec

(***************************************************************************)
(* The table that the handlers implement.  A start submits a call, a load  *)
(* that answers and a save execute it, a load that goes on is a stutter.   *)
(***************************************************************************)
Calls == [r \in Reqs |-> CallOf(req[r])]

LEMMA CallOfFacts ==
  ASSUME NEW o, NEW b, NEW l, NEW c, NEW s
  PROVE  /\ CallOf(Idle) = [state |-> "free"]
         /\ CallOf(Loading(o)) = [state |-> "asked", op |-> o]
         /\ CallOf(Saving(o, b, l, c)) = [state |-> "asked", op |-> o]
         /\ CallOf(Replied(s, c)) = [state |-> "answered", status |-> s, body |-> c]
  <1>1. Loading(o).pc = "load" /\ Loading(o).op = o /\ Loading(o) # Idle
    BY DEF Loading, Idle
  <1>2. Saving(o, b, l, c).pc = "save" /\ Saving(o, b, l, c).op = o /\ Saving(o, b, l, c) # Idle
    BY DEF Saving, Idle
  <1>3. /\ Replied(s, c).pc = "reply" /\ Replied(s, c).status = s
        /\ Replied(s, c).body = c /\ Replied(s, c) # Idle
    BY DEF Replied, Idle
  <1> QED
    BY <1>1, <1>2, <1>3 DEF CallOf

LEMMA CallMoves ==
  ASSUME TypeOK, NEW r \in Reqs, NEW x, Becomes(r, x)
  PROVE  Registry!Becomes(r, CallOf(x))
  <1>1. req' = [req EXCEPT ![r] = x] /\ DOMAIN req = Reqs
    BY DEF TypeOK, Becomes
  <1>2. \A q \in Reqs : req'[q] = IF q = r THEN x ELSE req[q]
    BY <1>1
  <1>3. Calls' = [Calls EXCEPT ![r] = CallOf(x)]
    BY <1>2 DEF Calls
  <1> QED
    BY <1>3 DEF Registry!Becomes, Calls

\* A request at work has asked for its operation.
LEMMA AtWork ==
  ASSUME TypeOK, NEW r \in Reqs, req[r].pc \in {"load", "save"}
  PROVE  Calls[r] = [state |-> "asked", op |-> req[r].op]
  <1>1. req[r] # Idle /\ req[r].pc # "reply"
    BY DEF Idle
  <1> QED
    BY <1>1 DEF Calls, CallOf

LEMMA StartRefines ==
  ASSUME IInv, NEW r \in Reqs,
         \/ \E b \in CreateBodies : StartCreate(r, b)
         \/ \E i \in Ids, b \in UpdateBodies : StartUpdate(r, i, b)
         \/ \E i \in Ids : StartDelete(r, i)
         \/ StartRead(r)
  PROVE  Registry!Next
  <1> USE DEF IInv
  <1>1. ASSUME req[r] = Idle
        PROVE  Calls[r] = Registry!Free
    BY <1>1, CallOfFacts DEF Calls, Registry!Free
  <1>2. ASSUME NEW o \in Registry!OtherOps, req[r] = Idle,
               Becomes(r, Loading(o)), UNCHANGED <<conns, used>>
        PROVE  Registry!Next
    <2>1. Registry!Becomes(r, Registry!Asked(o))
      BY <1>2, CallMoves, CallOfFacts DEF Registry!Asked
    <2>2. Registry!Submit(r, o)
      BY <1>1, <1>2, <2>1 DEF Registry!Submit, Calls
    <2> QED
      BY <2>2 DEF Registry!Next
  <1>3. ASSUME NEW b \in CreateBodies, StartCreate(r, b)
        PROVE  Registry!Next
    <2>1. PICK i \in Ids \ used :
            used' = used \cup {i} /\ Becomes(r, Loading(Creating(i, b)))
      BY <1>3 DEF StartCreate
    <2>2. Registry!Becomes(r, Registry!Asked([kind |-> "create", id |-> i, body |-> b]))
      BY <2>1, CallMoves, CallOfFacts DEF Registry!Asked, Creating
    <2>3. Registry!SubmitCreate(r, i, b)
      BY <1>1, <1>3, <2>1, <2>2 DEF Registry!SubmitCreate, StartCreate, Calls
    <2> QED
      BY <2>3 DEF Registry!Next
  <1>4. ASSUME NEW i \in Ids, NEW b \in UpdateBodies, StartUpdate(r, i, b)
        PROVE  Registry!Next
    <2>1. Updating(i, b) \in Registry!OtherOps
      BY DEF Updating, Registry!OtherOps
    <2> QED
      BY <1>2, <1>4, <2>1 DEF StartUpdate
  <1>5. ASSUME NEW i \in Ids, StartDelete(r, i)
        PROVE  Registry!Next
    <2>1. Deleting(i) \in Registry!OtherOps
      BY DEF Deleting, Registry!OtherOps
    <2> QED
      BY <1>2, <1>5, <2>1 DEF StartDelete
  <1>6. CASE StartRead(r)
    <2>1. PICK o \in Readings : Becomes(r, Loading(o))
      BY <1>6 DEF StartRead
    <2>2. o \in Registry!OtherOps
      BY DEF Readings, Listing, Navigating, Opening, Known, Registry!OtherOps, TypeOK
    <2> QED
      BY <1>2, <1>6, <2>1, <2>2 DEF StartRead
  <1> QED
    BY <1>3, <1>4, <1>5, <1>6

\* A load that does not answer.
LEMMA EditRefines ==
  ASSUME TypeOK, NEW r \in Reqs, req[r].pc = "load", NEW b, NEW l, NEW c,
         Becomes(r, Saving(req[r].op, b, l, c)), UNCHANGED <<conns, used>>
  PROVE  UNCHANGED <<conns, used, Calls>>
  <1>1. Registry!Becomes(r, CallOf(Saving(req[r].op, b, l, c)))
    BY CallMoves
  <1>2. CallOf(Saving(req[r].op, b, l, c)) = Calls[r]
    BY AtWork, CallOfFacts
  <1>3. Calls' = [Calls EXCEPT ![r] = Calls[r]]
    BY <1>1, <1>2 DEF Registry!Becomes, Calls
  <1>4. [Calls EXCEPT ![r] = Calls[r]] = Calls
    BY DEF Calls
  <1> QED
    BY <1>3, <1>4

\* An answer, of a load or a save, that the table gives too.
Executes(r, s, c) ==
  LET o == req[r].op
      answered == /\ Registry!Becomes(r, Registry!Answered(s, c))
                  /\ UNCHANGED conns
  IN  \/ s = 500 /\ c = {} /\ answered
      \/ s = 404 /\ c = {} /\ o.kind \in {"update", "delete", "open"}
         /\ Named(conns, o.id) = {} /\ answered
      \/ Registry!List(r, o) \/ Registry!Navigate(r, o) \/ Registry!Open(r, o)

LEMMA ExecutesRefines ==
  ASSUME TypeOK, NEW r \in Reqs, req[r].pc \in {"load", "save"}, NEW s, NEW c,
         Executes(r, s, c), UNCHANGED used
  PROVE  Registry!Next
  <1>1. Calls[r].state = "asked" /\ Calls[r].op = req[r].op
    <2>1. Calls[r] = [state |-> "asked", op |-> req[r].op]
      BY AtWork
    <2> QED
      BY <2>1
  <1>2. \/ Registry!Unknown(r, req[r].op)
        \/ Registry!List(r, req[r].op) \/ Registry!Navigate(r, req[r].op)
        \/ Registry!Open(r, req[r].op) \/ Registry!Refuse(r, req[r].op)
    BY DEF Executes, Named, Registry!Unknown, Registry!Refuse
  <1>3. Registry!Execute(r)
    BY <1>1, <1>2 DEF Registry!Execute, Calls
  <1> QED
    BY <1>3 DEF Registry!Next

LEMMA AnswerBecomes ==
  ASSUME TypeOK, NEW r \in Reqs, NEW s, NEW c, Becomes(r, Replied(s, c))
  PROVE  Registry!Becomes(r, Registry!Answered(s, c))
  BY CallMoves, CallOfFacts DEF Registry!Answered

(***************************************************************************)
(* What KeepPassword and Patch do is what the table says of an update.     *)
(***************************************************************************)
LEMMA PatchIsUpdated ==
  ASSUME NEW c \in Conns, NEW b \in UpdateBodies
  PROVE  Registry!Updated(c, b, Patch(c, b))
  <1> DEFINE d == Patch(c, b)
  <1>1. b.cfg \in CfgField /\ c.cfg \in CfgField
    BY UpdateBodiesAssumption DEF Conns
  <1>2. d.id = c.id
    BY DEF Patch
  <1>3. /\ d.name = IF b.name = Absent THEN c.name ELSE b.name
        /\ d.type = IF b.type = Absent THEN c.type ELSE b.type
    BY DEF Patch, Given
  <1>4. CASE \A k \in Types : b.cfg[k] = NoConfig
    <2>1. d.cfg = c.cfg
      BY <1>4 DEF Patch
    <2> QED
      BY <1>2, <1>3, <1>4, <2>1 DEF Registry!Updated
  <1>5. CASE \E k \in Types : b.cfg[k] # NoConfig
    <2>1. d.cfg = [k \in Types |-> KeepPassword(b.cfg[k], c.cfg[k])]
      BY <1>5 DEF Patch
    <2>2. ASSUME NEW k \in Types
          PROVE  d.cfg[k] = IF b.cfg[k] = NoConfig THEN NoConfig
                            ELSE [addr |-> b.cfg[k].addr,
                                  password |-> Registry!StoredPassword(b.cfg[k], c.cfg[k])]
      <3> DEFINE new == b.cfg[k]
                 old == c.cfg[k]
      <3>1. d.cfg[k] = KeepPassword(new, old)
        BY <2>1
      <3>2. new \in Configs \cup {NoConfig}
        BY <1>1 DEF CfgField
      <3> HIDE DEF new, old, d
      <3>3. CASE new = NoConfig
        BY <3>1, <3>3 DEF KeepPassword, new
      <3>4. CASE new # NoConfig
        <4>1. new = [addr |-> new.addr, password |-> new.password]
          BY <3>2, <3>4 DEF Configs
        <4>2. CASE old # NoConfig /\ new.password = Blank
          <5>1. KeepPassword(new, old) = [new EXCEPT !.password = old.password]
            BY <3>4, <4>2 DEF KeepPassword
          <5>2. [new EXCEPT !.password = old.password]
                  = [addr |-> new.addr, password |-> old.password]
            BY <4>1
          <5>3. Registry!StoredPassword(new, old) = old.password
            BY <4>2 DEF Registry!StoredPassword
          <5> QED
            BY <3>1, <3>4, <5>1, <5>2, <5>3 DEF new, old
        <4>3. CASE old = NoConfig \/ new.password # Blank
          <5>1. KeepPassword(new, old) = new
            BY <4>3 DEF KeepPassword
          <5>2. Registry!StoredPassword(new, old) = new.password
            BY <4>3 DEF Registry!StoredPassword
          <5> QED
            BY <3>1, <3>4, <4>1, <5>1, <5>2 DEF new, old
        <4> QED
          BY <4>2, <4>3
      <3> QED
        BY <3>3, <3>4
    <2> HIDE DEF d
    <2> QED
      BY <1>2, <1>3, <1>5, <2>2 DEF Registry!Updated, d
  <1> QED
    BY <1>4, <1>5

\* A save is the change of the list that was loaded.
LEMMA SaveChanges ==
  ASSUME IInv, EditInv, NEW r \in Reqs, Save(r)
  PROVE  Registry!Change(r, req[r].base)
  <1> DEFINE x == req[r]
             o == x.op
             on == x.base
  <1>1. x.pc = "save" /\ conns' = x.list /\ UNCHANGED used
    BY DEF Save
  <1>2. Registry!Becomes(r, Registry!Answered(SaveStatus(o.kind), x.body))
    BY AnswerBecomes DEF Save, IInv
  <1>3. EditsBase(x) /\ GoodList(on) /\ on \subseteq Conns
        /\ o \in CreateOps \cup UpdateOps \cup DeleteOps
    BY <1>1, SaversMutate DEF EditInv, IInv
  <1>4. Registry!Create(r, o, on) \/ Registry!Update(r, o, on) \/ Registry!Delete(r, o, on)
    <2>1. CASE o.kind = "create" /\ x.list = on \cup {NewConn(o.id, o.body)}
               /\ x.body = {NewConn(o.id, o.body)}
      BY <1>1, <1>2, <2>1 DEF Registry!Create, NewConn, SaveStatus
    <2>2. ASSUME o.kind = "update", NEW c \in Named(on, o.id),
                 x.list = (on \ {c}) \cup {Patch(c, o.body)}, x.body = {Patch(c, o.body)}
          PROVE  Registry!Update(r, o, on)
      <3> DEFINE d == Patch(c, o.body)
      <3>1. o.body \in UpdateBodies /\ Sends(o.id, o.body.cfg) \subseteq sent
        BY <1>1, <1>3, <2>2, SaversMutate
        DEF UpdateOps, CreateOps, DeleteOps, IInv, BodiesSent
      <3>2. c \in on /\ c \in Conns /\ c.id = o.id
        BY <1>3, <2>2 DEF Named
      <3>3. Sends(c.id, c.cfg) \subseteq sent
        BY <1>3, <3>2 DEF GoodList
      <3>4. d \in Conns /\ Registry!Updated(c, o.body, d)
        BY <3>1, <3>2, <3>3, PatchGood, PatchIsUpdated
      <3>5. Conns = Registry!Connections
        BY DEF Conns, CfgField, Registry!Connections
      <3> HIDE DEF d
      <3> QED
        BY <1>1, <1>2, <2>2, <3>2, <3>4, <3>5 DEF Registry!Update, SaveStatus, d
    <2>3. CASE /\ o.kind = "delete" /\ Named(on, o.id) # {}
               /\ x.list = on \ Named(on, o.id) /\ x.body = Silent
      <3>1. PICK c \in on : c.id = o.id
        BY <2>3 DEF Named
      <3>2. Named(on, o.id) = {c}
        BY <1>3, <3>1 DEF Named, GoodList
      <3> QED
        BY <1>1, <1>2, <2>3, <3>1, <3>2 DEF Registry!Delete, SaveStatus, Silent
    <2> QED
      BY <1>3, <2>1, <2>2, <2>3 DEF EditsBase
  <1>5. Calls[r].state = "asked" /\ Calls[r].op = o
    <2>1. Calls[r] = [state |-> "asked", op |-> o]
      BY <1>1, AtWork DEF IInv
    <2> QED
      BY <2>1
  <1> QED
    BY <1>1, <1>4, <1>5 DEF Registry!Change, Calls

\* If the list is still the one that was loaded, of the table itself.
LEMMA SaveRefines ==
  ASSUME IInv, EditInv, NEW r \in Reqs, Save(r)
  PROVE  Registry!Next \/ (Stale(r) /\ Registry!Change(r, req[r].base))
  BY SaveChanges DEF Stale, Save, Registry!Next

LEMMA ErrorRefines ==
  ASSUME IInv, NEW r \in Reqs, req[r].pc \in {"load", "save"}, UNCHANGED <<conns, used>>,
         \/ Becomes(r, Replied(500, Silent))
         \/ /\ Becomes(r, Replied(404, Silent))
            /\ req[r].op.kind \in {"update", "delete", "open"}
            /\ Named(conns, req[r].op.id) = {}
  PROVE  Registry!Next
  <1>1. CASE Becomes(r, Replied(500, Silent))
    <2>1. Executes(r, 500, {})
      BY <1>1, AnswerBecomes DEF Executes, Silent, IInv
    <2> QED
      BY <2>1, ExecutesRefines DEF IInv
  <1>2. CASE /\ Becomes(r, Replied(404, Silent))
             /\ req[r].op.kind \in {"update", "delete", "open"}
             /\ Named(conns, req[r].op.id) = {}
    <2>1. Executes(r, 404, {})
      BY <1>2, AnswerBecomes DEF Executes, Silent, IInv
    <2> QED
      BY <2>1, ExecutesRefines DEF IInv
  <1> QED
    BY <1>1, <1>2

\* A load answers 404, or edits and goes on, unseen by the client.
LEMMA LoadRefines ==
  ASSUME IInv, NEW r \in Reqs,
         LoadForCreate(r) \/ LoadForUpdate(r) \/ LoadForDelete(r)
  PROVE  Registry!Next \/ UNCHANGED <<conns, used, Calls>>
  <1> DEFINE o == req[r].op
  <1> USE DEF IInv
  <1>1. CASE LoadForCreate(r)
    BY <1>1, EditRefines DEF LoadForCreate, At
  <1>2. CASE LoadForUpdate(r)
    <2>1. req[r].pc = "load" /\ o.kind = "update" /\ UNCHANGED <<conns, used>>
      BY <1>2 DEF LoadForUpdate, At
    <2>2. CASE Named(conns, o.id) = {} /\ Becomes(r, Replied(404, Silent))
      BY <2>1, <2>2, ErrorRefines
    <2>3. ASSUME NEW c \in Named(conns, o.id),
                 Becomes(r, Saving(o, conns, (conns \ {c}) \cup {Patch(c, o.body)}, {Patch(c, o.body)}))
          PROVE  UNCHANGED <<conns, used, Calls>>
      BY <2>1, <2>3, EditRefines
    <2> QED
      BY <1>2, <2>2, <2>3 DEF LoadForUpdate
  <1>3. CASE LoadForDelete(r)
    <2>1. req[r].pc = "load" /\ o.kind = "delete" /\ UNCHANGED <<conns, used>>
      BY <1>3 DEF LoadForDelete, At
    <2>2. CASE Named(conns, o.id) = {}
      BY <1>3, <2>1, <2>2, ErrorRefines DEF LoadForDelete
    <2>3. CASE Named(conns, o.id) # {}
      BY <1>3, <2>1, <2>3, EditRefines DEF LoadForDelete
    <2> QED
      BY <2>2, <2>3
  <1> QED
    BY <1>1, <1>2, <1>3

LEMMA ReadRefines ==
  ASSUME IInv, NEW r \in Reqs, LoadForRead(r) \/ LoadForOpen(r) \/ StorageError(r)
  PROVE  Registry!Next
  <1> DEFINE o == req[r].op
  <1> USE DEF IInv
  <1>1. CASE LoadForRead(r)
    <2>1. req[r].pc = "load" /\ o.kind \in {"list", "nav"} /\ UNCHANGED <<conns, used>>
      BY <1>1 DEF LoadForRead
    <2>2. CASE o.kind = "list"
      <3>1. Becomes(r, Replied(200, conns))
        BY <1>1, <2>2 DEF LoadForRead
      <3>2. Registry!List(r, o)
        BY <2>1, <2>2, <3>1, AnswerBecomes DEF Registry!List
      <3> QED
        BY <2>1, <3>2, ExecutesRefines DEF Executes
    <2>3. CASE o.kind = "nav"
      <3>1. Becomes(r, Replied(200, NavTree))
        BY <1>1, <2>3 DEF LoadForRead
      <3>2. Registry!Becomes(r, Registry!Answered(200, NavTree))
        BY <3>1, AnswerBecomes
      <3>3. Registry!Navigate(r, o)
        BY <2>1, <2>3, <3>2 DEF Registry!Navigate, NavTree
      <3> QED
        BY <2>1, <3>3, ExecutesRefines DEF Executes
    <2> QED
      BY <2>1, <2>2, <2>3
  <1>2. CASE StorageError(r)
    BY <1>2, ErrorRefines DEF StorageError
  <1>3. CASE LoadForOpen(r)
    <2>1. req[r].pc = "load" /\ o.kind = "open" /\ UNCHANGED <<conns, used>>
      BY <1>3 DEF LoadForOpen, At
    <2>2. CASE Named(conns, o.id) = {} /\ Becomes(r, Replied(404, Silent))
      BY <2>1, <2>2, ErrorRefines
    <2>3. ASSUME NEW c \in Named(conns, o.id),
                 Becomes(r, IF c.type = o.type /\ c.cfg[o.type] # NoConfig
                              THEN Replied(200, {c}) ELSE Replied(400, Silent))
          PROVE  Registry!Next
      <3>1. c \in conns /\ c.id = o.id
        BY DEF Named
      <3>2. Registry!Becomes(r, IF c.type # o.type \/ c.cfg[o.type] = NoConfig
                                  THEN Registry!Answered(400, {})
                                  ELSE Registry!Answered(200, {c}))
        BY <2>3, AnswerBecomes DEF Silent
      <3>4. Registry!Open(r, o)
        BY <2>1, <3>1, <3>2 DEF Registry!Open
      <3> QED
        BY <2>1, <3>4, ExecutesRefines DEF Executes
    <2> QED
      BY <1>3, <2>2, <2>3 DEF LoadForOpen
  <1> QED
    BY <1>1, <1>2, <1>3

LEMMA LeaveRefines ==
  ASSUME IInv, NEW r \in Reqs, Deliver(r) \/ Drop(r)
  PROVE  Registry!Next
  <1>1. Becomes(r, Idle) /\ UNCHANGED <<conns, used>>
    BY DEF Deliver, Drop
  <1>2. Registry!Becomes(r, Registry!Free)
    BY <1>1, CallMoves, CallOfFacts DEF Registry!Free, IInv
  <1>3. Registry!Leave(r)
    BY <1>1, <1>2 DEF Registry!Leave
  <1> QED
    BY <1>3 DEF Registry!Next

LEMMA InitRefines == Init => Registry!Init
  BY CallOfFacts DEF Init, Registry!Init, Registry!Free

(***************************************************************************)
(* The handlers implement the table, but for the changes that were edited  *)
(* from an older list: each of those is the same change of that older      *)
(* table.  Any number of requests runs at once, and whatever fails.        *)
(***************************************************************************)
THEOREM Refinement == Spec => ImplementsRegistry
  <1> DEFINE StaleChange == \E r \in Reqs : Stale(r) /\ Registry!Change(r, req[r].base)
  <1>1. IInv /\ EditInv /\ [Next]_vars => [Registry!Next \/ StaleChange]_(Registry!vars)
    <2> SUFFICES ASSUME IInv, EditInv, [Next]_vars
                 PROVE  Registry!Next \/ StaleChange \/ UNCHANGED <<conns, used, Calls>>
      BY DEF Registry!vars, Calls
    <2>1. CASE UNCHANGED vars
      BY <2>1 DEF vars, Calls
    <2>2. CASE Next
      BY <2>2, StartRefines, LoadRefines, SaveRefines, ReadRefines, LeaveRefines DEF Next
    <2> QED
      BY <2>1, <2>2
  <1> QED
    BY InitRefines, <1>1, Inductive, EditsInductive, PTL DEF Spec, ImplementsRegistry
=============================================================================
