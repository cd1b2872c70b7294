--------------------------- MODULE AtomicRegister ---------------------------
(***************************************************************************)
(* What storage.Store promises its callers: connections.json is a          *)
(* register that holds one complete list of connections.  A read returns a *)
(* value the register held at one instant of the call.  A write that       *)
(* succeeds takes effect at one instant of the call, and a call that       *)
(* reports an error took no effect.  A server that is killed drops its     *)
(* calls: those that had taken effect stay, the others never will.  A      *)
(* machine that loses power comes back with a value that was written since *)
(* the directory was last on stable storage, never with a part of one.     *)
(***************************************************************************)
CONSTANTS
  Threads,      \* goroutines that call the store
  Servers,      \* processes of the program that share the file
  ServerOf,     \* the process a goroutine belongs to
  Lists,        \* complete lists of connections
  Unreadable    \* the register holds bytes that are no list

Values == Lists \cup {Unreadable}

VARIABLES
  value,        \* what a read returns
  stable,       \* what a loss of power may bring back
  op            \* per goroutine: the call in progress

vars == <<value, stable, op>>

None    == [kind |-> "none"]
Reading == [kind |-> "reading"]
Writing(v) == [kind |-> "writing", list |-> v]
Failed  == [kind |-> "failed"]
GotList(v) == [kind |-> "got", list |-> v]
Written == [kind |-> "written"]

Ops == {None, Reading, Failed, Written}
         \cup {Writing(v) : v \in Lists} \cup {GotList(v) : v \in Lists}

TypeOK ==
  /\ value \in Values
  /\ stable \subseteq Values
  /\ value \in stable
  /\ op \in [Threads -> Ops]

Init ==
  /\ value \in Values
  /\ stable = {value}
  /\ op = [t \in Threads |-> None]

Step(t, from, to) == op[t] = from /\ op' = [op EXCEPT ![t] = to]

CallRead(t)     == Step(t, None, Reading) /\ UNCHANGED <<value, stable>>
CallWrite(t, v) == Step(t, None, Writing(v)) /\ UNCHANGED <<value, stable>>

Read(t) ==
  /\ value \in Lists
  /\ Step(t, Reading, GotList(value))
  /\ UNCHANGED <<value, stable>>

Write(t, v) ==
  /\ Step(t, Writing(v), Written)
  /\ value' = v
  /\ stable' = stable \cup {v}

Fail(t) ==
  /\ \/ Step(t, Reading, Failed)
     \/ \E v \in Lists : Step(t, Writing(v), Failed)
  /\ UNCHANGED <<value, stable>>

Return(t) ==
  /\ op[t] \in {Failed, Written} \cup {GotList(v) : v \in Lists}
  /\ op' = [op EXCEPT ![t] = None]
  /\ UNCHANGED <<value, stable>>

Flush == stable' = {value} /\ UNCHANGED <<value, op>>

Kill(s) ==
  /\ op' = [t \in Threads |-> IF ServerOf[t] = s THEN None ELSE op[t]]
  /\ UNCHANGED <<value, stable>>

PowerLoss ==
  /\ value' \in stable
  /\ stable' = {value'}
  /\ op' = [t \in Threads |-> None]

Next ==
  \/ \E t \in Threads :
       \/ CallRead(t) \/ Read(t) \/ Fail(t) \/ Return(t)
       \/ \E v \in Lists : CallWrite(t, v) \/ Write(t, v)
  \/ Flush
  \/ \E s \in Servers : Kill(s)
  \/ PowerLoss

Spec == Init /\ [][Next]_vars
=============================================================================
