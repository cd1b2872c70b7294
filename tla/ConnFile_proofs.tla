--------------------------- MODULE ConnFile_proofs ---------------------------
(***************************************************************************)
(* Proofs about ConnFile, for any number of goroutines and processes, any  *)
(* set of lists and any bound on faults: the inductive invariant IInv, the *)
(* safety properties that follow from it, and that the store implements    *)
(* the register of AtomicRegister.                                         *)
(***************************************************************************)
EXTENDS ConnFile, TLAPS

USE DEF Goto, Result, TmpIs, Disk, TmpFile, Leaks

(***************************************************************************)
(* The invariant holds at the start: nobody is in Load or Save.            *)
(***************************************************************************)
LEMMA InitIInv == Init => IInv
  <1> SUFFICES ASSUME Init PROVE IInv
    OBVIOUS
  <1> USE DEF Init
  <1>1. TypeOK
    BY ListsAssumption, FilesAssumption, FaultsAssumption, ServersAssumption
    DEF TypeOK, Contents, Results
  <1>2. MutexHeldByOneCall
    BY NoThreadAssumption, ServersAssumption
    DEF MutexHeldByOneCall, Critical, LoadSteps, SaveSteps
  <1>3. TempInv /\ ResultInv
    BY DEF TempInv, ResultInv, Encoded, HasTemp
  <1> QED
    BY <1>1, <1>2, <1>3 DEF IInv

(***************************************************************************)
(* One case per action; under it one step per conjunct the action can      *)
(* disturb.                                                                *)
(***************************************************************************)
LEMMA CallPreserves ==
  ASSUME IInv, NEW t \in Threads,
         CallLoad(t) \/ \E v \in Lists : CallSave(t, v)
  PROVE  IInv'
  <1> USE DEF IInv, CallLoad, CallSave
  <1>1. TypeOK'
    BY DEF TypeOK, LoadSteps, SaveSteps
  <1>2. MutexHeldByOneCall'
    BY DEF MutexHeldByOneCall, Critical, LoadSteps, SaveSteps, TypeOK
  <1>3. TempInv'
    BY DEF TempInv, Encoded, HasTemp, TypeOK
  <1>4. ResultInv'
    BY DEF ResultInv, TypeOK
  <1>5. (littered <= faults)'
    OBVIOUS
  <1> QED
    BY <1>1, <1>2, <1>3, <1>4, <1>5

LEMMA LockPreserves ==
  ASSUME IInv, NEW t \in Threads, Lock(t) \/ Unlock(t)
  PROVE  IInv'
  <1> USE DEF IInv, Lock, Unlock
  <1>1. TypeOK'
    BY ServersAssumption, ListsAssumption
    DEF TypeOK, LoadSteps, SaveSteps, Results
  <1>2. MutexHeldByOneCall'
    <2> SUFFICES ASSUME NEW u \in Threads
                 PROVE  (pc[u] \in Critical <=> mu[ServerOf[u]] = u)'
      BY DEF MutexHeldByOneCall
    <2>1. CASE u = t
      BY <2>1, ServersAssumption, NoThreadAssumption
      DEF TypeOK, MutexHeldByOneCall, Critical, LoadSteps, SaveSteps
    <2>2. CASE u # t
      BY <2>2, ServersAssumption, NoThreadAssumption
      DEF TypeOK, MutexHeldByOneCall, Critical, LoadSteps, SaveSteps
    <2> QED
      BY <2>1, <2>2
  <1>3. TempInv'
    BY DEF TempInv, Encoded, HasTemp, TypeOK
  <1>4. ResultInv'
    BY DEF ResultInv, TypeOK
  <1>5. (littered <= faults)'
    OBVIOUS
  <1> QED
    BY <1>1, <1>2, <1>3, <1>4, <1>5

LEMMA ReadPreserves ==
  ASSUME IInv, NEW t \in Threads, Read(t)
  PROVE  IInv'
  <1> USE DEF IInv, Read
  <1>1. TypeOK'
    BY ListsAssumption
    DEF TypeOK, LoadSteps, SaveSteps, Results, Decode, Contents
  <1>2. MutexHeldByOneCall'
    BY DEF MutexHeldByOneCall, Critical, LoadSteps, SaveSteps, TypeOK
  <1>3. TempInv'
    BY DEF TempInv, Encoded, HasTemp, TypeOK
  <1>4. ResultInv'
    BY ListsAssumption DEF ResultInv, TypeOK, Decode, Contents
  <1>5. (littered <= faults)'
    OBVIOUS
  <1> QED
    BY <1>1, <1>2, <1>3, <1>4, <1>5

\* The steps of Save between Lock and Rename.
LEMMA WritePreserves ==
  ASSUME IInv, NEW t \in Threads,
         PassThrough(t) \/ CreateTemp(t) \/ Encode(t) \/ Sync(t)
  PROVE  IInv'
  <1> USE DEF IInv, PassThrough, CreateTemp, Encode, Sync
  <1>1. TypeOK'
    BY DEF TypeOK, LoadSteps, SaveSteps, Contents
  <1>2. MutexHeldByOneCall'
    BY DEF MutexHeldByOneCall, Critical, LoadSteps, SaveSteps, TypeOK
  <1>3. TempInv'
    BY DEF TempInv, Encoded, HasTemp, TypeOK
  <1>4. ResultInv'
    BY DEF ResultInv, TypeOK
  <1>5. (littered <= faults)'
    OBVIOUS
  <1> QED
    BY <1>1, <1>2, <1>3, <1>4, <1>5

\* The rename is the only step of a goroutine that changes the file; it needs
\* the bytes encoded and flushed.
LEMMA RenamePreserves ==
  ASSUME IInv, NEW t \in Threads, Rename(t)
  PROVE  IInv'
  <1> USE DEF IInv, Rename
  <1>0. /\ pc[t] = "rename"
        /\ tmp[t] = arg[t]
        /\ arg[t] \in Lists
        /\ AfterPowerLoss(t) = {arg[t]}
    BY DEF TempInv, Encoded, AfterPowerLoss, TypeOK
  <1>1. TypeOK'
    BY <1>0 DEF TypeOK, LoadSteps, SaveSteps, Contents, Results
  <1>2. MutexHeldByOneCall'
    BY DEF MutexHeldByOneCall, Critical, LoadSteps, SaveSteps, TypeOK
  <1>3. TempInv'
    BY DEF TempInv, Encoded, HasTemp, TypeOK
  <1>4. ResultInv'
    BY DEF ResultInv, TypeOK
  <1>5. (littered <= faults)'
    OBVIOUS
  <1> QED
    BY <1>1, <1>2, <1>3, <1>4, <1>5

\* Error returns and the deferred Remove.
LEMMA FailPreserves ==
  ASSUME IInv, NEW t \in Threads,
         FailEarly(t) \/ FailLate(t) \/ RemoveTemp(t)
  PROVE  IInv'
  <1> USE DEF IInv, FailEarly, FailLate, RemoveTemp
  <1>1. TypeOK'
    BY FaultsAssumption DEF TypeOK, LoadSteps, SaveSteps, Contents, Results
  <1>2. MutexHeldByOneCall'
    BY DEF MutexHeldByOneCall, Critical, LoadSteps, SaveSteps, TypeOK
  <1>3. TempInv'
    BY DEF TempInv, Encoded, HasTemp, TypeOK
  <1>4. ResultInv'
    BY DEF ResultInv, TypeOK
  <1>5. (littered <= faults)'
    BY FaultsAssumption DEF TypeOK
  <1> QED
    BY <1>1, <1>2, <1>3, <1>4, <1>5

LEMMA CrashPreserves ==
  ASSUME IInv, PowerLoss \/ \E s \in Servers : Kill(s)
  PROVE  IInv'
  <1> USE DEF IInv, Abandon
  <1>1. TypeOK'
    <2>1. CASE PowerLoss
      BY <2>1, ListsAssumption, FaultsAssumption
      DEF PowerLoss, TypeOK, Contents, Results
    <2>2. CASE \E s \in Servers : Kill(s)
      BY <2>2, ListsAssumption, FaultsAssumption
      DEF Kill, TypeOK, Contents, Results
    <2> QED
      BY <2>1, <2>2
  <1>2. MutexHeldByOneCall'
    <2>1. CASE PowerLoss
      BY <2>1, NoThreadAssumption, ServersAssumption
      DEF PowerLoss, MutexHeldByOneCall, Critical, LoadSteps, SaveSteps, TypeOK
    <2>2. ASSUME NEW s \in Servers, Kill(s)
          PROVE  MutexHeldByOneCall'
      BY <2>2, NoThreadAssumption, ServersAssumption
      DEF Kill, MutexHeldByOneCall, Critical, LoadSteps, SaveSteps, TypeOK
    <2> QED
      BY <2>1, <2>2
  <1>3. TempInv' /\ ResultInv'
    BY DEF PowerLoss, Kill, TempInv, ResultInv, Encoded, HasTemp, TypeOK
  <1>4. (littered <= faults)'
    BY FaultsAssumption DEF PowerLoss, Kill, TypeOK
  <1> QED
    BY <1>1, <1>2, <1>3, <1>4

LEMMA FlushPreserves == IInv /\ FlushDirectory => IInv'
  BY DEF IInv, FlushDirectory, TypeOK, MutexHeldByOneCall, TempInv,
         ResultInv

LEMMA StutterPreserves == IInv /\ UNCHANGED vars => IInv'
  BY DEF IInv, vars, TypeOK, MutexHeldByOneCall, TempInv, ResultInv

(***************************************************************************)
(* The inductive invariant of SaveConnections and LoadConnections.         *)
(***************************************************************************)
THEOREM Inductive == Spec => []IInv
  <1>1. IInv /\ [Next]_vars => IInv'
    BY CallPreserves, LockPreserves, ReadPreserves, WritePreserves,
       RenamePreserves, FailPreserves, CrashPreserves, FlushPreserves,
       StutterPreserves
    DEF Next, Work
  <1> QED
    BY InitIInv, <1>1, PTL DEF Spec

(***************************************************************************)
(* What the runs check on small instances.                                 *)
(***************************************************************************)
THEOREM TypeCorrect == Spec => []TypeOK
  BY Inductive, PTL DEF IInv

\* One call at a time is inside Load or Save, and it holds the mutex.
THEOREM MutualExclusion == Spec => []MutexHeldByOneCall
  BY Inductive, PTL DEF IInv

\* No step makes connections.json unreadable, not even a loss of power: the one
\* step that gives it new content is the rename, and it finds the encoded and
\* flushed bytes of the argument.
THEOREM AtomicSave == Spec => FileIsWhole
  <1>1. ASSUME IInv, [Next]_vars
        PROVE  [Shown' \subseteq Shown \cup Lists]_vars
    <2>1. ASSUME NEW t \in Threads, Rename(t)
          PROVE  Shown' \subseteq Shown \cup Lists
      BY <1>1, <2>1
      DEF IInv, TypeOK, TempInv, Encoded, Rename, AfterPowerLoss, Shown
    <2>2. ASSUME NEW t \in Threads,
                 \/ CallLoad(t) \/ Lock(t) \/ Read(t) \/ PassThrough(t)
                 \/ CreateTemp(t) \/ Encode(t) \/ Sync(t) \/ FailEarly(t)
                 \/ FailLate(t) \/ RemoveTemp(t) \/ Unlock(t)
                 \/ \E v \in Lists : CallSave(t, v)
          PROVE  UNCHANGED Shown
      BY <2>2 DEF CallLoad, Lock, Read, PassThrough, CreateTemp, Encode, Sync,
                  FailEarly, FailLate, RemoveTemp, Unlock, CallSave, Shown
    <2>3. ASSUME FlushDirectory \/ PowerLoss \/ \E s \in Servers : Kill(s)
          PROVE  Shown' \subseteq Shown
      BY <2>3 DEF FlushDirectory, PowerLoss, Kill, Shown
    <2> QED
      BY <1>1, <2>1, <2>2, <2>3 DEF Next, Work
  <1> QED
    BY <1>1, Inductive, PTL DEF Spec, FileIsWhole

\* A Save removes its temporary file on every path.
THEOREM TempRemoved == Spec => []TempGoneAfterSave
  <1>1. IInv => TempGoneAfterSave
    BY DEF IInv, TempInv, TempGoneAfterSave, HasTemp, SaveSteps
  <1> QED
    BY <1>1, Inductive, PTL

(***************************************************************************)
(* The refinement.  Only Rename changes what the register holds; the other *)
(* steps of Save, Lock and the flush of the temporary file are stuttering  *)
(* steps of the register.                                                  *)
(***************************************************************************)
LEMMA InitRefines == Init => Register!Init
  <1> SUFFICES ASSUME Init PROVE Register!Init
    OBVIOUS
  <1>1. ListOf(file) \in Register!Values
    BY FilesAssumption, ListsAssumption DEF Init, ListOf, Register!Values
  <1>2. {ListOf(c) : c \in durable} = {ListOf(file)}
    BY DEF Init
  <1>3. [t \in Threads |-> CallOf(t)] = [t \in Threads |-> Register!None]
    BY DEF Init, CallOf, Register!None
  <1> QED
    BY <1>1, <1>2, <1>3 DEF Register!Init

Calls == [t \in Threads |-> CallOf(t)]

\* A step of one goroutine that changes the call of no other.
LEMMA OneCall ==
  ASSUME NEW t \in Threads, TypeOK, NEW s, pc' = [pc EXCEPT ![t] = s],
         \A u \in Threads \ {t} : res'[u] = res[u] /\ arg'[u] = arg[u]
  PROVE  Calls' = [Calls EXCEPT ![t] = CallOf(t)']
  BY DEF Calls, CallOf, TypeOK

DiskView == <<ListOf(file), {ListOf(c) : c \in durable}>>

LEMMA CallRefines ==
  ASSUME IInv, NEW t \in Threads,
         CallLoad(t) \/ \E v \in Lists : CallSave(t, v)
  PROVE  Register!Next
  <1> USE DEF IInv
  <1>1. CASE CallLoad(t)
    <2>1. Calls[t] = Register!None /\ CallOf(t)' = Register!Reading
      BY <1>1, ListsAssumption
      DEF CallLoad, Calls, CallOf, Register!None, Register!Reading, TypeOK,
          ResultInv, LoadSteps
    <2>2. Calls' = [Calls EXCEPT ![t] = CallOf(t)'] /\ UNCHANGED DiskView
      BY <1>1, OneCall DEF CallLoad, DiskView
    <2>3. Register!CallRead(t)
      BY <2>1, <2>2 DEF Register!CallRead, Register!Step, Calls, DiskView
    <2> QED
      BY <2>3 DEF Register!Next
  <1>2. ASSUME NEW v \in Lists, CallSave(t, v) PROVE Register!Next
    <2>1. Calls[t] = Register!None /\ CallOf(t)' = Register!Writing(v)
      BY <1>2, ListsAssumption
      DEF CallSave, Calls, CallOf, Register!None, Register!Writing, TypeOK,
          ResultInv, LoadSteps
    <2>2. Calls' = [Calls EXCEPT ![t] = CallOf(t)'] /\ UNCHANGED DiskView
      BY <1>2, OneCall DEF CallSave, DiskView, TypeOK
    <2>3. Register!CallWrite(t, v)
      BY <2>1, <2>2 DEF Register!CallWrite, Register!Step, Calls, DiskView
    <2> QED
      BY <2>3 DEF Register!Next
  <1> QED
    BY <1>1, <1>2

LEMMA ReadRefines ==
  ASSUME IInv, NEW t \in Threads, Read(t)
  PROVE  Register!Next
  <1> USE DEF IInv, Read
  <1>1. Calls' = [Calls EXCEPT ![t] = CallOf(t)'] /\ UNCHANGED DiskView
    BY OneCall DEF DiskView, TypeOK
  <1>2. Calls[t] = Register!Reading
    BY ListsAssumption
    DEF Calls, CallOf, Register!Reading, ResultInv, LoadSteps
  <1>3. CASE res'[t] = Err
    <2>1. CallOf(t)' = Register!Failed
      BY <1>3 DEF CallOf, Register!Failed, TypeOK
    <2> QED
      BY <2>1, <1>1, <1>2
      DEF Register!Next, Register!Fail, Register!Step, DiskView, Calls
  <1>4. CASE res'[t] # Err
    <2>1. res'[t] = ListOf(file) /\ ListOf(file) \in Lists
      BY <1>4, ListsAssumption DEF TypeOK, Decode, ListOf, Contents
    <2>2. CallOf(t)' = Register!GotList(ListOf(file))
      BY <1>4, <2>1, ListsAssumption
      DEF CallOf, Register!GotList, TypeOK, LoadSteps
    <2>3. Register!Read(t)
      BY <1>1, <1>2, <2>1, <2>2
      DEF Register!Read, Register!Step, DiskView, Calls
    <2> QED
      BY <2>3 DEF Register!Next
  <1> QED
    BY <1>3, <1>4

\* The call takes effect at the rename, and at no other step.
LEMMA RenameRefines ==
  ASSUME IInv, NEW t \in Threads, Rename(t)
  PROVE  Register!Next
  <1> USE DEF IInv, Rename
  <1>1. Calls' = [Calls EXCEPT ![t] = CallOf(t)']
    BY OneCall DEF TypeOK
  <1>2. /\ arg[t] \in Lists
        /\ tmp[t] = arg[t]
        /\ ListOf(arg[t]) = arg[t]
        /\ AfterPowerLoss(t) = {arg[t]}
    BY ListsAssumption DEF TypeOK, TempInv, Encoded, AfterPowerLoss, ListOf
  <1>3. Calls[t] = Register!Writing(arg[t])
    BY ListsAssumption
    DEF Calls, CallOf, Register!Writing, ResultInv, LoadSteps
  <1>4. CallOf(t)' = Register!Written
    BY ListsAssumption DEF CallOf, Register!Written, TypeOK, LoadSteps
  <1>5. /\ ListOf(file)' = arg[t]
        /\ {ListOf(c) : c \in durable}'
             = {ListOf(c) : c \in durable} \cup {arg[t]}
    BY <1>2
  <1>6. Register!Write(t, arg[t])
    BY <1>1, <1>3, <1>4, <1>5 DEF Register!Write, Register!Step, Calls
  <1> QED
    BY <1>2, <1>6 DEF Register!Next

LEMMA FailRefines ==
  ASSUME IInv, NEW t \in Threads, FailEarly(t) \/ FailLate(t)
  PROVE  Register!Next
  <1> USE DEF IInv, FailEarly, FailLate
  <1>1. Calls' = [Calls EXCEPT ![t] = CallOf(t)'] /\ UNCHANGED DiskView
    BY OneCall DEF DiskView, TypeOK
  <1>2. arg[t] \in Lists /\ Calls[t] = Register!Writing(arg[t])
    BY ListsAssumption
    DEF Calls, CallOf, Register!Writing, ResultInv, LoadSteps, TypeOK
  <1>3. CallOf(t)' = Register!Failed
    BY DEF CallOf, Register!Failed, TypeOK
  <1>4. Register!Fail(t)
    BY <1>1, <1>2, <1>3 DEF Register!Fail, Register!Step, DiskView, Calls
  <1> QED
    BY <1>4 DEF Register!Next

LEMMA ReturnRefines ==
  ASSUME IInv, NEW t \in Threads, Unlock(t)
  PROVE  Register!Next
  <1> USE DEF IInv, Unlock
  <1>1. Calls' = [Calls EXCEPT ![t] = CallOf(t)'] /\ UNCHANGED DiskView
    BY OneCall DEF DiskView, TypeOK
  <1>2. CallOf(t)' = Register!None
    BY DEF CallOf, Register!None, TypeOK
  <1>3. Calls[t] \in {Register!Failed, Register!Written}
                       \cup {Register!GotList(v) : v \in Lists}
    BY ListsAssumption
    DEF Calls, CallOf, Register!Failed, Register!Written, Register!GotList,
        ResultInv, LoadSteps
  <1>4. Register!Return(t)
    BY <1>1, <1>2, <1>3 DEF Register!Return, DiskView, Calls
  <1> QED
    BY <1>4 DEF Register!Next

\* The register does not see the lock, nor the work on the temporary file.
LEMMA InternalRefines ==
  ASSUME IInv, NEW t \in Threads,
         \/ Lock(t) \/ PassThrough(t) \/ CreateTemp(t) \/ Encode(t) \/ Sync(t)
         \/ RemoveTemp(t)
  PROVE  UNCHANGED <<DiskView, Calls>>
  <1> USE DEF IInv, Lock, PassThrough, CreateTemp, Encode, Sync, RemoveTemp
  <1>1. UNCHANGED DiskView
    BY DEF DiskView
  <1>2. pc[t] # "idle" /\ (pc[t] \in LoadSteps <=> pc'[t] \in LoadSteps)
                       /\ pc'[t] # "idle"
    BY DEF TypeOK, LoadSteps
  <1>3. UNCHANGED <<res, arg>>
    OBVIOUS
  <1>4. \A u \in Threads \ {t} : pc'[u] = pc[u]
    BY DEF TypeOK
  <1>5. \A u \in Threads : CallOf(u)' = CallOf(u)
    BY <1>2, <1>3, <1>4 DEF CallOf
  <1> QED
    BY <1>1, <1>5 DEF Calls

LEMMA EnvironmentRefines ==
  ASSUME IInv, FlushDirectory \/ PowerLoss \/ \E s \in Servers : Kill(s)
  PROVE  Register!Next
  <1> USE DEF IInv
  <1>1. CASE FlushDirectory
    <2>1. Register!Flush
      BY <1>1 DEF FlushDirectory, Register!Flush, CallOf
    <2> QED
      BY <2>1 DEF Register!Next
  <1>2. CASE PowerLoss
    <2>1. Calls' = [t \in Threads |-> Register!None]
      BY <1>2 DEF PowerLoss, Abandon, Calls, CallOf, Register!None
    <2>2. /\ ListOf(file)' \in {ListOf(c) : c \in durable}
          /\ {ListOf(c) : c \in durable}' = {ListOf(file)'}
      BY <1>2 DEF PowerLoss
    <2>3. Register!PowerLoss
      BY <2>1, <2>2 DEF Register!PowerLoss, Calls
    <2> QED
      BY <2>3 DEF Register!Next
  <1>3. ASSUME NEW s \in Servers, Kill(s) PROVE Register!Next
    <2>1. Calls' = [t \in Threads |-> IF ServerOf[t] = s THEN Register!None
                                                         ELSE Calls[t]]
      BY <1>3 DEF Kill, Abandon, Calls, CallOf, Register!None
    <2>2. UNCHANGED DiskView
      BY <1>3 DEF Kill, DiskView
    <2>3. Register!Kill(s)
      BY <2>1, <2>2 DEF Register!Kill, Calls, DiskView
    <2> QED
      BY <2>3 DEF Register!Next
  <1> QED
    BY <1>1, <1>2, <1>3

(***************************************************************************)
(* LoadConnections and SaveConnections implement the atomic register.      *)
(***************************************************************************)
THEOREM Refinement == Spec => ImplementsRegister
  <1>1. IInv /\ [Next]_vars => [Register!Next]_(Register!vars)
    <2> SUFFICES ASSUME IInv, [Next]_vars
                 PROVE  Register!Next \/ UNCHANGED <<DiskView, Calls>>
      BY DEF Register!vars, DiskView, Calls
    <2>1. CASE UNCHANGED vars
      BY <2>1 DEF vars, DiskView, Calls, CallOf
    <2>2. CASE Next
      BY <2>2, CallRefines, ReadRefines, RenameRefines, FailRefines,
         ReturnRefines, InternalRefines, EnvironmentRefines
      DEF Next, Work
    <2> QED
      BY <2>1, <2>2
  <1> QED
    BY InitRefines, <1>1, Inductive, PTL DEF Spec, ImplementsRegister, Register!Spec
=============================================================================
