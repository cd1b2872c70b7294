------------------------------ MODULE ConnFile ------------------------------
(***************************************************************************)
(* internal/storage/store.go: how the program keeps its list of            *)
(* connections in connections.json.  LoadConnections and SaveConnections   *)
(* run under the mutex of their Store; one Store belongs to one process,   *)
(* and two processes started with different QUICKDB_STUDIO_ADDR share the  *)
(* file but not the mutex.  Save writes a temporary file, flushes it and   *)
(* renames it over the target; each of its system calls is a step here,    *)
(* each may fail, and between any two of them the process may be killed or *)
(* the machine lose power.                                                 *)
(*                                                                         *)
(* A file's content is Missing (no such name), Blank (zero bytes), Torn    *)
(* (bytes that json.Unmarshal rejects) or one of Lists (a complete JSON    *)
(* array).  What connections a list holds is the business of ConnApi.      *)
(***************************************************************************)
EXTENDS Naturals

CONSTANTS
  Threads,      \* goroutines serving requests
  Servers,      \* running processes of the program
  ServerOf,     \* [Threads -> Servers]
  Lists,        \* complete lists of connections
  EmptyList,    \* the list []
  Missing, Blank, Torn,
  InitFiles,    \* contents connections.json may have at the start
  NoThread,     \* the holder of a free mutex
  Pending,      \* a call that has no result yet
  Ok, Err,      \* SaveConnections returned nil / either returned an error
  MaxFaults     \* bound: kills, losses of power and failed removals

ASSUME ServersAssumption == ServerOf \in [Threads -> Servers]
ASSUME ListsAssumption ==
  /\ EmptyList \in Lists
  /\ Lists \cap {Missing, Blank, Torn, Pending, Ok, Err} = {}
  /\ Missing \notin {Blank, Torn} /\ Blank # Torn
  /\ Pending \notin {Ok, Err}
  /\ Ok # Err
ASSUME FilesAssumption == InitFiles \subseteq Lists \cup {Missing, Blank, Torn}
ASSUME NoThreadAssumption == NoThread \notin Threads
ASSUME FaultsAssumption == MaxFaults \in Nat

Contents == Lists \cup {Missing, Blank, Torn}
Results  == Lists \cup {Pending, Ok, Err}

VARIABLES
  file,      \* what the name connections.json shows
  durable,   \* what that name may show after a loss of power
  mu,        \* [Servers -> Threads \cup {NoThread}], Store.mu
  pc,        \* where a goroutine is in Load or Save
  arg,       \* the list a goroutine is saving
  tmp,       \* the content of the temporary file of a goroutine's Save
  synced,    \* the goroutines whose temporary file is on stable storage
  res,       \* the result of a goroutine's call
  littered,  \* how many of the faults left a temporary file behind
  faults     \* kills, losses of power and failed removals so far

vars == <<file, durable, mu, pc, arg, tmp, synced, res, littered, faults>>

LoadSteps == {"load_lock", "read", "load_unlock"}
SaveSteps == {"save_lock", "mkdir", "create", "encode", "sync", "close",
              "mkdir_again", "rename", "remove", "save_unlock"}
Critical  == (LoadSteps \cup SaveSteps) \ {"load_lock", "save_lock"}

Init ==
  /\ file \in InitFiles
  /\ durable = {file}
  /\ mu = [s \in Servers |-> NoThread]
  /\ pc = [t \in Threads |-> "idle"]
  /\ arg = [t \in Threads |-> EmptyList]
  /\ tmp = [t \in Threads |-> Missing]
  /\ synced = {}
  /\ res = [t \in Threads |-> Pending]
  /\ littered = 0
  /\ faults = 0

Goto(t, from, to) == pc[t] = from /\ pc' = [pc EXCEPT ![t] = to]
Result(t, r)      == res' = [res EXCEPT ![t] = r]
TmpIs(t, c)       == tmp' = [tmp EXCEPT ![t] = c]

Disk     == <<file, durable>>
TmpFile  == <<tmp, synced>>
Leaks    == <<littered, faults>>

(***************************************************************************)
(* LoadConnections.                                                        *)
(***************************************************************************)
CallLoad(t) ==
  /\ Goto(t, "idle", "load_lock")
  /\ UNCHANGED <<Disk, mu, arg, TmpFile, res, Leaks>>

Lock(t) ==
  /\ mu[ServerOf[t]] = NoThread
  /\ mu' = [mu EXCEPT ![ServerOf[t]] = t]
  /\ Goto(t, "load_lock", "read") \/ Goto(t, "save_lock", "mkdir")
  /\ UNCHANGED <<Disk, arg, TmpFile, res, Leaks>>

\* Mutants of Decode: an empty file is not told apart; a file that is no list
\* reads as an empty one.
DecodeWithoutEmptyCheck(c) == IF c = Torn THEN Err ELSE c
DecodeDropsError(c) == IF c \in Lists THEN c ELSE EmptyList

\* The list LoadConnections makes of a file's bytes.
Decode(c) == IF c \in {Missing, Blank} THEN EmptyList
             ELSE IF c = Torn THEN Err ELSE c

Read(t) ==
  /\ Goto(t, "read", "load_unlock")
  /\ \E r \in {Decode(file), Err} : Result(t, r)   \* Err: ReadFile failed
  /\ UNCHANGED <<Disk, mu, arg, TmpFile, Leaks>>

(***************************************************************************)
(* SaveConnections.                                                        *)
(***************************************************************************)
CallSave(t, v) ==
  /\ Goto(t, "idle", "save_lock")
  /\ arg' = [arg EXCEPT ![t] = v]
  /\ UNCHANGED <<Disk, mu, TmpFile, res, Leaks>>

\* MkdirAll, Close and the second MkdirAll change no file.
PassThrough(t) ==
  /\ \/ Goto(t, "mkdir", "create")
     \/ Goto(t, "close", "mkdir_again")
     \/ Goto(t, "mkdir_again", "rename")
  /\ UNCHANGED <<Disk, mu, arg, TmpFile, res, Leaks>>

CreateTemp(t) ==
  /\ Goto(t, "create", "encode")
  /\ TmpIs(t, Blank)
  /\ UNCHANGED <<Disk, mu, arg, synced, res, Leaks>>

Encode(t) ==
  /\ Goto(t, "encode", "sync")
  /\ TmpIs(t, arg[t])
  /\ UNCHANGED <<Disk, mu, arg, synced, res, Leaks>>

\* A mutant of Sync: the file is not flushed before it is renamed.
SyncSkipped(t) ==
  /\ Goto(t, "sync", "close")
  /\ UNCHANGED <<Disk, mu, arg, TmpFile, res, Leaks>>

Sync(t) ==
  /\ Goto(t, "sync", "close")
  /\ synced' = synced \cup {t}
  /\ UNCHANGED <<Disk, mu, arg, tmp, res, Leaks>>

\* A renamed file whose bytes are not on stable storage may come back torn.
AfterPowerLoss(t) == IF t \in synced THEN {tmp[t]} ELSE {tmp[t], Blank, Torn}

Rename(t) ==
  /\ Goto(t, "rename", "remove")
  /\ file' = tmp[t]
  /\ durable' = durable \cup AfterPowerLoss(t)
  /\ TmpIs(t, Missing)
  /\ Result(t, Ok)
  /\ UNCHANGED <<mu, arg, synced, Leaks>>

\* A mutant of FailEarly: an early return that does not unlock.
FailEarlyLocked(t) ==
  /\ Goto(t, "mkdir", "idle") \/ Goto(t, "create", "idle")
  /\ UNCHANGED <<Disk, mu, arg, TmpFile, res, Leaks>>

\* An early return: before CreateTemp succeeded there is nothing to remove.
FailEarly(t) ==
  /\ Goto(t, "mkdir", "save_unlock") \/ Goto(t, "create", "save_unlock")
  /\ Result(t, Err)
  /\ UNCHANGED <<Disk, mu, arg, TmpFile, Leaks>>

\* A mutant of FailLate: an early return that leaves the temporary file.
FailLateLittering(t) ==
  /\ \E s \in {"encode", "sync", "close", "mkdir_again", "rename"} :
       Goto(t, s, "save_unlock")
  /\ Result(t, Err)
  /\ UNCHANGED <<Disk, mu, arg, TmpFile, Leaks>>

\* An early return with a temporary file; a failed Encode may leave part of
\* the bytes in it.
FailLate(t) ==
  /\ \/ /\ Goto(t, "encode", "remove")
        /\ \E c \in {Blank, Torn} : TmpIs(t, c)
     \/ /\ \E s \in {"sync", "close", "mkdir_again", "rename"} :
             Goto(t, s, "remove")
        /\ UNCHANGED tmp
  /\ Result(t, Err)
  /\ UNCHANGED <<Disk, mu, arg, synced, Leaks>>

\* The deferred os.Remove, whose error is dropped.
RemoveTemp(t) ==
  /\ Goto(t, "remove", "save_unlock")
  /\ TmpIs(t, Missing)
  /\ \/ UNCHANGED Leaks
     \/ /\ tmp[t] # Missing
        /\ faults < MaxFaults
        /\ faults' = faults + 1
        /\ littered' = littered + 1
  /\ synced' = synced \ {t}
  /\ UNCHANGED <<Disk, mu, arg, res>>

\* The deferred Unlock, and the return to the handler.
Unlock(t) ==
  /\ Goto(t, "load_unlock", "idle") \/ Goto(t, "save_unlock", "idle")
  /\ mu' = [mu EXCEPT ![ServerOf[t]] = NoThread]
  /\ arg' = [arg EXCEPT ![t] = EmptyList]
  /\ Result(t, Pending)
  /\ UNCHANGED <<Disk, TmpFile, Leaks>>

Work(t) ==
  \/ Lock(t) \/ Read(t) \/ PassThrough(t) \/ CreateTemp(t) \/ Encode(t)
  \/ Sync(t) \/ Rename(t) \/ FailEarly(t) \/ FailLate(t) \/ RemoveTemp(t)
  \/ Unlock(t)

(***************************************************************************)
(* The environment: the kernel writes the directory back at its own time,  *)
(* a process is killed, the machine loses power.                           *)
(***************************************************************************)
FlushDirectory ==
  /\ durable' = {file}
  /\ UNCHANGED <<file, mu, pc, arg, TmpFile, res, Leaks>>

\* The goroutines of T are gone; their temporary files stay behind.
Abandon(T) ==
  /\ faults < MaxFaults
  /\ faults' = faults + 1
  /\ littered' = IF \E t \in T : tmp[t] # Missing THEN littered + 1
                                                  ELSE littered
  /\ pc'  = [t \in Threads |-> IF t \in T THEN "idle" ELSE pc[t]]
  /\ tmp' = [t \in Threads |-> IF t \in T THEN Missing ELSE tmp[t]]
  /\ res' = [t \in Threads |-> IF t \in T THEN Pending ELSE res[t]]
  /\ arg' = [t \in Threads |-> IF t \in T THEN EmptyList ELSE arg[t]]
  /\ synced' = synced \ T

Kill(s) ==
  /\ Abandon({t \in Threads : ServerOf[t] = s})
  /\ mu' = [mu EXCEPT ![s] = NoThread]
  /\ UNCHANGED Disk

PowerLoss ==
  /\ Abandon(Threads)
  /\ mu' = [s \in Servers |-> NoThread]
  /\ file' \in durable
  /\ durable' = {file'}

Next ==
  \/ \E t \in Threads : CallLoad(t) \/ Work(t)
  \/ \E t \in Threads, v \in Lists : CallSave(t, v)
  \/ FlushDirectory
  \/ \E s \in Servers : Kill(s)
  \/ PowerLoss

Spec == Init /\ [][Next]_vars

\* A goroutine that can run eventually runs, and sync.Mutex does not starve
\* a waiter.
Fairness == \A t \in Threads : WF_vars(Work(t)) /\ SF_vars(Lock(t))

FairSpec == Spec /\ Fairness

(***************************************************************************)
(* Properties.                                                             *)
(***************************************************************************)
TypeOK ==
  /\ file \in Contents
  /\ durable \subseteq Contents
  /\ mu \in [Servers -> Threads \cup {NoThread}]
  /\ pc \in [Threads -> {"idle"} \cup LoadSteps \cup SaveSteps]
  /\ arg \in [Threads -> Lists]
  /\ tmp \in [Threads -> Contents]
  /\ synced \subseteq Threads
  /\ res \in [Threads -> Results]
  /\ littered \in Nat
  /\ faults \in 0..MaxFaults

(***************************************************************************)
(* Store.mu (store.go:36, 63): within one process a single goroutine is    *)
(* past Lock, in Load or Save, and it is the one that holds the mutex; no  *)
(* early return leaves the mutex held by a call that is over.              *)
(***************************************************************************)
MutexHeldByOneCall ==
  \A t \in Threads : pc[t] \in Critical <=> mu[ServerOf[t]] = t

(***************************************************************************)
(* SaveConnections "writes connections.json atomically" (store.go:57):     *)
(* whatever was interrupted, and whichever processes write, no step gives  *)
(* the name anything but a complete list, or what a loss of power may have *)
(* brought back before; the program never makes a file unreadable.         *)
(***************************************************************************)
Shown == {file} \cup durable

FileIsWhole == [][Shown' \subseteq Shown \cup Lists]_vars

(***************************************************************************)
(* The deferred os.Remove (store.go:76): a temporary file exists only      *)
(* while the Save that made it runs, on every path out of Save; one that   *)
(* outlives its Save is explained by a kill or a failed removal.           *)
(***************************************************************************)
TempGoneAfterSave ==
  /\ \A t \in Threads : pc[t] \notin SaveSteps => tmp[t] = Missing
  /\ littered <= faults

(***************************************************************************)
(* Every call of Load and Save returns: no error path forgets the Unlock,  *)
(* however many goroutines wait, unless the process itself is killed.      *)
(***************************************************************************)
EveryCallReturns ==
  \A t \in Threads : pc[t] # "idle" ~> pc[t] = "idle"

(***************************************************************************)
(* The store implements the register its callers rely on.                  *)
(***************************************************************************)
ListOf(c) == IF c \in {Missing, Blank} THEN EmptyList ELSE c

CallOf(t) ==
  IF pc[t] = "idle" THEN [kind |-> "none"]
  ELSE IF res[t] = Err THEN [kind |-> "failed"]
  ELSE IF pc[t] \in LoadSteps
       THEN IF res[t] = Pending THEN [kind |-> "reading"]
            ELSE [kind |-> "got", list |-> res[t]]
       ELSE IF res[t] = Pending THEN [kind |-> "writing", list |-> arg[t]]
            ELSE [kind |-> "written"]

Register == INSTANCE AtomicRegister WITH
  Unreadable <- Torn,
  value  <- ListOf(file),
  stable <- {ListOf(c) : c \in durable},
  op     <- [t \in Threads |-> CallOf(t)]

\* Load and Save are atomic towards their callers: a read returns what the
\* file held at one instant of the call, a failed Save changed nothing, and
\* an acknowledged one is there until the next (store.go:35-98).
ImplementsRegister == Register!Spec

(***************************************************************************)
(* The inductive invariant of the proofs.                                  *)
(***************************************************************************)
HasTemp == {"encode", "sync", "close", "mkdir_again", "rename", "remove"}
Encoded == {"sync", "close", "mkdir_again", "rename"}

TempInv ==
  \A t \in Threads :
    /\ tmp[t] # Missing => pc[t] \in HasTemp
    /\ pc[t] \in Encoded => tmp[t] = arg[t]
    /\ pc[t] \in Encoded \ {"sync"} => t \in synced

ResultInv ==
  \A t \in Threads :
    /\ pc[t] = "load_unlock" => res[t] \in Lists \cup {Err}
    /\ pc[t] \in {"remove", "save_unlock"} => res[t] \in {Ok, Err}
    /\ pc[t] \notin {"load_unlock", "remove", "save_unlock"} => res[t] = Pending

IInv ==
  /\ TypeOK
  /\ MutexHeldByOneCall
  /\ TempInv
  /\ ResultInv
  /\ littered <= faults
=============================================================================
