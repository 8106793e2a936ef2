------------------------------ MODULE FileStore ------------------------------
(***************************************************************************)
(* store.FileStore over store.MemoryStore: the map of tasks, the file that *)
(* mirrors it, and a process that may stop between any two steps.          *)
(*                                                                         *)
(* A caller is a goroutine of the coordinator inside Save or Delete.  Such *)
(* a call changes the map under the map's mutex and then, under the mutex  *)
(* of FileStore, writes the whole map to a temporary file and renames it.  *)
(* The map holds pointers: what is written is what the Task objects are    *)
(* when they are marshalled.  Of an object only its version is modelled,   *)
(* how often its owner has changed it; every ID has one object.            *)
(***************************************************************************)
EXTENDS Integers, FiniteSets

CONSTANTS
    Callers,    \* goroutines that call Save and Delete
    IDs,        \* task IDs
    MaxVersion, \* bound on the versions of a Task object
    NoOne,      \* holder of a free mutex
    NoTask,     \* the ID of a caller without a call
    Torn,       \* a file that was not written to its end
    NoFile      \* no file

ASSUME FileStoreAssumption ==
    /\ MaxVersion \in Nat \ {0}
    /\ NoOne \notin Callers
    /\ NoTask \notin IDs

VARIABLES
    mem,       \* MemoryStore.tasks: the IDs it holds
    ver,       \* the version of each Task object; 0 if there is none
    lock,      \* holder of FileStore.mu
    pc,        \* pc of each caller
    id,        \* the ID of the task each caller saves or deletes
    snap,      \* per call: the IDs in its snapshot
    data,      \* per call: what it has marshalled
    tmp,       \* the temporary file
    file,      \* the file of the store
    up,        \* the process runs
    promised,  \* history: per ID, the version saved last; 0 if deleted
    stale      \* history: the IDs of calls that failed since the last rename

memVars == <<mem, ver>>
callVars == <<lock, pc, id, snap, data>>
diskVars == <<tmp, file>>
histVars == <<promised, stale>>
vars == <<memVars, callVars, diskVars, up, histVars>>

-----------------------------------------------------------------------------
\* What a file may hold: per ID the version of the task, 0 if it is absent.
Contents == [IDs -> 0 .. MaxVersion]
Empty == [i \in IDs |-> 0]

\* No call for the task is on its way, and the last one did not fail.
Settled(i) ==
    /\ i \notin stale
    /\ \A c \in Callers : id[c] # i

\* A process that has not been started before; load takes no file as empty.
Init ==
    /\ mem = {}
    /\ ver = Empty
    /\ lock = NoOne
    /\ pc = [c \in Callers |-> "idle"]
    /\ id = [c \in Callers |-> NoTask]
    /\ snap = [c \in Callers |-> {}]
    /\ data = [c \in Callers |-> Empty]
    /\ tmp = NoFile
    /\ file = Empty
    /\ up = FALSE
    /\ promised = Empty
    /\ stale = {}

Goto(c, label) == pc' = [pc EXCEPT ![c] = label]

\* The call returns: the mutex is released and the local variables are gone.
End(c) ==
    /\ lock' = NoOne
    /\ pc' = [pc EXCEPT ![c] = "idle"]
    /\ id' = [id EXCEPT ![c] = NoTask]
    /\ snap' = [snap EXCEPT ![c] = {}]
    /\ data' = [data EXCEPT ![c] = Empty]

-----------------------------------------------------------------------------
(* The coordinator.                                                        *)

\* A task is created, or a run or a cancellation changes it.
Change(i) ==
    /\ up
    /\ ver[i] < MaxVersion
    /\ ver' = [ver EXCEPT ![i] = @ + 1]
    /\ UNCHANGED <<mem, callVars, diskVars, up, histVars>>

\* Save: the map comes first.
Save(c, i) ==
    /\ up
    /\ pc[c] = "idle"
    /\ ver[i] > 0
    /\ mem' = mem \cup {i}
    /\ promised' = [promised EXCEPT ![i] = ver[i]]
    /\ id' = [id EXCEPT ![c] = i]
    /\ Goto(c, "flush")
    /\ UNCHANGED <<ver, lock, snap, data, diskVars, up, stale>>

\* Delete; for an unknown ID it returns an error and does nothing.
Delete(c, i) ==
    /\ up
    /\ pc[c] = "idle"
    /\ i \in mem
    /\ mem' = mem \ {i}
    /\ promised' = [promised EXCEPT ![i] = 0]
    /\ id' = [id EXCEPT ![c] = i]
    /\ Goto(c, "flush")
    /\ UNCHANGED <<ver, lock, snap, data, diskVars, up, stale>>

-----------------------------------------------------------------------------
(* flush, with FileStore.mu held.                                          *)

\* Take the mutex, then a snapshot of the map.
Flush(c) ==
    /\ pc[c] = "flush"
    /\ lock = NoOne
    /\ lock' = c
    /\ snap' = [snap EXCEPT ![c] = mem]
    /\ Goto(c, "marshal")
    /\ UNCHANGED <<memVars, id, data, diskVars, up, histVars>>

\* What a call that holds the snapshot s marshals now.
Marshalled(s) == [i \in IDs |-> IF i \in s THEN ver[i] ELSE 0]

\* Faulty variant: it is marshalled before the mutex is taken.
MarshalFirst(c) ==
    /\ \/ /\ pc[c] = "flush"
          /\ data' = [data EXCEPT ![c] = Marshalled(mem)]
          /\ UNCHANGED pc
       \/ /\ pc[c] = "marshal"
          /\ Goto(c, "write")
          /\ UNCHANGED data
    /\ UNCHANGED <<memVars, lock, id, snap, diskVars, up, histVars>>

\* The objects are read after the snapshot, while others may change them.
\* They are read one after the other; no property relates two of them.
Marshal(c) ==
    /\ pc[c] = "marshal"
    /\ data' = [data EXCEPT ![c] = Marshalled(snap[c])]
    /\ Goto(c, "write")
    /\ UNCHANGED <<memVars, lock, id, snap, diskVars, up, histVars>>

\* Faulty variant: the store's file itself is written.
WriteInPlace(c) ==
    /\ pc[c] = "write"
    /\ file' = Torn
    /\ Goto(c, "writing")
    /\ UNCHANGED <<memVars, lock, id, snap, data, tmp, up, histVars>>

\* os.WriteFile truncates the temporary file and begins to write.
WriteBegin(c) ==
    /\ pc[c] = "write"
    /\ tmp' = Torn
    /\ Goto(c, "writing")
    /\ UNCHANGED <<memVars, lock, id, snap, data, file, up, histVars>>

WriteEnd(c) ==
    /\ pc[c] = "writing"
    /\ tmp' = data[c]
    /\ Goto(c, "rename")
    /\ UNCHANGED <<memVars, lock, id, snap, data, file, up, histVars>>

\* The file is replaced, the mutex released, and the call returns nil.
Rename(c) ==
    /\ pc[c] = "rename"
    /\ file' = tmp
    /\ tmp' = NoFile
    /\ End(c)
    /\ stale' = {}
    /\ UNCHANGED <<memVars, up, promised>>

\* Faulty variant: the call returns nil all the same.
FlushErrorDropped(c) ==
    /\ pc[c] \in {"marshal", "write", "writing", "rename"}
    /\ End(c)
    /\ UNCHANGED <<memVars, diskVars, up, histVars>>

\* The directory, the temporary file or the rename fails: the call returns an
\* error, the map stays changed, the temporary file stays as it is.
FlushFails(c) ==
    /\ pc[c] \in {"marshal", "write", "writing", "rename"}
    /\ End(c)
    /\ stale' = stale \cup {id[c]}
    /\ UNCHANGED <<memVars, diskVars, up, promised>>

-----------------------------------------------------------------------------
(* The process.                                                            *)

\* The process stops.  Of the tasks that calls were busy with, or had failed
\* to write, whatever the file holds is as good as anything.
Crash ==
    /\ up
    /\ up' = FALSE
    /\ mem' = {}
    /\ ver' = Empty
    /\ lock' = NoOne
    /\ pc' = [c \in Callers |-> "idle"]
    /\ id' = [c \in Callers |-> NoTask]
    /\ snap' = [c \in Callers |-> {}]
    /\ data' = [c \in Callers |-> Empty]
    /\ promised' = [i \in IDs |-> IF Settled(i) THEN promised[i] ELSE file[i]]
    /\ stale' = {}
    /\ UNCHANGED diskVars

\* Faulty variant: a temporary file that was left behind is preferred.
LoadedTmp == IF tmp \in {NoFile, Torn} THEN file ELSE tmp

\* What load finds.
Loaded == file

\* NewFileStore; a file that cannot be decoded keeps the service down.
Start ==
    /\ ~up
    /\ Loaded # Torn
    /\ up' = TRUE
    /\ mem' = {i \in IDs : Loaded[i] > 0}
    /\ ver' = Loaded
    /\ UNCHANGED <<callVars, diskVars, histVars>>

-----------------------------------------------------------------------------
CallNext(c) ==
    \/ \E i \in IDs : Save(c, i) \/ Delete(c, i)
    \/ Flush(c) \/ Marshal(c) \/ WriteBegin(c) \/ WriteEnd(c) \/ Rename(c)
    \/ FlushFails(c)

Next ==
    \/ \E i \in IDs : Change(i)
    \/ \E c \in Callers : CallNext(c)
    \/ Crash
    \/ Start

Spec == Init /\ [][Next]_vars

-----------------------------------------------------------------------------
(* Properties.                                                             *)

\* The mutex has the holder the program counters say, and the file that a
\* restart reads is never one that was not written to its end.
TypeOK ==
    /\ mem \subseteq IDs
    /\ ver \in Contents
    /\ lock \in Callers \cup {NoOne}
    /\ pc \in [Callers -> {"idle", "flush", "marshal", "write", "writing", "rename"}]
    /\ \A c \in Callers : pc[c] \in {"marshal", "write", "writing", "rename"} <=> lock = c
    /\ id \in [Callers -> IDs \cup {NoTask}]
    /\ \A c \in Callers : id[c] = NoTask <=> pc[c] = "idle"
    /\ snap \in [Callers -> SUBSET IDs]
    /\ data \in [Callers -> Contents]
    /\ tmp \in Contents \cup {Torn, NoFile}
    /\ file \in Contents
    /\ up \in BOOLEAN
    /\ promised \in Contents
    /\ stale \subseteq IDs

\* A call that returned without error is on disk, whichever calls ran beside
\* it: the file holds a task that was saved, in a state no older than it was
\* saved in, and does not hold one that was deleted.
Durable ==
    \A i \in IDs : Settled(i) =>
        /\ file[i] = 0 <=> promised[i] = 0
        /\ file[i] >= promised[i]

\* The running process knows the tasks that were saved, also those saved
\* before it was last started, and none that was deleted.
Remembers ==
    up => \A i \in IDs :
        /\ i \in mem <=> promised[i] > 0
        /\ i \in mem => ver[i] >= promised[i]

\* No write undoes a later one: while the file holds a task, it never goes
\* back to an older state of it, whichever call's snapshot is renamed, and
\* also across restarts.
NoRollback ==
    [][\A i \in IDs : file'[i] >= file[i] \/ file'[i] = 0]_vars
=============================================================================
