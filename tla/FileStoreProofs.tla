--------------------------- MODULE FileStoreProofs ---------------------------
(***************************************************************************)
(* What the run of FileStore shows for three callers and two tasks, proved *)
(* for any callers, any tasks and any number of versions.                  *)
(***************************************************************************)
EXTENDS FileStore, TLAPS

(* Some call has changed the map for a task and waits for the mutex. *)
Waiting(i) == \E c \in Callers : pc[c] = "flush" /\ id[c] = i

(* A state of the tasks that agrees with what was promised about task i. *)
Keeps(state, i) == (state[i] = 0 <=> promised[i] = 0) /\ state[i] >= promised[i]

(* What the holder of the mutex is about to write is as good as the map, save
   for the tasks of calls that will write after it. *)
Covers ==
    \A c \in Callers, i \in IDs : ~Waiting(i) =>
        /\ pc[c] = "marshal" => (i \in snap[c] <=> i \in mem)
        /\ pc[c] \in {"write", "writing", "rename"} => Keeps(data[c], i)

(* The temporary file is whole and its writer's own when it is renamed. *)
Written == \A c \in Callers : pc[c] = "rename" => tmp = data[c]

(* A process that does not run has no calls on their way. *)
Quiet == ~up => stale = {} /\ \A c \in Callers : pc[c] = "idle"

(* The inductive invariant.  Durable is only made true by a rename, so it
   needs to know what is in the temporary file (Written), what that was
   marshalled from (Covers), and that the map was right then (Remembers). *)
IInv == TypeOK /\ Durable /\ Remembers /\ Covers /\ Written /\ Quiet

-----------------------------------------------------------------------------
(* No task at all is something a file may hold. *)
LEMMA EmptyFacts ==
    ASSUME FileStoreAssumption
    PROVE  Empty \in Contents /\ [c \in Callers |-> Empty] \in [Callers -> Contents]
<1>1. Empty \in Contents
  BY DEF FileStoreAssumption, Contents, Empty
<1> QED BY <1>1

LEMMA InitIInv == ASSUME FileStoreAssumption, Init PROVE IInv
<1>1. TypeOK
  <2>1. /\ mem \subseteq IDs /\ stale \subseteq IDs
        /\ lock = NoOne
        /\ pc = [c \in Callers |-> "idle"]
        /\ id = [c \in Callers |-> NoTask]
        /\ snap \in [Callers -> SUBSET IDs]
    BY DEF Init
  <2>2. /\ ver \in Contents /\ file \in Contents /\ promised \in Contents
        /\ data \in [Callers -> Contents]
    BY EmptyFacts DEF Init
  <2>3. up \in BOOLEAN /\ tmp \in Contents \cup {Torn, NoFile}
    BY DEF Init
  <2> QED BY <2>1, <2>2, <2>3 DEF FileStoreAssumption, TypeOK
<1>2. Durable /\ Remembers
  BY DEF FileStoreAssumption, Init, Durable, Remembers, Empty
<1>3. Covers /\ Written /\ Quiet
  BY DEF Init, Covers, Written, Quiet
<1> QED BY <1>1, <1>2, <1>3 DEF IInv

-----------------------------------------------------------------------------
(* An object that changes only gets newer than what was promised. *)
LEMMA ChangeStep ==
    ASSUME FileStoreAssumption, IInv, NEW i \in IDs, Change(i) PROVE IInv'
<1>1. ver' \in Contents /\ \A j \in IDs : ver'[j] >= ver[j]
  BY DEF FileStoreAssumption, IInv, TypeOK, Contents, Change
<1>2. UNCHANGED <<mem, callVars, diskVars, up, histVars>>
  BY DEF Change
<1>3. TypeOK'
  BY <1>1, <1>2 DEF IInv, TypeOK, callVars, diskVars, histVars
<1>4. Durable'
  BY <1>2 DEF IInv, Durable, Settled, callVars, diskVars, histVars
<1>5. Remembers'
  BY <1>1, <1>2 DEF IInv, TypeOK, Contents, Remembers, histVars
<1>6. Covers' /\ Written' /\ Quiet'
  BY <1>2 DEF IInv, Covers, Keeps, Waiting, Written, Quiet, callVars, diskVars, histVars
<1> QED BY <1>3, <1>4, <1>5, <1>6 DEF IInv

(* Save and Delete change the map and what is promised about one task, which
   from then on is neither settled nor covered. *)
LEMMA MapStep ==
    ASSUME FileStoreAssumption, IInv, NEW c \in Callers, NEW i \in IDs,
           Save(c, i) \/ Delete(c, i)
    PROVE  IInv'
<1>1. /\ pc[c] = "idle"
      /\ pc' = [pc EXCEPT ![c] = "flush"]
      /\ id' = [id EXCEPT ![c] = i]
      /\ UNCHANGED <<ver, lock, snap, data, tmp, file, up, stale>>
  BY DEF Save, Delete, Goto, diskVars
<1>2. /\ mem' \subseteq IDs
      /\ promised' \in Contents
      /\ \A j \in IDs \ {i} : promised'[j] = promised[j] /\ (j \in mem' <=> j \in mem)
      /\ i \in mem' <=> promised'[i] > 0
      /\ promised'[i] <= ver[i]
      /\ up
  BY DEF Save, Delete, IInv, TypeOK, Contents
<1>3. Waiting(i)' /\ ~Settled(i)'
  BY <1>1 DEF IInv, TypeOK, Waiting, Settled
<1>4. \A j \in IDs \ {i} : (Waiting(j)' <=> Waiting(j)) /\ (Settled(j)' => Settled(j))
  BY <1>1 DEF FileStoreAssumption, IInv, TypeOK, Waiting, Settled
<1>5. TypeOK'
  BY <1>1, <1>2 DEF FileStoreAssumption, IInv, TypeOK
<1>6. Durable'
  BY <1>1, <1>2, <1>3, <1>4 DEF IInv, Durable
<1>7. Remembers'
  BY <1>1, <1>2 DEF IInv, Remembers
<1>8. Covers'
  <2> SUFFICES ASSUME NEW d \in Callers, NEW j \in IDs, ~Waiting(j)'
               PROVE  /\ pc'[d] = "marshal" => (j \in snap'[d] <=> j \in mem')
                      /\ pc'[d] \in {"write", "writing", "rename"} =>
                            (data'[d][j] = 0 <=> promised'[j] = 0) /\ data'[d][j] >= promised'[j]
    BY DEF Covers, Keeps
  <2>1. j # i /\ ~Waiting(j)
    BY <1>3, <1>4
  <2>2. pc'[d] # "flush" => d # c /\ pc'[d] = pc[d]
    BY <1>1 DEF IInv, TypeOK
  <2> QED BY <1>1, <1>2, <2>1, <2>2 DEF IInv, Covers, Keeps
<1>9. Written' /\ Quiet'
  BY <1>1, <1>2 DEF IInv, TypeOK, Written, Quiet
<1> QED BY <1>5, <1>6, <1>7, <1>8, <1>9 DEF IInv

(* The snapshot is the map. *)
LEMMA FlushStep ==
    ASSUME FileStoreAssumption, IInv, NEW c \in Callers, Flush(c) PROVE IInv'
<1>1. /\ pc[c] = "flush" /\ lock = NoOne
      /\ lock' = c
      /\ snap' = [snap EXCEPT ![c] = mem]
      /\ pc' = [pc EXCEPT ![c] = "marshal"]
      /\ UNCHANGED <<mem, ver, id, data, tmp, file, up, promised, stale>>
  BY DEF Flush, Goto, memVars, diskVars, histVars
<1>2. TypeOK'
  BY <1>1 DEF FileStoreAssumption, IInv, TypeOK
<1>3. Durable' /\ Remembers'
  BY <1>1 DEF IInv, Durable, Remembers, Settled
<1>4. Covers'
  BY <1>1 DEF FileStoreAssumption, IInv, TypeOK, Covers, Keeps, Waiting
<1>5. Written' /\ Quiet'
  BY <1>1 DEF IInv, TypeOK, Written, Quiet
<1> QED BY <1>2, <1>3, <1>4, <1>5 DEF IInv

(* Marshalling reads the objects as they are now. *)
LEMMA MarshalStep ==
    ASSUME FileStoreAssumption, IInv, NEW c \in Callers, Marshal(c) PROVE IInv'
<1> DEFINE written == [i \in IDs |-> IF i \in snap[c] THEN ver[i] ELSE 0]
<1>1. /\ pc[c] = "marshal"
      /\ data' = [data EXCEPT ![c] = written]
      /\ pc' = [pc EXCEPT ![c] = "write"]
      /\ UNCHANGED <<mem, ver, lock, id, snap, tmp, file, up, promised, stale>>
  BY DEF Marshal, Marshalled, Goto, memVars, diskVars, histVars
<1>2. written \in Contents
  BY DEF IInv, TypeOK, Contents, FileStoreAssumption
<1>3. up
  BY <1>1 DEF IInv, Quiet
<1>4. ASSUME NEW i \in IDs, ~Waiting(i) PROVE Keeps(written, i)
  <2>1. i \in snap[c] <=> i \in mem
    BY <1>1, <1>4 DEF IInv, Covers
  <2>2. /\ i \in mem <=> promised[i] > 0
        /\ i \in mem => ver[i] >= promised[i]
    BY <1>3 DEF IInv, Remembers
  <2>3. promised[i] \in Nat /\ ver[i] \in Nat
    BY DEF IInv, TypeOK, Contents
  <2> QED BY <2>1, <2>2, <2>3 DEF Keeps
<1> HIDE DEF written
<1>5. TypeOK'
  BY <1>1, <1>2 DEF FileStoreAssumption, IInv, TypeOK
<1>6. Durable' /\ Remembers'
  BY <1>1 DEF IInv, Durable, Remembers, Settled
<1>7. Covers'
  <2> SUFFICES ASSUME NEW d \in Callers, NEW j \in IDs, ~Waiting(j)'
               PROVE  /\ pc'[d] = "marshal" => (j \in snap'[d] <=> j \in mem')
                      /\ pc'[d] \in {"write", "writing", "rename"} =>
                            (data'[d][j] = 0 <=> promised'[j] = 0) /\ data'[d][j] >= promised'[j]
    BY DEF Covers, Keeps
  <2>1. ~Waiting(j)
    BY <1>1 DEF IInv, TypeOK, Waiting
  <2>2. CASE d = c
    BY <1>1, <1>4, <2>1, <2>2 DEF IInv, TypeOK, Keeps
  <2>3. CASE d # c
    BY <1>1, <2>1, <2>3 DEF IInv, TypeOK, Covers, Keeps
  <2> QED BY <2>2, <2>3
<1>8. Written' /\ Quiet'
  BY <1>1, <1>3 DEF IInv, TypeOK, Written, Quiet
<1> QED BY <1>5, <1>6, <1>7, <1>8 DEF IInv

(* Writing the temporary file, which nobody else touches: only the holder of
   the mutex is in these states. *)
LEMMA WriteStep ==
    ASSUME FileStoreAssumption, IInv, NEW c \in Callers, WriteBegin(c) \/ WriteEnd(c)
    PROVE  IInv'
<1>1. /\ pc[c] \in {"write", "writing"}
      /\ \/ tmp' = Torn /\ pc' = [pc EXCEPT ![c] = "writing"]
         \/ tmp' = data[c] /\ pc' = [pc EXCEPT ![c] = "rename"]
      /\ UNCHANGED <<mem, ver, lock, id, snap, data, file, up, promised, stale>>
  BY DEF WriteBegin, WriteEnd, Goto, memVars, histVars
<1>2. TypeOK'
  BY <1>1 DEF FileStoreAssumption, IInv, TypeOK
<1>3. Durable' /\ Remembers'
  BY <1>1 DEF IInv, Durable, Remembers, Settled
<1>4. Covers'
  BY <1>1 DEF IInv, TypeOK, Covers, Keeps, Waiting
<1>5. Written'
  BY <1>1 DEF FileStoreAssumption, IInv, TypeOK, Written
<1>6. Quiet'
  BY <1>1 DEF IInv, TypeOK, Quiet
<1> QED BY <1>2, <1>3, <1>4, <1>5, <1>6 DEF IInv

-----------------------------------------------------------------------------
(* What the end of a call leaves of the calls. *)
LEMMA EndFacts ==
    ASSUME FileStoreAssumption, IInv, NEW c \in Callers, lock = c, End(c), UNCHANGED mem
    PROVE  /\ lock' = NoOne
           /\ pc' \in [Callers -> {"idle", "flush"}]
           /\ id' \in [Callers -> IDs \cup {NoTask}]
           /\ \A d \in Callers : id'[d] = NoTask <=> pc'[d] = "idle"
           /\ snap' \in [Callers -> SUBSET IDs]
           /\ data' \in [Callers -> Contents]
           /\ \A i \in IDs : Waiting(i)' <=> Waiting(i)
           /\ \A d \in Callers \ {c} : id'[d] = id[d]
           /\ ~up => \A d \in Callers : pc'[d] = "idle"
<1>1. \A d \in Callers \ {c} : pc[d] \in {"idle", "flush"}
  BY DEF IInv, TypeOK
<1>2. pc[c] # "flush" /\ pc[c] # "idle"
  BY DEF IInv, TypeOK
<1>3. /\ pc' = [pc EXCEPT ![c] = "idle"]
      /\ id' = [id EXCEPT ![c] = NoTask]
      /\ snap' = [snap EXCEPT ![c] = {}]
      /\ data' = [data EXCEPT ![c] = Empty]
      /\ lock' = NoOne
  BY DEF End
<1>4. pc \in [Callers -> {"idle", "flush", "marshal", "write", "writing", "rename"}]
      /\ id \in [Callers -> IDs \cup {NoTask}]
  BY DEF IInv, TypeOK
<1>5. pc' \in [Callers -> {"idle", "flush"}] /\ \A d \in Callers \ {c} : id'[d] = id[d]
  BY <1>1, <1>3, <1>4
<1>6. /\ id' \in [Callers -> IDs \cup {NoTask}]
      /\ \A d \in Callers : id'[d] = NoTask <=> pc'[d] = "idle"
  BY <1>3, <1>4 DEF IInv, TypeOK
<1>7. snap' \in [Callers -> SUBSET IDs] /\ data' \in [Callers -> Contents]
  BY <1>3 DEF FileStoreAssumption, IInv, TypeOK, Contents, Empty
<1>8. \A i \in IDs : Waiting(i)' <=> Waiting(i)
  BY <1>2, <1>3, <1>4 DEF Waiting
<1>9. ~up => \A d \in Callers : pc'[d] = "idle"
  BY <1>3, <1>4 DEF IInv, Quiet
<1> QED BY <1>3, <1>5, <1>6, <1>7, <1>8, <1>9

(* The rename makes durable what was covered, and that is every task that no
   call is still busy with. *)
LEMMA RenameStep ==
    ASSUME FileStoreAssumption, IInv, NEW c \in Callers, Rename(c) PROVE IInv'
<1>1. /\ pc[c] = "rename" /\ lock = c
      /\ file' = data[c] /\ tmp' = NoFile /\ stale' = {}
      /\ UNCHANGED <<mem, ver, up, promised>>
  BY DEF Rename, IInv, TypeOK, Written, memVars
<1>2. End(c)
  BY DEF Rename
<1>3. /\ lock' = NoOne
      /\ pc' \in [Callers -> {"idle", "flush"}]
      /\ id' \in [Callers -> IDs \cup {NoTask}]
      /\ \A d \in Callers : id'[d] = NoTask <=> pc'[d] = "idle"
      /\ snap' \in [Callers -> SUBSET IDs]
      /\ data' \in [Callers -> Contents]
      /\ \A i \in IDs : Waiting(i)' <=> Waiting(i)
      /\ ~up => \A d \in Callers : pc'[d] = "idle"
  BY <1>1, <1>2, EndFacts
<1>4. TypeOK'
  BY <1>1, <1>3 DEF FileStoreAssumption, IInv, TypeOK
<1>5. Durable'
  <2> SUFFICES ASSUME NEW i \in IDs, Settled(i)'
               PROVE  (file'[i] = 0 <=> promised'[i] = 0) /\ file'[i] >= promised'[i]
    BY DEF Durable
  <2>1. ~Waiting(i)
    BY <1>3 DEF Settled, Waiting
  <2> QED BY <1>1, <2>1 DEF IInv, Covers, Keeps
<1>6. Remembers'
  BY <1>1 DEF IInv, Remembers
<1>7. Covers' /\ Written' /\ Quiet'
  BY <1>1, <1>3 DEF Covers, Written, Quiet
<1> QED BY <1>4, <1>5, <1>6, <1>7 DEF IInv

(* A failing call leaves its task in doubt and every other one as it was. *)
LEMMA FlushFailsStep ==
    ASSUME FileStoreAssumption, IInv, NEW c \in Callers, FlushFails(c) PROVE IInv'
<1>1. /\ lock = c /\ id[c] \in IDs
      /\ stale' = stale \cup {id[c]}
      /\ UNCHANGED <<mem, ver, tmp, file, up, promised>>
  BY DEF FlushFails, IInv, TypeOK, memVars, diskVars
<1>2. End(c)
  BY DEF FlushFails
<1>3. /\ lock' = NoOne
      /\ pc' \in [Callers -> {"idle", "flush"}]
      /\ id' \in [Callers -> IDs \cup {NoTask}]
      /\ \A d \in Callers : id'[d] = NoTask <=> pc'[d] = "idle"
      /\ snap' \in [Callers -> SUBSET IDs]
      /\ data' \in [Callers -> Contents]
      /\ \A d \in Callers \ {c} : id'[d] = id[d]
  BY <1>1, <1>2, EndFacts
<1>4. up
  BY DEF FlushFails, IInv, Quiet
<1>5. TypeOK'
  BY <1>1, <1>3 DEF FileStoreAssumption, IInv, TypeOK
<1>6. \A i \in IDs : Settled(i)' => Settled(i)
  BY <1>1, <1>3 DEF Settled
<1>7. Durable' /\ Remembers'
  BY <1>1, <1>6 DEF IInv, Durable, Remembers
<1>8. Covers' /\ Written' /\ Quiet'
  BY <1>1, <1>3, <1>4 DEF Covers, Written, Quiet
<1> QED BY <1>5, <1>7, <1>8 DEF IInv

-----------------------------------------------------------------------------
(* After a crash nothing is promised but what the file holds. *)
LEMMA CrashStep ==
    ASSUME FileStoreAssumption, IInv, Crash PROVE IInv'
<1>1. /\ up' = FALSE /\ mem' = {} /\ ver' = Empty /\ lock' = NoOne /\ stale' = {}
      /\ pc' = [d \in Callers |-> "idle"]
      /\ id' = [d \in Callers |-> NoTask]
      /\ snap' = [d \in Callers |-> {}]
      /\ data' = [d \in Callers |-> Empty]
      /\ tmp' = tmp /\ file' = file
      /\ promised' = [i \in IDs |-> IF Settled(i) THEN promised[i] ELSE file[i]]
  BY DEF Crash, diskVars
<1>2. promised' \in Contents
  BY <1>1 DEF IInv, TypeOK, Contents
<1>3. TypeOK'
  <2>1. /\ ver' \in Contents /\ file' \in Contents
        /\ data' \in [Callers -> Contents]
        /\ tmp' \in Contents \cup {Torn, NoFile}
    BY <1>1, EmptyFacts DEF IInv, TypeOK
  <2>2. snap' \in [Callers -> SUBSET IDs] /\ up' \in BOOLEAN
    BY <1>1
  <2> QED BY <1>1, <1>2, <2>1, <2>2 DEF FileStoreAssumption, TypeOK
<1>4. Durable'
  BY <1>1 DEF IInv, TypeOK, Contents, Durable
<1>5. Remembers' /\ Covers' /\ Written' /\ Quiet'
  BY <1>1 DEF Remembers, Covers, Written, Quiet
<1> QED BY <1>3, <1>4, <1>5 DEF IInv

(* A restart finds every promise kept, because nothing was on its way. *)
LEMMA StartStep ==
    ASSUME FileStoreAssumption, IInv, Start PROVE IInv'
<1>1. /\ ~up /\ up' = TRUE
      /\ mem' = {i \in IDs : file[i] > 0} /\ ver' = file
      /\ UNCHANGED <<lock, pc, id, snap, data, tmp, file, promised, stale>>
  BY DEF Start, Loaded, callVars, diskVars, histVars
<1>2. \A c \in Callers : pc[c] = "idle" /\ id[c] = NoTask
  BY <1>1 DEF IInv, Quiet, TypeOK
<1>3. \A i \in IDs : Settled(i)
  BY <1>1, <1>2 DEF FileStoreAssumption, IInv, Quiet, Settled
<1>4. TypeOK'
  BY <1>1 DEF IInv, TypeOK
<1>5. Durable'
  BY <1>1 DEF IInv, Durable, Settled
<1>6. Remembers'
  BY <1>1, <1>3 DEF IInv, TypeOK, Contents, Durable, Remembers
<1>7. Covers' /\ Written' /\ Quiet'
  BY <1>1, <1>2 DEF Covers, Written, Quiet
<1> QED BY <1>4, <1>5, <1>6, <1>7 DEF IInv

-----------------------------------------------------------------------------
LEMMA InductiveStep ==
    ASSUME FileStoreAssumption, IInv, [Next]_vars PROVE IInv'
<1>1. ASSUME NEW i \in IDs, Change(i) PROVE IInv'
  BY <1>1, ChangeStep
<1>2. ASSUME NEW c \in Callers, CallNext(c) PROVE IInv'
  <2>1. CASE \E i \in IDs : Save(c, i) \/ Delete(c, i)
    BY <2>1, MapStep
  <2>2. CASE Flush(c)
    BY <2>2, FlushStep
  <2>3. CASE Marshal(c)
    BY <2>3, MarshalStep
  <2>4. CASE WriteBegin(c) \/ WriteEnd(c)
    BY <2>4, WriteStep
  <2>5. CASE Rename(c)
    BY <2>5, RenameStep
  <2>6. CASE FlushFails(c)
    BY <2>6, FlushFailsStep
  <2> QED BY <1>2, <2>1, <2>2, <2>3, <2>4, <2>5, <2>6 DEF CallNext
<1>3. CASE Crash
  BY <1>3, CrashStep
<1>4. CASE Start
  BY <1>4, StartStep
<1>5. CASE UNCHANGED vars
  <2>1. UNCHANGED <<mem, ver, lock, pc, id, snap, data, tmp, file, up, promised, stale>>
    BY <1>5 DEF vars, memVars, callVars, diskVars, histVars
  <2>2. TypeOK' /\ Durable' /\ Remembers'
    BY <2>1 DEF IInv, TypeOK, Durable, Remembers, Settled
  <2>3. Covers' /\ Written' /\ Quiet'
    BY <2>1 DEF IInv, Covers, Keeps, Waiting, Written, Quiet
  <2> QED BY <2>2, <2>3 DEF IInv
<1> QED BY <1>1, <1>2, <1>3, <1>4, <1>5 DEF Next

LEMMA InductiveInvariant == ASSUME FileStoreAssumption PROVE Spec => []IInv
<1>1. Init => IInv
  BY InitIInv
<1>2. IInv /\ [Next]_vars => IInv'
  BY InductiveStep
<1> QED BY <1>1, <1>2, PTL DEF Spec

-----------------------------------------------------------------------------
(* Why no write undoes a later one: an object is never older than the file,
   and what the holder of the mutex has marshalled lies between the two,
   because nobody else renames in the meantime. *)
Newest ==
    /\ up => \A i \in IDs : file[i] <= ver[i]
    /\ \A c \in Callers, i \in IDs : pc[c] \in {"write", "writing", "rename"} =>
          /\ data[c][i] <= ver[i]
          /\ data[c][i] = 0 \/ data[c][i] >= file[i]

LEMMA NewestStep ==
    ASSUME FileStoreAssumption, IInv, Newest, [Next]_vars PROVE Newest'
<1> DEFINE Busy == {"write", "writing", "rename"}
<1> USE DEF IInv
<1>0. /\ ver \in Contents /\ file \in Contents /\ data \in [Callers -> Contents]
      /\ \A i \in IDs : ver[i] \in Nat /\ file[i] \in Nat
      /\ \A c \in Callers, i \in IDs : data[c][i] \in Nat
  BY DEF TypeOK, Contents
<1>1. ASSUME NEW i \in IDs, Change(i) PROVE Newest'
  <2>1. /\ \A j \in IDs : ver'[j] >= ver[j] /\ ver'[j] \in Nat
        /\ UNCHANGED <<up, file, pc, data>>
    BY <1>1, <1>0 DEF Change, Contents, FileStoreAssumption, callVars, diskVars
  <2> QED BY <2>1, <1>0 DEF Newest
<1>2. ASSUME NEW c \in Callers, CallNext(c) PROVE Newest'
  <2>0. UNCHANGED <<ver, up>>
    BY <1>2 DEF CallNext, Save, Delete, Flush, Marshal, WriteBegin, WriteEnd, Rename,
                FlushFails, memVars
  <2>1. CASE (\E i \in IDs : Save(c, i) \/ Delete(c, i)) \/ Flush(c) \/ WriteBegin(c) \/ WriteEnd(c)
    <3>1. /\ UNCHANGED <<file, data>>
          /\ \A d \in Callers : pc'[d] \in Busy => pc[d] \in Busy
      BY <2>1 DEF TypeOK, Save, Delete, Flush, WriteBegin, WriteEnd, Goto, diskVars
    <3> QED BY <2>0, <3>1 DEF Newest
  <2>2. CASE Marshal(c)
    <3>1. up
      BY <2>2 DEF Marshal, Quiet
    <3>2. /\ UNCHANGED file
          /\ \A i \in IDs : data'[c][i] = ver[i] \/ data'[c][i] = 0
          /\ \A d \in Callers \ {c} : pc'[d] = pc[d] /\ data'[d] = data[d]
      BY <2>2, <1>0 DEF TypeOK, Marshal, Marshalled, Goto, diskVars
    <3>3. ASSUME NEW d \in Callers, NEW i \in IDs, pc'[d] \in Busy
          PROVE  data'[d][i] <= ver[i] /\ (data'[d][i] = 0 \/ data'[d][i] >= file[i])
      <4>1. CASE d = c
        BY <4>1, <3>1, <3>2, <1>0 DEF Newest
      <4>2. CASE d # c
        BY <4>2, <3>2, <3>3 DEF Newest
      <4> QED BY <4>1, <4>2
    <3> QED BY <2>0, <3>2, <3>3 DEF Newest
  <2>3. CASE Rename(c)
    <3>1. pc[c] = "rename" /\ lock = c /\ file' = data[c]
      BY <2>3 DEF Rename, TypeOK, Written
    <3>2. \A d \in Callers : pc'[d] \notin Busy
      BY <2>3, <3>1 DEF Rename, End, TypeOK
    <3> QED BY <2>0, <3>1, <3>2 DEF Newest
  <2>4. CASE FlushFails(c)
    <3>1. lock = c /\ file' = file
      BY <2>4 DEF FlushFails, TypeOK, diskVars
    <3>2. \A d \in Callers : pc'[d] \notin Busy
      BY <2>4, <3>1 DEF FlushFails, End, TypeOK
    <3> QED BY <2>0, <3>1, <3>2 DEF Newest
  <2> QED BY <1>2, <2>1, <2>2, <2>3, <2>4 DEF CallNext
<1>3. CASE Crash
  BY <1>3 DEF Crash, Newest
<1>4. CASE Start
  BY <1>4, <1>0 DEF Start, Loaded, Quiet, Newest, callVars, diskVars
<1>5. CASE UNCHANGED vars
  BY <1>5 DEF vars, memVars, callVars, diskVars, Newest
<1> QED BY <1>1, <1>2, <1>3, <1>4, <1>5 DEF Next

LEMMA NewestInvariant == ASSUME FileStoreAssumption PROVE Spec => []Newest
<1>1. Init => Newest
  BY EmptyFacts DEF Init, Newest, Empty, Contents, FileStoreAssumption
<1>2. IInv /\ Newest /\ [Next]_vars => Newest'
  BY NewestStep
<1> QED BY <1>1, <1>2, InductiveInvariant, PTL DEF Spec

(* A rename is the only step that changes the file, and replaces it by what
   was marshalled while nobody else could rename. *)
LEMMA RollbackStep ==
    ASSUME FileStoreAssumption, IInv, Newest, [Next]_vars, NEW i \in IDs
    PROVE  file'[i] >= file[i] \/ file'[i] = 0
<1>1. CASE \E c \in Callers : Rename(c)
  BY <1>1 DEF IInv, Written, TypeOK, Newest, Rename
<1>2. CASE UNCHANGED file
  BY <1>2 DEF IInv, TypeOK, Contents
<1>3. (\E c \in Callers : Rename(c)) \/ UNCHANGED file
  BY DEF Next, CallNext, Change, Save, Delete, Flush, Marshal, WriteBegin, WriteEnd,
         FlushFails, Crash, Start, diskVars, vars
<1> QED BY <1>1, <1>2, <1>3

-----------------------------------------------------------------------------
(* The mutex is held by whoever flushes, and the file that load reads after a
   crash at any point is a whole one. *)
THEOREM TypeCorrect == Spec => []TypeOK
<1>1. IInv => TypeOK
  BY DEF IInv
<1> QED BY <1>1, InductiveInvariant, FileStoreAssumption, PTL

(* A Save or Delete that returned without error is on disk, whatever calls run
   beside it and wherever the process stops afterwards. *)
THEOREM ReturnedIsDurable == Spec => []Durable
<1>1. IInv => Durable
  BY DEF IInv
<1> QED BY <1>1, InductiveInvariant, FileStoreAssumption, PTL

(* A running process holds what was saved, across any number of restarts. *)
THEOREM RestartRemembers == Spec => []Remembers
<1>1. IInv => Remembers
  BY DEF IInv
<1> QED BY <1>1, InductiveInvariant, FileStoreAssumption, PTL

(* Calls that flush beside each other, fail or are cut off by a crash never
   put an older state of a task back into the file. *)
THEOREM NothingRolledBack == Spec => NoRollback
<1>1. IInv /\ Newest /\ [Next]_vars => \A i \in IDs : file'[i] >= file[i] \/ file'[i] = 0
  BY FileStoreAssumption, RollbackStep
<1>2. IInv /\ Newest /\ [Next]_vars
        => [\A i \in IDs : file'[i] >= file[i] \/ file'[i] = 0]_vars
  BY <1>1
<1> QED BY <1>2, InductiveInvariant, NewestInvariant, FileStoreAssumption, PTL DEF Spec, NoRollback
=============================================================================
