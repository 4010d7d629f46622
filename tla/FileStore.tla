------------------------------ MODULE FileStore ------------------------------
(***************************************************************************)
(* The record store (and the payment replay store) of one process: a map   *)
(* that is loaded from a JSON file by the first call and written back by a *)
(* chain of persist tasks, each of which saves the map as it is when the   *)
(* task runs.  A mutation is synchronous once the map is loaded; its       *)
(* caller is answered when the task it queued has renamed its file.        *)
(***************************************************************************)
EXTENDS Naturals, Sequences, FiniteSets

CONSTANTS Keys, Calls,
          MaxChanges,   \* bound on the changes of a key
          MaxFaults     \* bound: crashes, failing reads and failing writes

VARIABLES
    disk,     \* the file
    entries,  \* the map of the process
    load,     \* the shared load promise
    chain,    \* the calls whose persist tasks wait, the first one running
    temp,     \* what the running task has written beside the file
    call,     \* the calls in progress
    told,     \* history: the last change of each key a caller was told about
    seen,     \* history: the last answer of each call
    faults

vars == <<disk, entries, load, chain, temp, call, told, seen, faults>>

Absent == [n |-> 0, on |-> FALSE]
Empty == [k \in Keys |-> Absent]
Idle == [stage |-> "idle", upTo |-> [k \in Keys |-> 0]]
NoFile == <<>>

Init ==
    /\ disk = Empty
    /\ entries = Empty
    /\ load = "none"
    /\ chain = <<>>
    /\ temp = NoFile
    /\ call = [c \in Calls |-> Idle]
    /\ told = [k \in Keys |-> 0]
    /\ seen = [c \in Calls |-> Absent]
    /\ faults = 0

Fault == faults < MaxFaults /\ faults' = faults + 1

-----------------------------------------------------------------------------
(***************************************************************************)
(* Loading                                                                 *)
(***************************************************************************)
\* (slip) a flag is set before the file is read, so a second call goes on at once
LoadedAtOnce == "loaded"

\* The first call starts the read, the others share its promise.
LoadStarted == IF load = "none" THEN "reading" ELSE load

Arrive(c) ==
    /\ call[c].stage = "idle"
    /\ load' = LoadStarted
    /\ call' = [call EXCEPT ![c].stage = "loading"]
    /\ UNCHANGED <<disk, entries, chain, temp, told, seen, faults>>

\* Rows of the file become entries; a missing file is an empty map.
FileRead ==
    /\ load = "reading"
    /\ entries' = disk
    /\ load' = "loaded"
    /\ UNCHANGED <<disk, chain, temp, call, told, seen, faults>>

\* Any other error rejects the promise, which is kept: all calls fail until a restart.
FileUnreadable ==
    /\ load = "reading"
    /\ Fault
    /\ load' = "failed"
    /\ UNCHANGED <<disk, entries, chain, temp, call, told, seen>>

LoadThrows(c) ==
    /\ call[c].stage = "loading" /\ load = "failed"
    /\ call' = [call EXCEPT ![c] = Idle]
    /\ UNCHANGED <<disk, entries, load, chain, temp, told, seen, faults>>

Ready(c) == call[c].stage = "loading" /\ load = "loaded"

-----------------------------------------------------------------------------
(***************************************************************************)
(* The operations, once the map is loaded                                  *)
(***************************************************************************)
\* get, has, listPrefix, a setIfAbsent or consume that finds the key, a compare-and-set
\* that does not match, a delete or prune that finds nothing
Answered(c, k) ==
    /\ Ready(c)
    /\ seen' = [seen EXCEPT ![c] = entries[k]]
    /\ call' = [call EXCEPT ![c] = Idle]
    /\ UNCHANGED <<disk, entries, load, chain, temp, told, faults>>

Changed(r, on) == [n |-> r.n + 1, on |-> on]

\* A change of the keys K is queued behind the tasks of the chain.
Mutate(c, K, on) ==
    LET now == [k \in Keys |-> IF k \in K THEN Changed(entries[k], on) ELSE entries[k]] IN
    /\ Ready(c)
    /\ \A k \in K : entries[k].n < MaxChanges
    /\ entries' = now
    /\ chain' = Append(chain, c)
    /\ call' = [call EXCEPT ![c] = [stage |-> "persist",
                                    upTo |-> [k \in Keys |-> IF k \in K THEN now[k].n ELSE 0]]]
    /\ UNCHANGED <<disk, load, temp, told, seen, faults>>

\* set; compareAndSetState and compareAndSetFields when the record they expect is there
Set(c, k) == Mutate(c, {k}, TRUE)

\* setIfAbsent and consume
SetIfAbsent(c, k) == ~entries[k].on /\ Mutate(c, {k}, TRUE)

\* delete (one key) and prune (any number)
Remove(c, K) == (\A k \in K : entries[k].on) /\ Mutate(c, K, FALSE)

-----------------------------------------------------------------------------
(***************************************************************************)
(* The chain of persist tasks                                              *)
(***************************************************************************)
WriteTemp ==
    /\ chain # <<>> /\ temp = NoFile
    /\ temp' = <<entries>>
    /\ UNCHANGED <<disk, entries, load, chain, call, told, seen, faults>>

Later(m, n) == IF m > n THEN m ELSE n

\* rename, and the caller of the task is answered
Rename ==
    LET c == Head(chain) IN
    /\ temp # NoFile
    /\ disk' = temp[1]
    /\ temp' = NoFile
    /\ chain' = Tail(chain)
    /\ told' = [k \in Keys |-> Later(told[k], call[c].upTo[k])]
    /\ call' = [call EXCEPT ![c] = Idle]
    /\ UNCHANGED <<entries, load, seen, faults>>

\* mkdir, writeFile or rename fails: this caller gets the error, the chain goes on.  The change
\* stays in memory, and the next task will save it.
PersistFails ==
    LET c == Head(chain) IN
    /\ chain # <<>>
    /\ Fault
    /\ temp' = NoFile
    /\ chain' = Tail(chain)
    /\ call' = [call EXCEPT ![c] = Idle]
    /\ UNCHANGED <<disk, entries, load, told, seen>>

\* The process dies and is started again.
Restart ==
    /\ Fault
    /\ entries' = Empty /\ load' = "none" /\ chain' = <<>> /\ temp' = NoFile
    /\ call' = [c \in Calls |-> Idle]
    /\ UNCHANGED <<disk, told, seen>>

Next ==
    \/ \E c \in Calls :
          \/ Arrive(c) \/ LoadThrows(c)
          \/ \E k \in Keys : Answered(c, k) \/ Set(c, k) \/ SetIfAbsent(c, k)
          \/ \E K \in SUBSET Keys \ {{}} : Remove(c, K)
    \/ FileRead \/ FileUnreadable
    \/ WriteTemp \/ Rename \/ PersistFails \/ Restart

Spec == Init /\ [][Next]_vars

-----------------------------------------------------------------------------
\* The file store implements a durable map: a call that comes while the file is still being
\* read is not answered from an empty map, no answered change is lost by a crash or by a
\* write that fails, and a crash gives back the whole of an earlier state of each key.
Records == INSTANCE DurableRecords WITH
    store <- IF load = "loaded" THEN entries ELSE disk

RecordsImplemented == Records!Spec
===============================================================================
