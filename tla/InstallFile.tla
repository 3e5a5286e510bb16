---------------------------- MODULE InstallFile ----------------------------
(***************************************************************************)
(* How checkpoints, model bundles and native artifacts reach their file:   *)
(* a new file beside the destination is written, synced and renamed over   *)
(* it, then the directory is synced.  transactionalWrite (Persistence.cpp) *)
(* opens one name, <destination>.tmp, exclusively; writeFileAtomically     *)
(* (NativeArtifacts.cpp) draws an unused name with mkstemp.  The rest of   *)
(* the two is the same code, so `style` is all that tells them apart.      *)
(*                                                                         *)
(* The file system is external: a crash keeps what was synced, and of the  *)
(* rest any part.  A write call's id is also the id of the file it makes.  *)
(***************************************************************************)
EXTENDS Integers, FiniteSets

CONSTANTS
    Writer,     \* processes or threads that write to the one destination
    Loader,     \* processes or threads that load it
    MaxWrites,  \* bound: write calls
    MaxCrashes  \* bound: crashes of the machine

ASSUME InstallAssumption == MaxWrites \in Nat \ {0} /\ MaxCrashes \in Nat

Call == 1..MaxWrites
Old == 0                  \* the file that was there before
File == Call \cup {Old}
NoFile == -1
Name == 1..MaxWrites      \* names of temporary files; <destination>.tmp is the first

VARIABLES
    style,        \* "exclusive" or "unique"
    destination,  \* the file that the destination names
    temporary,    \* the file that each temporary name names, or NoFile
    destinations, temporaries, \* the values these entries have had since the
                  \* directory was last synced: a crash restores one of them
    data,         \* what the file holds: "empty", "part" or "whole"
    synced,       \* files whose data survives a crash
    nextCall,     \* the next write call
    call, at, temp, \* of each writer: its call, the next step, its temporary name
    result,       \* of each call: "none", "success", "failed" or "installed"
    rank,         \* of each file: when it was renamed over the destination
    loaded,       \* the file that each loader has open
    crashes

writerVars == <<nextCall, call, at, temp, result>>
entries == <<destination, temporary, destinations, temporaries>>
vars == <<style, entries, data, synced, writerVars, rank, loaded, crashes>>

Idle(w) == at[w] = "idle"

Init ==
    /\ style \in {"exclusive", "unique"}
    /\ destination \in {Old, NoFile} /\ destinations = {destination}
    /\ temporary = [n \in Name |-> NoFile] /\ temporaries = [n \in Name |-> {NoFile}]
    /\ data = [f \in File |-> IF f = Old THEN "whole" ELSE "empty"]
    /\ synced = {Old}
    /\ nextCall = 1
    /\ call = [w \in Writer |-> 1] /\ at = [w \in Writer |-> "idle"]
    /\ temp = [w \in Writer |-> 1]
    /\ result = [c \in Call |-> "none"]
    /\ rank = [f \in File |-> 0]
    /\ loaded = [l \in Loader |-> NoFile]
    /\ crashes = 0

SetTemporary(n, file) ==
    /\ temporary' = [temporary EXCEPT ![n] = file]
    /\ temporaries' = [temporaries EXCEPT ![n] = @ \cup {file}]

(***************************************************************************)
(* A write call, one system call per step.                                 *)
(***************************************************************************)
Names == IF style = "exclusive" THEN {1} ELSE Name

\* Mutant of Creatable: the file is opened with O_TRUNC in place of O_EXCL.
CreatableAnyway(n) == TRUE

Creatable(n) == temporary[n] = NoFile

Create(w) ==
    /\ Idle(w) /\ nextCall \in Call
    /\ \E n \in Names :
        /\ Creatable(n)
        /\ temp' = [temp EXCEPT ![w] = n]
        /\ SetTemporary(n, nextCall)
    /\ call' = [call EXCEPT ![w] = nextCall]
    /\ at' = [at EXCEPT ![w] = "write"]
    /\ nextCall' = nextCall + 1
    /\ UNCHANGED <<style, destination, destinations, data, synced, result, rank, loaded,
                   crashes>>

\* No parent directory, a name that is taken, or any other refusal of open.
Refuse(w) ==
    /\ Idle(w) /\ nextCall \in Call
    /\ result' = [result EXCEPT ![nextCall] = "failed"]
    /\ nextCall' = nextCall + 1
    /\ UNCHANGED <<style, entries, data, synced, call, at, temp, rank, loaded, crashes>>

\* The loop over short writes and EINTR.
Write(w) ==
    /\ at[w] = "write"
    /\ \/ data' = [data EXCEPT ![call[w]] = "part"] /\ UNCHANGED at
       \/ /\ data' = [data EXCEPT ![call[w]] = "whole"]
          /\ at' = [at EXCEPT ![w] = "sync"]
    /\ UNCHANGED <<style, entries, synced, nextCall, call, temp, result, rank, loaded, crashes>>

\* Mutant of Synced: the data is left in the page cache.
SyncedNothing(f) == synced

Synced(f) == synced \cup {f}

Sync(w) ==
    /\ at[w] = "sync"
    /\ synced' = Synced(call[w])
    /\ at' = [at EXCEPT ![w] = "rename"]
    /\ UNCHANGED <<style, entries, data, nextCall, call, temp, result, rank, loaded, crashes>>

Return(w, r) ==
    /\ at' = [at EXCEPT ![w] = "idle"]
    /\ result' = [result EXCEPT ![call[w]] = r]

\* Mutant of RemoveTemporary: `fail` only closes the descriptor.
RemoveNothing(n) == UNCHANGED <<temporary, temporaries>>

RemoveTemporary(n) == SetTemporary(n, NoFile)

\* `fail`: write, fsync, close or rename reports an error.  The artifact writer's handler removes its
\* temporary by name once more; that another writer's mkstemp draws the freed name in between
\* is left out, and both are one step.
Fail(w) ==
    /\ at[w] \in {"write", "sync", "rename"}
    /\ RemoveTemporary(temp[w])
    /\ Return(w, "failed")
    /\ UNCHANGED <<style, destination, destinations, data, synced, nextCall, call, temp, rank,
                   loaded, crashes>>

\* rename acts on names: what is installed is what the temporary name names.
Rename(w) ==
    /\ at[w] = "rename" /\ temporary[temp[w]] # NoFile
    /\ destination' = temporary[temp[w]]
    /\ destinations' = destinations \cup {destination'}
    /\ SetTemporary(temp[w], NoFile)
    /\ rank' = [rank EXCEPT ![destination'] =
                    1 + Cardinality({f \in File : rank[f] > 0})]
    /\ at' = [at EXCEPT ![w] = "syncDirectory"]
    /\ UNCHANGED <<style, data, synced, nextCall, call, temp, result, loaded, crashes>>

\* Mutant of DirectorySynced: the descriptor is opened and closed, no more.
DirectoryOpened == UNCHANGED <<destinations, temporaries>>

DirectorySynced ==
    /\ destinations' = {destination}
    /\ temporaries' = [n \in Name |-> {temporary[n]}]

SyncDirectory(w) ==
    /\ at[w] = "syncDirectory"
    /\ DirectorySynced
    /\ Return(w, "success")
    /\ UNCHANGED <<style, destination, temporary, data, synced, nextCall, call, temp, rank,
                   loaded, crashes>>

\* Mutant of AfterRename: an error after the rename is an error like any other.
AfterRenameUnsaid == "failed"

\* "file installed but ...": an error all the same, that says what it left.
AfterRename == "installed"

SyncDirectoryFails(w) ==
    /\ at[w] = "syncDirectory"
    /\ Return(w, AfterRename)
    /\ UNCHANGED <<style, entries, data, synced, nextCall, call, temp, rank, loaded, crashes>>

(***************************************************************************)
(* Loaders, and the world outside.                                         *)
(***************************************************************************)
\* readFile opens the destination and reads that file, whatever is renamed meanwhile.
Load(l) ==
    /\ loaded' = [loaded EXCEPT ![l] = IF @ = NoFile THEN destination ELSE NoFile]
    /\ loaded' # loaded
    /\ UNCHANGED <<style, entries, data, synced, writerVars, rank, crashes>>

Crash ==
    /\ crashes < MaxCrashes
    /\ crashes' = crashes + 1
    /\ destination' \in destinations /\ destinations' = {destination'}
    /\ temporary' \in {e \in [Name -> File \cup {NoFile}] : \A n \in Name : e[n] \in temporaries[n]}
    /\ temporaries' = [n \in Name |-> {temporary'[n]}]
    /\ data' \in {d \in [File -> {"empty", "part", "whole"}] :
                    \A f \in File : f \in synced \/ data[f] = "empty" => d[f] = data[f]}
    /\ synced' = {f \in File : f < nextCall}  \* what is left of them is on the disk
    /\ at' = [w \in Writer |-> "idle"] /\ loaded' = [l \in Loader |-> NoFile]
    /\ UNCHANGED <<style, nextCall, call, temp, result, rank>>

\* Somebody removes what a crash left behind, with no writer at work.
CleanUp ==
    /\ \A w \in Writer : Idle(w)
    /\ \E n \in Name : temporary[n] # NoFile /\ SetTemporary(n, NoFile)
    /\ UNCHANGED <<style, destination, destinations, data, synced, writerVars, rank, loaded,
                   crashes>>

Next ==
    \/ \E w \in Writer :
        \/ Create(w) \/ Refuse(w) \/ Write(w) \/ Sync(w) \/ Fail(w) \/ Rename(w)
        \/ SyncDirectory(w) \/ SyncDirectoryFails(w)
    \/ \E l \in Loader : Load(l)
    \/ Crash \/ CleanUp

Spec == Init /\ [][Next]_vars

-----------------------------------------------------------------------------
\* The destination and whatever a loader has open is a whole file, through write
\* contention and through crashes ("corrupt output or successful invalid output fails").
DestinationWhole ==
    \A f \in {destination} \cup {loaded[l] : l \in Loader} : f # NoFile => data[f] = "whole"

\* Once a call has returned success, no crash brings back what it replaced.
SuccessIsDurable ==
    \A c \in Call : result[c] = "success" =>
        destination # NoFile /\ rank[destination] >= rank[c]

\* A call that reports plain failure never reached the destination; one that reports
\* success or "installed" did, with its own data.
ResultIsTrue ==
    \A c \in Call :
        /\ result[c] = "failed" => rank[c] = 0 /\ destination # c
        /\ result[c] \in {"success", "installed"} => rank[c] > 0

\* Only a crash leaves a temporary file behind; it is what can block later writes.
OnlyCrashLeavesTemporary ==
    crashes = 0 =>
        \A n \in Name : temporary[n] # NoFile =>
            \E w \in Writer : ~Idle(w) /\ temp[w] = n /\ call[w] = temporary[n]
=============================================================================
