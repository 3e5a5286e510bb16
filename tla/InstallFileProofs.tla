-------------------------- MODULE InstallFileProofs --------------------------
(***************************************************************************)
(* Proofs of the safety properties of InstallFile, for every number of     *)
(* writers, loaders, write calls and crashes.                              *)
(*                                                                         *)
(* The argument rests on who may still write to a file.  A file belongs to *)
(* the one call that made it; until it is renamed over the destination no  *)
(* entry but the call's temporary name reaches it, and the rename comes    *)
(* after its data is whole and synced.  So nobody writes to a file that    *)
(* the destination names, has named since the directory was last synced,   *)
(* or that a loader has open.  For durability, the ranks are kept below    *)
(* the number of files that have one, so every rename takes the greatest.  *)
(***************************************************************************)
EXTENDS InstallFile, FiniteSetTheorems, TLAPS

Entry == File \cup {NoFile}

TypeOK ==
    /\ style \in {"exclusive", "unique"}
    /\ destination \in Entry /\ destinations \in SUBSET Entry
    /\ temporary \in [Name -> Entry] /\ temporaries \in [Name -> SUBSET Entry]
    /\ data \in [File -> {"empty", "part", "whole"}]
    /\ synced \in SUBSET File
    /\ nextCall \in 1..(MaxWrites + 1)
    /\ call \in [Writer -> Call]
    /\ at \in [Writer -> {"idle", "write", "sync", "rename", "syncDirectory"}]
    /\ temp \in [Writer -> Name]
    /\ result \in [Call -> {"none", "success", "failed", "installed"}]
    /\ rank \in [File -> Nat]
    /\ loaded \in [Loader -> Entry]
    /\ crashes \in Nat

\* The writer has a temporary file that it has not renamed.
Holds(w) == at[w] \in {"write", "sync", "rename"}

\* Writers at work have calls of their own, that have returned nothing.
CallsApart ==
    /\ \A w \in Writer : ~Idle(w) => call[w] < nextCall /\ result[call[w]] = "none"
    /\ \A v, w \in Writer : ~Idle(v) /\ ~Idle(w) /\ call[v] = call[w] => v = w

\* Nothing refers to the file of a call that has not been made.
NotYetCalled ==
    /\ \A c \in Call : c >= nextCall => result[c] = "none" /\ rank[c] = 0
    /\ \A n \in Name : \A f \in temporaries[n] : f < nextCall

\* A writer's temporary name names its file until it renames or removes it, and
\* before any crash nothing else is under a temporary name.
TemporariesHeld ==
    /\ \A n \in Name : temporary[n] \in temporaries[n]
    /\ \A w \in Writer : Holds(w) => temporary[temp[w]] = call[w] /\ rank[call[w]] = 0
    /\ crashes = 0 =>
         \A n \in Name : temporary[n] # NoFile => \E w \in Writer : Holds(w) /\ temp[w] = n

\* What a writer has done by the time it syncs, and by the time it renames.
WrittenInOrder ==
    \A w \in Writer :
        /\ at[w] \in {"sync", "rename"} => data[call[w]] = "whole"
        /\ at[w] = "rename" => call[w] \in synced

\* The files that a crash may put at the destination are whole and on the disk;
\* the files that loaders have open are whole.  All have been renamed.
InstalledIsWhole ==
    /\ destination \in destinations
    /\ \A f \in destinations : f # NoFile =>
            f < nextCall /\ (f = Old \/ rank[f] > 0) /\ data[f] = "whole" /\ f \in synced
    /\ \A l \in Loader : loaded[l] # NoFile =>
            (loaded[l] = Old \/ rank[loaded[l]] > 0) /\ data[loaded[l]] = "whole"

Ranked == {f \in File : rank[f] > 0}

\* So that 1 + Cardinality(Ranked), the next rank, is above them all.
RanksBounded == \A f \in File : rank[f] <= Cardinality(Ranked)

\* Nothing older than a writer that has renamed, or than a call that has
\* succeeded, is at the destination, or for the latter can come back to it.
LatestIsInstalled ==
    /\ \A w \in Writer : at[w] = "syncDirectory" =>
            rank[call[w]] > 0 /\ destination # NoFile /\ rank[destination] >= rank[call[w]]
    /\ \A c \in Call : result[c] = "success" =>
            \A f \in destinations : f # NoFile /\ rank[f] >= rank[c]

\* The results of the calls and the ranks of their files agree.
ResultsRanked ==
    \A c \in Call :
        /\ result[c] = "failed" => rank[c] = 0
        /\ result[c] \in {"success", "installed"} => rank[c] > 0

InstallInv ==
    /\ TypeOK /\ CallsApart /\ NotYetCalled /\ TemporariesHeld /\ WrittenInOrder
    /\ InstalledIsWhole /\ RanksBounded /\ LatestIsInstalled /\ ResultsRanked

\* The parts of the state that most of the actions leave alone.
Files == <<destination, destinations, data, synced, rank>>

-----------------------------------------------------------------------------
\* The ranked files are finitely many, so their number is a natural number.
LEMMA RankedFinite ==
    ASSUME TypeOK
    PROVE  IsFiniteSet(Ranked) /\ Cardinality(Ranked) \in Nat
<1>1. IsFiniteSet(Call)
  BY FS_Interval, InstallAssumption DEF Call
<1>2. IsFiniteSet(File)
  BY <1>1, FS_AddElement DEF File
<1> QED
  BY <1>2, FS_Subset, FS_CardinalityType DEF Ranked

\* A file that gets the next rank is above every other file, and the bound holds
\* of the new ranks (the rename).
LEMMA NextRankIsGreatest ==
    ASSUME TypeOK, RanksBounded, NEW c \in Call, rank[c] = 0,
           rank' = [rank EXCEPT ![c] = 1 + Cardinality(Ranked)]
    PROVE  /\ RanksBounded'
           /\ rank'[c] > 0
           /\ \A f \in File : rank'[f] <= rank'[c]
           /\ rank' \in [File -> Nat]
<1>1. IsFiniteSet(Ranked) /\ Cardinality(Ranked) \in Nat
  BY RankedFinite
<1>2. c \in File /\ c \notin Ranked
  BY DEF File, Ranked
<1>3. rank' \in [File -> Nat] /\ rank'[c] = 1 + Cardinality(Ranked)
  BY <1>1, <1>2 DEF TypeOK
<1>4. \A f \in File \ {c} : rank'[f] = rank[f]
  BY DEF TypeOK
<1>5. Ranked' = Ranked \cup {c}
  BY <1>1, <1>2, <1>3, <1>4 DEF Ranked
<1>6. Cardinality(Ranked') = Cardinality(Ranked) + 1
  BY <1>1, <1>2, <1>5, FS_AddElement
<1>7. \A f \in File : rank[f] \in Nat /\ rank[f] <= Cardinality(Ranked)
  BY DEF TypeOK, RanksBounded
<1>8. \A f \in File : rank'[f] <= 1 + Cardinality(Ranked)
  BY <1>1, <1>3, <1>4, <1>7
<1>9. RanksBounded'
  BY <1>6, <1>8, <1>1 DEF RanksBounded
<1> QED
  BY <1>1, <1>3, <1>8, <1>9

\* A holder's file is its own: no other writer's file, and nothing that a crash
\* may install or a loader has open.
LEMMA HoldersFileIsApart ==
    ASSUME InstallInv, NEW w \in Writer, Holds(w)
    PROVE  /\ call[w] \in Call /\ call[w] # Old /\ call[w] # NoFile
           /\ temp[w] \in Name
           /\ \A v \in Writer : v # w /\ ~Idle(v) => call[v] # call[w]
           /\ \A v \in Writer : v # w /\ Holds(v) => temp[v] # temp[w]
           /\ call[w] \notin destinations
           /\ \A l \in Loader : loaded[l] # call[w]
<1>1. call[w] \in Call /\ call[w] # Old /\ call[w] # NoFile /\ temp[w] \in Name
  BY InstallAssumption DEF InstallInv, TypeOK, Call, Old, NoFile
<1>2. ~Idle(w) /\ \A v \in Writer : Holds(v) => ~Idle(v)
  BY DEF Holds, Idle
<1>3. \A v \in Writer : v # w /\ ~Idle(v) => call[v] # call[w]
  BY <1>2 DEF InstallInv, CallsApart
<1>4. \A v \in Writer : v # w /\ Holds(v) => temp[v] # temp[w]
  BY <1>2, <1>3 DEF InstallInv, TemporariesHeld
<1>5. rank[call[w]] = 0
  BY DEF InstallInv, TemporariesHeld
<1> QED
  BY <1>1, <1>3, <1>4, <1>5 DEF InstallInv, InstalledIsWhole

-----------------------------------------------------------------------------
\* The invariant holds before the first call.
LEMMA InstallInit == Init => InstallInv
<1> SUFFICES ASSUME Init PROVE InstallInv
  OBVIOUS
<1>1. MaxWrites \in Nat /\ MaxWrites > 0 /\ 1 \in Call
  BY InstallAssumption DEF Call
<1>2. TypeOK
  BY <1>1 DEF Init, TypeOK, Entry, File, Name, Call, Old, NoFile
<1>3. CallsApart /\ WrittenInOrder
  BY DEF Init, CallsApart, WrittenInOrder, Idle
<1>4. NotYetCalled
  BY <1>1 DEF Init, NotYetCalled, Call, File, Name, NoFile
<1>5. TemporariesHeld
  BY DEF Init, TemporariesHeld, Holds
<1>6. InstalledIsWhole
  BY <1>1 DEF Init, InstalledIsWhole, File, Old, NoFile
<1>7. RanksBounded
  BY <1>2, RankedFinite DEF Init, RanksBounded
<1>8. LatestIsInstalled /\ ResultsRanked
  BY DEF Init, LatestIsInstalled, ResultsRanked
<1> QED
  BY <1>2, <1>3, <1>4, <1>5, <1>6, <1>7, <1>8 DEF InstallInv

\* Setting a temporary entry keeps the types of the two entry functions and
\* reaches no other name.
LEMMA TemporaryChanges ==
    ASSUME TypeOK, NEW n \in Name, NEW f \in Entry, SetTemporary(n, f)
    PROVE  /\ temporary' \in [Name -> Entry] /\ temporaries' \in [Name -> SUBSET Entry]
           /\ temporary'[n] = f /\ temporaries'[n] = temporaries[n] \cup {f}
           /\ \A m \in Name : m # n =>
                temporary'[m] = temporary[m] /\ temporaries'[m] = temporaries[m]
  BY DEF TypeOK, SetTemporary

\* Create: the new file is nobody's, and the name was free.
LEMMA CreateKeeps ==
    ASSUME InstallInv, NEW w \in Writer, Create(w)
    PROVE  InstallInv'
<1>1. PICK n \in Names : Creatable(n) /\ temp' = [temp EXCEPT ![w] = n] /\ SetTemporary(n, nextCall)
  BY DEF Create
<1>2. /\ Idle(w) /\ nextCall \in Call /\ nextCall' = nextCall + 1
      /\ call' = [call EXCEPT ![w] = nextCall] /\ at' = [at EXCEPT ![w] = "write"]
      /\ UNCHANGED <<style, Files, result, loaded, crashes>>
  BY DEF Create, Files
<1>3. n \in Name /\ nextCall \in Entry /\ nextCall \in Int /\ nextCall # NoFile
  BY <1>1, <1>2, InstallAssumption DEF Names, Name, Entry, File, Call, NoFile
<1>4. /\ temporary' \in [Name -> Entry] /\ temporaries' \in [Name -> SUBSET Entry]
      /\ temporary'[n] = nextCall /\ temporaries'[n] = temporaries[n] \cup {nextCall}
      /\ \A m \in Name : m # n =>
           temporary'[m] = temporary[m] /\ temporaries'[m] = temporaries[m]
  BY <1>1, <1>3, TemporaryChanges DEF InstallInv
<1>5. TypeOK'
  <2>1. nextCall' \in 1..(MaxWrites + 1)
    BY <1>2, InstallAssumption DEF Call
  <2> QED
    BY <1>1, <1>2, <1>3, <1>4, <2>1 DEF InstallInv, TypeOK, Files
<1>6. /\ call'[w] = nextCall /\ at'[w] = "write" /\ temp'[w] = n
      /\ \A v \in Writer : v # w => call'[v] = call[v] /\ at'[v] = at[v] /\ temp'[v] = temp[v]
  BY <1>1, <1>2 DEF InstallInv, TypeOK
<1>7. CallsApart'
  <2>1. \A v \in Writer : v # w /\ ~Idle(v) => call[v] < nextCall /\ call[v] # nextCall
    BY <1>3 DEF InstallInv, CallsApart, TypeOK, Call
  <2>2. \A v \in Writer : call[v] \in Int
    BY DEF InstallInv, TypeOK, Call
  <2>3. result[nextCall] = "none"
    BY <1>2, <1>3 DEF InstallInv, NotYetCalled
  <2> QED
    BY <1>2, <1>3, <1>6, <2>1, <2>2, <2>3 DEF InstallInv, CallsApart, Idle
<1>8. NotYetCalled'
  <2>1. \A c \in Call : c >= nextCall' => c >= nextCall
    BY <1>2, <1>3 DEF Call
  <2>2. \A m \in Name : \A f \in temporaries'[m] : f < nextCall \/ f = nextCall
    BY <1>3, <1>4 DEF InstallInv, NotYetCalled
  <2>3. \A m \in Name : \A f \in temporaries'[m] : f \in Int
    BY <1>4 DEF Entry, File, Call, Old, NoFile
  <2> QED
    BY <1>2, <1>3, <2>1, <2>2, <2>3 DEF InstallInv, NotYetCalled, Files
<1>9. TemporariesHeld'
  <2>1. \A m \in Name : temporary'[m] \in temporaries'[m]
    BY <1>4 DEF InstallInv, TemporariesHeld
  <2>2. temporary[n] = NoFile /\ rank[nextCall] = 0
    BY <1>1, <1>2, <1>3 DEF Creatable, InstallInv, NotYetCalled
  <2>3. \A v \in Writer : v # w /\ Holds(v) => temp[v] # n /\ temp[v] \in Name
    BY <2>2, HoldersFileIsApart DEF InstallInv, TemporariesHeld
  <2>4. \A v \in Writer : Holds(v)' => temporary'[temp'[v]] = call'[v] /\ rank'[call'[v]] = 0
    BY <1>2, <1>4, <1>6, <2>2, <2>3 DEF InstallInv, TemporariesHeld, Holds, Files
  <2>5. Holds(w)' /\ ~Holds(w) /\ \A v \in Writer : v # w => Holds(v)' = Holds(v)
    BY <1>2, <1>6 DEF Holds, Idle
  <2>6. crashes' = 0 =>
          \A m \in Name : temporary'[m] # NoFile => \E v \in Writer : Holds(v)' /\ temp'[v] = m
    <3> SUFFICES ASSUME crashes = 0, NEW m \in Name, temporary'[m] # NoFile
                 PROVE  \E v \in Writer : Holds(v)' /\ temp'[v] = m
      BY <1>2
    <3>1. CASE m = n
      BY <3>1, <1>6, <2>5
    <3>2. CASE m # n
      <4>1. PICK v \in Writer : Holds(v) /\ temp[v] = m
        BY <3>2, <1>4 DEF InstallInv, TemporariesHeld
      <4> QED
        BY <4>1, <1>6, <2>5
    <3> QED
      BY <3>1, <3>2
  <2> QED
    BY <2>1, <2>4, <2>6 DEF TemporariesHeld
<1>10. WrittenInOrder'
  BY <1>2, <1>6 DEF InstallInv, WrittenInOrder, Files
<1>11. InstalledIsWhole'
  <2>1. \A f \in destinations : f # NoFile => f < nextCall'
    BY <1>2, <1>3 DEF InstallInv, InstalledIsWhole, TypeOK, Entry, File, Call, Old, NoFile
  <2> QED
    BY <1>2, <2>1 DEF InstallInv, InstalledIsWhole, Files
<1>12. RanksBounded'
  BY <1>2 DEF InstallInv, RanksBounded, Ranked, Files
<1>13. LatestIsInstalled'
  BY <1>2, <1>6 DEF InstallInv, LatestIsInstalled, Files
<1>14. ResultsRanked'
  BY <1>2 DEF InstallInv, ResultsRanked, Files
<1> QED
  BY <1>5, <1>7, <1>8, <1>9, <1>10, <1>11, <1>12, <1>13, <1>14 DEF InstallInv

\* Refuse: only the call's result.
LEMMA RefuseKeeps ==
    ASSUME InstallInv, NEW w \in Writer, Refuse(w)
    PROVE  InstallInv'
<1>1. /\ nextCall \in Call /\ nextCall' = nextCall + 1
      /\ result' = [result EXCEPT ![nextCall] = "failed"]
      /\ UNCHANGED <<style, Files, temporary, temporaries, call, at, temp, loaded, crashes>>
  BY DEF Refuse, Files, entries
<1>2. nextCall \in Int /\ result[nextCall] = "none" /\ rank[nextCall] = 0
  BY <1>1 DEF InstallInv, NotYetCalled, Call
<1>3. result'[nextCall] = "failed" /\ \A c \in Call : c # nextCall => result'[c] = result[c]
  BY <1>1 DEF InstallInv, TypeOK
<1>4. TypeOK'
  <2>1. nextCall' \in 1..(MaxWrites + 1)
    BY <1>1, InstallAssumption DEF Call
  <2> QED
    BY <1>1, <2>1 DEF InstallInv, TypeOK, Files
<1>5. \A f \in Entry : f \in Int
  BY DEF Entry, File, Call, Old, NoFile
<1>6. CallsApart'
  <2>1. \A v \in Writer : ~Idle(v) => call[v] < nextCall /\ call[v] # nextCall /\ call[v] \in Call
    BY <1>2 DEF InstallInv, CallsApart, TypeOK, Call
  <2>2. \A v \in Writer : ~Idle(v) => call[v] < nextCall'
    BY <1>1, <1>2, <2>1 DEF Call
  <2> QED
    BY <1>1, <1>3, <2>1, <2>2 DEF InstallInv, CallsApart, Idle
<1>7. NotYetCalled'
  <2>1. \A c \in Call : c >= nextCall' => c >= nextCall /\ c # nextCall
    BY <1>1, <1>2 DEF Call
  <2>2. \A n \in Name : \A f \in temporaries[n] : f < nextCall'
    BY <1>1, <1>2, <1>5 DEF InstallInv, NotYetCalled, TypeOK
  <2> QED
    BY <1>1, <1>3, <2>1, <2>2 DEF InstallInv, NotYetCalled, Files
<1>8. TemporariesHeld' /\ WrittenInOrder'
  BY <1>1 DEF InstallInv, TemporariesHeld, WrittenInOrder, Holds, Files
<1>9. InstalledIsWhole'
  <2>1. \A f \in destinations : f # NoFile => f < nextCall'
    BY <1>1, <1>2, <1>5 DEF InstallInv, InstalledIsWhole, TypeOK
  <2> QED
    BY <1>1, <2>1 DEF InstallInv, InstalledIsWhole, Files
<1>10. RanksBounded'
  BY <1>1 DEF InstallInv, RanksBounded, Ranked, Files
<1>11. LatestIsInstalled' /\ ResultsRanked'
  BY <1>1, <1>2, <1>3 DEF InstallInv, LatestIsInstalled, ResultsRanked, Files
<1> QED
  BY <1>4, <1>6, <1>7, <1>8, <1>9, <1>10, <1>11 DEF InstallInv

\* Write: the file written is no file that the destination may name.
LEMMA WriteKeeps ==
    ASSUME InstallInv, NEW w \in Writer, Write(w)
    PROVE  InstallInv'
<1>1. /\ at[w] = "write"
      /\ UNCHANGED <<style, destination, temporary, destinations, temporaries, synced, nextCall,
                     call, temp, result, rank, loaded, crashes>>
      /\ \/ data' = [data EXCEPT ![call[w]] = "part"] /\ at' = at
         \/ data' = [data EXCEPT ![call[w]] = "whole"] /\ at' = [at EXCEPT ![w] = "sync"]
  BY DEF Write, entries
<1>2. Holds(w)
  BY <1>1 DEF Holds
<1>3. /\ call[w] \in File
      /\ \A v \in Writer : v # w /\ ~Idle(v) => call[v] # call[w]
      /\ call[w] \notin destinations
      /\ \A l \in Loader : loaded[l] # call[w]
  BY <1>2, HoldersFileIsApart DEF File
<1>4. \A f \in File : f # call[w] => data'[f] = data[f]
  BY <1>1, <1>3 DEF InstallInv, TypeOK
<1>5. TypeOK'
  BY <1>1 DEF InstallInv, TypeOK
<1>6. /\ \A v \in Writer : v # w => at'[v] = at[v]
      /\ \/ at'[w] = "write"
         \/ at'[w] = "sync" /\ data'[call[w]] = "whole"
  BY <1>1, <1>3 DEF InstallInv, TypeOK
<1>7. \A v \in Writer : Idle(v)' = Idle(v) /\ Holds(v)' = Holds(v)
  BY <1>1, <1>6 DEF Idle, Holds
<1>8. CallsApart' /\ NotYetCalled' /\ TemporariesHeld'
  BY <1>1, <1>7 DEF InstallInv, CallsApart, NotYetCalled, TemporariesHeld
<1>9. WrittenInOrder'
  <2>1. \A v \in Writer : v # w /\ at[v] \in {"sync", "rename"} => data'[call[v]] = data[call[v]]
    BY <1>3, <1>4 DEF InstallInv, TypeOK, Idle, File
  <2> QED
    BY <1>1, <1>6, <2>1 DEF InstallInv, WrittenInOrder
<1>10. InstalledIsWhole'
  <2>1. \A f \in destinations : f # NoFile => data'[f] = data[f]
    BY <1>3, <1>4 DEF InstallInv, TypeOK, Entry
  <2>2. \A l \in Loader : loaded[l] # NoFile => data'[loaded[l]] = data[loaded[l]]
    BY <1>3, <1>4 DEF InstallInv, TypeOK, Entry
  <2> QED
    BY <1>1, <2>1, <2>2 DEF InstallInv, InstalledIsWhole
<1>11. RanksBounded'
  BY <1>1 DEF InstallInv, RanksBounded, Ranked
<1>12. LatestIsInstalled' /\ ResultsRanked'
  BY <1>1, <1>6 DEF InstallInv, LatestIsInstalled, ResultsRanked
<1> QED
  BY <1>5, <1>8, <1>9, <1>10, <1>11, <1>12 DEF InstallInv

\* Sync: the file is whole by now, and a crash will keep it.
LEMMA SyncKeeps ==
    ASSUME InstallInv, NEW w \in Writer, Sync(w)
    PROVE  InstallInv'
<1>1. /\ at[w] = "sync" /\ at' = [at EXCEPT ![w] = "rename"] /\ synced' = synced \cup {call[w]}
      /\ UNCHANGED <<style, destination, temporary, destinations, temporaries, data, nextCall,
                     call, temp, result, rank, loaded, crashes>>
  BY DEF Sync, Synced, entries
<1>2. call[w] \in File
  BY DEF InstallInv, TypeOK, File
<1>3. TypeOK'
  BY <1>1, <1>2 DEF InstallInv, TypeOK
<1>4. at'[w] = "rename" /\ \A v \in Writer : v # w => at'[v] = at[v]
  BY <1>1 DEF InstallInv, TypeOK
<1>5. \A v \in Writer : Idle(v)' = Idle(v) /\ Holds(v)' = Holds(v)
  BY <1>1, <1>4 DEF Idle, Holds
<1>6. CallsApart' /\ NotYetCalled' /\ TemporariesHeld'
  BY <1>1, <1>5 DEF InstallInv, CallsApart, NotYetCalled, TemporariesHeld
<1>7. WrittenInOrder'
  BY <1>1, <1>4 DEF InstallInv, WrittenInOrder
<1>8. InstalledIsWhole'
  BY <1>1 DEF InstallInv, InstalledIsWhole
<1>9. RanksBounded'
  BY <1>1 DEF InstallInv, RanksBounded, Ranked
<1>10. LatestIsInstalled' /\ ResultsRanked'
  BY <1>1, <1>4 DEF InstallInv, LatestIsInstalled, ResultsRanked
<1> QED
  BY <1>3, <1>6, <1>7, <1>8, <1>9, <1>10 DEF InstallInv

\* Fail: the name removed is the writer's own; the call's file has no rank.
LEMMA FailKeeps ==
    ASSUME InstallInv, NEW w \in Writer, Fail(w)
    PROVE  InstallInv'
<1>1. /\ Holds(w) /\ SetTemporary(temp[w], NoFile)
      /\ at' = [at EXCEPT ![w] = "idle"] /\ result' = [result EXCEPT ![call[w]] = "failed"]
      /\ UNCHANGED <<style, Files, nextCall, call, temp, loaded, crashes>>
  BY DEF Fail, Holds, RemoveTemporary, Return, Files
<1>2. /\ call[w] \in Call /\ temp[w] \in Name /\ ~Idle(w) /\ rank[call[w]] = 0
      /\ \A v \in Writer : v # w /\ ~Idle(v) => call[v] # call[w]
      /\ \A v \in Writer : v # w /\ Holds(v) => temp[v] # temp[w]
  BY <1>1, HoldersFileIsApart DEF Holds, Idle, InstallInv, TemporariesHeld
<1>3. /\ temporary' \in [Name -> Entry] /\ temporaries' \in [Name -> SUBSET Entry]
      /\ temporary'[temp[w]] = NoFile /\ temporaries'[temp[w]] = temporaries[temp[w]] \cup {NoFile}
      /\ \A m \in Name : m # temp[w] =>
           temporary'[m] = temporary[m] /\ temporaries'[m] = temporaries[m]
  BY <1>1, <1>2, TemporaryChanges DEF InstallInv, Entry
<1>4. TypeOK'
  BY <1>1, <1>3 DEF InstallInv, TypeOK, Files
<1>5. /\ at'[w] = "idle" /\ \A v \in Writer : v # w => at'[v] = at[v]
      /\ result'[call[w]] = "failed" /\ \A c \in Call : c # call[w] => result'[c] = result[c]
  BY <1>1, <1>2 DEF InstallInv, TypeOK
<1>6. /\ Idle(w)' /\ ~Holds(w)'
      /\ \A v \in Writer : v # w => Idle(v)' = Idle(v) /\ Holds(v)' = Holds(v)
  BY <1>5 DEF Idle, Holds
<1>7. CallsApart'
  BY <1>1, <1>2, <1>5, <1>6 DEF InstallInv, CallsApart, TypeOK
<1>8. NotYetCalled'
  <2>1. \A c \in Call : c >= nextCall => c # call[w]
    BY <1>2 DEF InstallInv, CallsApart, TypeOK, Call
  <2>2. NoFile < nextCall
    BY DEF InstallInv, TypeOK, NoFile
  <2>3. \A m \in Name : \A f \in temporaries'[m] : f < nextCall
    BY <1>3, <2>2 DEF InstallInv, NotYetCalled
  <2> QED
    BY <1>1, <1>5, <2>1, <2>3 DEF InstallInv, NotYetCalled, Files
<1>9. TemporariesHeld'
  BY <1>1, <1>2, <1>3, <1>6 DEF InstallInv, TemporariesHeld, TypeOK, Files
<1>10. WrittenInOrder'
  BY <1>1, <1>5 DEF InstallInv, WrittenInOrder, Files
<1>11. InstalledIsWhole'
  BY <1>1 DEF InstallInv, InstalledIsWhole, Files
<1>12. RanksBounded'
  BY <1>1 DEF InstallInv, RanksBounded, Ranked, Files
<1>13. LatestIsInstalled' /\ ResultsRanked'
  BY <1>1, <1>2, <1>5 DEF InstallInv, LatestIsInstalled, ResultsRanked, Files
<1> QED
  BY <1>4, <1>7, <1>8, <1>9, <1>10, <1>11, <1>12, <1>13 DEF InstallInv

\* Rename: what the name names is the caller's file, whole and synced, and its
\* rank is the greatest.
LEMMA RenameKeeps ==
    ASSUME InstallInv, NEW w \in Writer, Rename(w)
    PROVE  InstallInv'
<1>1. /\ at[w] = "rename" /\ destination' = temporary[temp[w]]
      /\ destinations' = destinations \cup {destination'}
      /\ SetTemporary(temp[w], NoFile)
      /\ rank' = [rank EXCEPT ![destination'] = 1 + Cardinality(Ranked)]
      /\ at' = [at EXCEPT ![w] = "syncDirectory"]
      /\ UNCHANGED <<style, data, synced, nextCall, call, temp, result, loaded, crashes>>
  BY DEF Rename, Ranked
<1>2. /\ Holds(w) /\ ~Idle(w)
      /\ destination' = call[w] /\ rank[call[w]] = 0
  BY <1>1 DEF Holds, Idle, InstallInv, TemporariesHeld
<1>3. /\ call[w] \in Call /\ call[w] \in File /\ call[w] # NoFile /\ temp[w] \in Name
      /\ \A v \in Writer : v # w /\ ~Idle(v) => call[v] # call[w]
      /\ \A v \in Writer : v # w /\ Holds(v) => temp[v] # temp[w]
      /\ call[w] \notin destinations
      /\ \A l \in Loader : loaded[l] # call[w]
  BY <1>2, HoldersFileIsApart DEF File
<1>4. call[w] < nextCall /\ result[call[w]] = "none"
  BY <1>2 DEF InstallInv, CallsApart
<1>5. /\ RanksBounded' /\ rank'[call[w]] > 0
      /\ \A f \in File : rank'[f] <= rank'[call[w]]
      /\ rank' \in [File -> Nat]
  <2>1. rank' = [rank EXCEPT ![call[w]] = 1 + Cardinality(Ranked)]
    BY <1>1, <1>2
  <2> QED
    BY <2>1, <1>2, <1>3, NextRankIsGreatest DEF InstallInv
<1>6. \A f \in File : f # call[w] => rank'[f] = rank[f]
  BY <1>1, <1>2, <1>3 DEF InstallInv, TypeOK
<1>7. /\ temporary' \in [Name -> Entry] /\ temporaries' \in [Name -> SUBSET Entry]
      /\ temporary'[temp[w]] = NoFile /\ temporaries'[temp[w]] = temporaries[temp[w]] \cup {NoFile}
      /\ \A m \in Name : m # temp[w] =>
           temporary'[m] = temporary[m] /\ temporaries'[m] = temporaries[m]
  BY <1>1, <1>3, TemporaryChanges DEF InstallInv, Entry
<1>8. TypeOK'
  <2>1. destination' \in Entry /\ destinations' \in SUBSET Entry
    BY <1>1, <1>2, <1>3 DEF InstallInv, TypeOK, Entry
  <2> QED
    BY <1>1, <1>5, <1>7, <2>1 DEF InstallInv, TypeOK
<1>9. at'[w] = "syncDirectory" /\ \A v \in Writer : v # w => at'[v] = at[v]
  BY <1>1 DEF InstallInv, TypeOK
<1>10. /\ ~Idle(w)' /\ ~Holds(w)'
       /\ \A v \in Writer : v # w => Idle(v)' = Idle(v) /\ Holds(v)' = Holds(v)
  BY <1>9 DEF Idle, Holds
<1>11. CallsApart'
  BY <1>1, <1>2, <1>10 DEF InstallInv, CallsApart
<1>12. NotYetCalled'
  <2>1. \A c \in Call : c >= nextCall => c # call[w] /\ c \in File
    BY <1>3, <1>4 DEF InstallInv, TypeOK, Call, File
  <2>2. NoFile < nextCall
    BY DEF InstallInv, TypeOK, NoFile
  <2>3. \A m \in Name : \A f \in temporaries'[m] : f < nextCall
    BY <1>7, <2>2 DEF InstallInv, NotYetCalled
  <2> QED
    BY <1>1, <1>6, <2>1, <2>3 DEF InstallInv, NotYetCalled
<1>13. TemporariesHeld'
  <2>1. \A m \in Name : temporary'[m] \in temporaries'[m]
    BY <1>3, <1>7 DEF InstallInv, TemporariesHeld
  <2>2. \A v \in Writer : Holds(v)' => v # w /\ Holds(v) /\ ~Idle(v) /\ call[v] \in File
    BY <1>10 DEF InstallInv, TypeOK, File, Holds, Idle
  <2>3. \A v \in Writer : Holds(v)' => temporary'[temp[v]] = call[v] /\ rank'[call[v]] = 0
    BY <1>3, <1>6, <1>7, <2>2 DEF InstallInv, TypeOK, TemporariesHeld
  <2>4. crashes = 0 =>
          \A m \in Name : temporary'[m] # NoFile => \E v \in Writer : Holds(v)' /\ temp[v] = m
    BY <1>7, <1>10 DEF InstallInv, TemporariesHeld
  <2> QED
    BY <1>1, <2>1, <2>3, <2>4 DEF TemporariesHeld
<1>14. WrittenInOrder'
  BY <1>1, <1>9 DEF InstallInv, WrittenInOrder
<1>15. InstalledIsWhole'
  <2>1. data[call[w]] = "whole" /\ call[w] \in synced
    BY <1>1 DEF InstallInv, WrittenInOrder
  <2>2. \A f \in destinations : f # NoFile => f \in File /\ f # call[w]
    BY <1>3 DEF InstallInv, TypeOK, Entry
  <2>3. \A l \in Loader : loaded[l] # NoFile => loaded[l] \in File /\ loaded[l] # call[w]
    BY <1>3 DEF InstallInv, TypeOK, Entry
  <2> QED
    BY <1>1, <1>2, <1>4, <1>5, <1>6, <2>1, <2>2, <2>3 DEF InstallInv, InstalledIsWhole
<1>16. LatestIsInstalled'
  <2>1. \A v \in Writer : v # w /\ at[v] = "syncDirectory" => rank'[call[v]] = rank[call[v]]
    BY <1>3, <1>6 DEF InstallInv, TypeOK, Idle, File
  <2>2. \A v \in Writer : call[v] \in File
    BY DEF InstallInv, TypeOK, File
  <2>3. \A v \in Writer : at'[v] = "syncDirectory" =>
          rank'[call[v]] > 0 /\ destination' # NoFile /\ rank'[destination'] >= rank'[call[v]]
    BY <1>2, <1>3, <1>5, <1>9, <2>1, <2>2 DEF InstallInv, LatestIsInstalled
  <2>4. \A c \in Call : result[c] = "success" => c \in File /\ rank'[c] = rank[c]
    BY <1>4, <1>6 DEF File
  <2>5. \A c \in Call : result[c] = "success" =>
          \A f \in destinations : f # NoFile /\ rank'[f] >= rank'[c]
    BY <1>3, <1>6, <2>4 DEF InstallInv, TypeOK, LatestIsInstalled, Entry
  <2>6. \A c \in Call : result[c] = "success" => rank'[call[w]] >= rank'[c]
    BY <1>3, <1>5, <2>4
  <2> QED
    BY <1>1, <1>2, <1>3, <2>3, <2>5, <2>6 DEF LatestIsInstalled
<1>17. ResultsRanked'
  <2>1. \A c \in Call : c # call[w] => rank'[c] = rank[c]
    BY <1>6 DEF File
  <2> QED
    BY <1>1, <1>4, <2>1 DEF InstallInv, ResultsRanked
<1> QED
  BY <1>5, <1>8, <1>11, <1>12, <1>13, <1>14, <1>15, <1>16, <1>17 DEF InstallInv

\* A call that ends after its rename, with either result.
LEMMA ReturnKeeps ==
    ASSUME InstallInv, NEW w \in Writer, at[w] = "syncDirectory",
           NEW r \in {"success", "installed"}, Return(w, r),
           UNCHANGED <<style, destination, data, synced, nextCall, call, temp, rank, loaded,
                       temporary, crashes>>,
           /\ destination \in destinations' /\ destinations' \subseteq destinations
           /\ temporaries' \in [Name -> SUBSET Entry]
           /\ \A n \in Name : temporary[n] \in temporaries'[n]
                              /\ temporaries'[n] \subseteq temporaries[n],
           r = "success" => destinations' = {destination}
    PROVE  InstallInv'
<1>1. call[w] \in Call /\ ~Idle(w) /\ ~Holds(w)
  BY DEF InstallInv, TypeOK, Idle, Holds
<1>2. /\ at'[w] = "idle" /\ \A v \in Writer : v # w => at'[v] = at[v]
      /\ result'[call[w]] = r /\ \A c \in Call : c # call[w] => result'[c] = result[c]
      /\ at' \in [Writer -> {"idle", "write", "sync", "rename", "syncDirectory"}]
      /\ result' \in [Call -> {"none", "success", "failed", "installed"}]
  BY <1>1 DEF InstallInv, TypeOK, Return
<1>3. TypeOK'
  BY <1>2 DEF InstallInv, TypeOK
<1>4. /\ Idle(w)' /\ ~Holds(w)'
      /\ \A v \in Writer : v # w => Idle(v)' = Idle(v) /\ Holds(v)' = Holds(v)
  BY <1>2 DEF Idle, Holds
<1>5. CallsApart'
  BY <1>1, <1>2, <1>4 DEF InstallInv, CallsApart, TypeOK
<1>6. NotYetCalled'
  <2>1. \A c \in Call : c >= nextCall => c # call[w]
    BY <1>1 DEF InstallInv, CallsApart, TypeOK, Call
  <2> QED
    BY <1>2, <2>1 DEF InstallInv, NotYetCalled
<1>7. TemporariesHeld'
  BY <1>1, <1>4 DEF InstallInv, TemporariesHeld
<1>8. WrittenInOrder'
  BY <1>2 DEF InstallInv, WrittenInOrder
<1>9. InstalledIsWhole'
  BY DEF InstallInv, InstalledIsWhole
<1>10. RanksBounded'
  BY DEF InstallInv, RanksBounded, Ranked
<1>11. LatestIsInstalled'
  <2>1. rank[call[w]] > 0 /\ destination # NoFile /\ rank[destination] >= rank[call[w]]
    BY DEF InstallInv, LatestIsInstalled
  <2> QED
    BY <1>1, <1>2, <2>1 DEF InstallInv, LatestIsInstalled
<1>12. ResultsRanked'
  BY <1>1, <1>2 DEF InstallInv, ResultsRanked, LatestIsInstalled
<1> QED
  BY <1>3, <1>5, <1>6, <1>7, <1>8, <1>9, <1>10, <1>11, <1>12 DEF InstallInv

\* SyncDirectory: what a crash may bring back shrinks to what is there.
LEMMA SyncDirectoryKeeps ==
    ASSUME InstallInv, NEW w \in Writer, SyncDirectory(w)
    PROVE  InstallInv'
<1>1. /\ at[w] = "syncDirectory" /\ Return(w, "success") /\ destinations' = {destination}
      /\ temporaries' = [n \in Name |-> {temporary[n]}]
      /\ UNCHANGED <<style, destination, data, synced, nextCall, call, temp, rank, loaded,
                     temporary, crashes>>
  BY DEF SyncDirectory, DirectorySynced
<1>2. destinations' \subseteq destinations
  BY <1>1 DEF InstallInv, InstalledIsWhole
<1>3. /\ temporaries' \in [Name -> SUBSET Entry]
      /\ \A n \in Name : temporary[n] \in temporaries'[n]
                         /\ temporaries'[n] \subseteq temporaries[n]
  BY <1>1 DEF InstallInv, TypeOK, TemporariesHeld
<1> QED
  BY <1>1, <1>2, <1>3, ReturnKeeps

\* SyncDirectoryFails: nothing becomes durable, and the result does not say so.
LEMMA SyncDirectoryFailsKeeps ==
    ASSUME InstallInv, NEW w \in Writer, SyncDirectoryFails(w)
    PROVE  InstallInv'
<1>1. /\ at[w] = "syncDirectory" /\ Return(w, "installed")
      /\ UNCHANGED <<style, destination, data, synced, nextCall, call, temp, rank, loaded,
                     temporary, crashes>>
      /\ destinations' = destinations /\ temporaries' = temporaries
  BY DEF SyncDirectoryFails, AfterRename, entries
<1>2. /\ destination \in destinations' /\ temporaries' \in [Name -> SUBSET Entry]
      /\ \A n \in Name : temporary[n] \in temporaries'[n]
  BY <1>1 DEF InstallInv, TypeOK, InstalledIsWhole, TemporariesHeld
<1> QED
  BY <1>1, <1>2, ReturnKeeps

\* Load: a loader opens what is at the destination.
LEMMA LoadKeeps ==
    ASSUME InstallInv, NEW l \in Loader, Load(l)
    PROVE  InstallInv'
<1>1. /\ loaded' = [loaded EXCEPT ![l] = IF @ = NoFile THEN destination ELSE NoFile]
      /\ UNCHANGED <<style, destination, temporary, destinations, temporaries, data, synced,
                     nextCall, call, at, temp, result, rank, crashes>>
  BY DEF Load, entries, writerVars
<1>2. TypeOK'
  BY <1>1 DEF InstallInv, TypeOK, Entry
<1>3. InstalledIsWhole'
  BY <1>1 DEF InstallInv, TypeOK, InstalledIsWhole
<1>4. CallsApart' /\ NotYetCalled' /\ TemporariesHeld' /\ WrittenInOrder'
  BY <1>1 DEF InstallInv, CallsApart, NotYetCalled, TemporariesHeld, WrittenInOrder, Idle, Holds
<1>5. RanksBounded' /\ LatestIsInstalled' /\ ResultsRanked'
  BY <1>1 DEF InstallInv, RanksBounded, Ranked, LatestIsInstalled, ResultsRanked
<1> QED
  BY <1>2, <1>3, <1>4, <1>5 DEF InstallInv

\* Crash: what comes back at the destination was synced before it was renamed.
LEMMA CrashKeeps ==
    ASSUME InstallInv, Crash
    PROVE  InstallInv'
<1>1. /\ crashes' = crashes + 1
      /\ destination' \in destinations /\ destinations' = {destination'}
      /\ temporary' \in [Name -> Entry] /\ \A n \in Name : temporary'[n] \in temporaries[n]
      /\ temporaries' = [n \in Name |-> {temporary'[n]}]
      /\ data' \in [File -> {"empty", "part", "whole"}]
      /\ \A f \in File : f \in synced => data'[f] = data[f]
      /\ synced' = {f \in File : f < nextCall}
      /\ at' = [v \in Writer |-> "idle"] /\ loaded' = [l \in Loader |-> NoFile]
      /\ UNCHANGED <<style, nextCall, call, temp, result, rank>>
  BY DEF Crash, Entry
<1>2. TypeOK'
  BY <1>1 DEF InstallInv, TypeOK, Entry
<1>3. \A w \in Writer : at'[w] = "idle" /\ Idle(w)' /\ ~Holds(w)'
  BY <1>1 DEF Idle, Holds
<1>4. CallsApart' /\ WrittenInOrder'
  BY <1>3 DEF CallsApart, WrittenInOrder
<1>5. NotYetCalled'
  BY <1>1 DEF InstallInv, NotYetCalled
<1>6. TemporariesHeld'
  <2>1. crashes' # 0
    BY <1>1 DEF InstallInv, TypeOK
  <2> QED
    BY <1>1, <1>3, <2>1 DEF TemporariesHeld
<1>7. InstalledIsWhole'
  <2>1. \A f \in destinations : f # NoFile => f \in File
    BY DEF InstallInv, TypeOK, Entry
  <2> QED
    BY <1>1, <2>1 DEF InstallInv, InstalledIsWhole
<1>8. RanksBounded' /\ ResultsRanked'
  BY <1>1 DEF InstallInv, RanksBounded, Ranked, ResultsRanked
<1>9. LatestIsInstalled'
  BY <1>1, <1>3 DEF InstallInv, LatestIsInstalled
<1> QED
  BY <1>2, <1>4, <1>5, <1>6, <1>7, <1>8, <1>9 DEF InstallInv

\* CleanUp: only names that nobody uses are freed.
LEMMA CleanUpKeeps ==
    ASSUME InstallInv, CleanUp
    PROVE  InstallInv'
<1>1. PICK n \in Name : SetTemporary(n, NoFile)
  BY DEF CleanUp
<1>2. /\ \A w \in Writer : Idle(w) /\ ~Holds(w)
      /\ UNCHANGED <<style, Files, nextCall, call, at, temp, result, loaded, crashes>>
  BY DEF CleanUp, Files, writerVars, Idle, Holds
<1>3. /\ temporary' \in [Name -> Entry] /\ temporaries' \in [Name -> SUBSET Entry]
      /\ temporary'[n] = NoFile /\ temporaries'[n] = temporaries[n] \cup {NoFile}
      /\ \A m \in Name : m # n =>
           temporary'[m] = temporary[m] /\ temporaries'[m] = temporaries[m]
  BY <1>1, TemporaryChanges DEF InstallInv, Entry
<1>4. TypeOK'
  BY <1>2, <1>3 DEF InstallInv, TypeOK, Files
<1>5. \A w \in Writer : Idle(w)' /\ ~Holds(w)'
  BY <1>2 DEF Idle, Holds
<1>6. CallsApart' /\ WrittenInOrder'
  BY <1>2, <1>5 DEF InstallInv, CallsApart, WrittenInOrder, Files
<1>7. NotYetCalled'
  <2>1. NoFile < nextCall
    BY DEF InstallInv, TypeOK, NoFile
  <2> QED
    BY <1>2, <1>3, <2>1 DEF InstallInv, NotYetCalled, Files
<1>8. TemporariesHeld'
  BY <1>2, <1>3, <1>5 DEF InstallInv, TemporariesHeld
<1>9. InstalledIsWhole'
  BY <1>2 DEF InstallInv, InstalledIsWhole, Files
<1>10. RanksBounded' /\ LatestIsInstalled' /\ ResultsRanked'
  BY <1>2 DEF InstallInv, RanksBounded, Ranked, LatestIsInstalled, ResultsRanked, Files
<1> QED
  BY <1>4, <1>6, <1>7, <1>8, <1>9, <1>10 DEF InstallInv

-----------------------------------------------------------------------------
\* Every step keeps the invariant: one case per action.
LEMMA InstallStep == InstallInv /\ [Next]_vars => InstallInv'
<1> SUFFICES ASSUME InstallInv, [Next]_vars PROVE InstallInv'
  OBVIOUS
<1>1. ASSUME NEW w \in Writer, Create(w) PROVE InstallInv'
  BY <1>1, CreateKeeps
<1>2. ASSUME NEW w \in Writer, Refuse(w) PROVE InstallInv'
  BY <1>2, RefuseKeeps
<1>3. ASSUME NEW w \in Writer, Write(w) PROVE InstallInv'
  BY <1>3, WriteKeeps
<1>4. ASSUME NEW w \in Writer, Sync(w) PROVE InstallInv'
  BY <1>4, SyncKeeps
<1>5. ASSUME NEW w \in Writer, Fail(w) PROVE InstallInv'
  BY <1>5, FailKeeps
<1>6. ASSUME NEW w \in Writer, Rename(w) PROVE InstallInv'
  BY <1>6, RenameKeeps
<1>7. ASSUME NEW w \in Writer, SyncDirectory(w) PROVE InstallInv'
  BY <1>7, SyncDirectoryKeeps
<1>8. ASSUME NEW w \in Writer, SyncDirectoryFails(w) PROVE InstallInv'
  BY <1>8, SyncDirectoryFailsKeeps
<1>9. ASSUME NEW l \in Loader, Load(l) PROVE InstallInv'
  BY <1>9, LoadKeeps
<1>10. CASE Crash
  BY <1>10, CrashKeeps
<1>11. CASE CleanUp
  BY <1>11, CleanUpKeeps
<1>12. CASE UNCHANGED vars
  <2>1. UNCHANGED <<style, Files, temporary, temporaries, nextCall, call, at, temp, result,
                    loaded, crashes>>
    BY <1>12 DEF vars, entries, writerVars, Files
  <2>2. TypeOK' /\ InstalledIsWhole'
    BY <2>1 DEF InstallInv, TypeOK, InstalledIsWhole, Files
  <2>3. CallsApart' /\ NotYetCalled' /\ TemporariesHeld' /\ WrittenInOrder'
    BY <2>1 DEF InstallInv, CallsApart, NotYetCalled, TemporariesHeld, WrittenInOrder, Idle,
                Holds, Files
  <2>4. RanksBounded' /\ LatestIsInstalled' /\ ResultsRanked'
    BY <2>1 DEF InstallInv, RanksBounded, Ranked, LatestIsInstalled, ResultsRanked, Files
  <2> QED
    BY <2>2, <2>3, <2>4 DEF InstallInv
<1> QED
  BY <1>1, <1>2, <1>3, <1>4, <1>5, <1>6, <1>7, <1>8, <1>9, <1>10, <1>11, <1>12 DEF Next

\* The inductive invariant holds in every reachable state.
LEMMA InstallInvariant == Spec => []InstallInv
<1> QED
  BY InstallInit, InstallStep, PTL DEF Spec

\* A reader of the destination, and a reader that opened it before a replacement,
\* sees a whole file: under contention, failed calls and any number of crashes.
THEOREM WholeFiles == Spec => []DestinationWhole
<1>1. InstallInv => DestinationWhole
  BY DEF InstallInv, InstalledIsWhole, DestinationWhole
<1> QED
  BY <1>1, InstallInvariant, PTL

\* A call returns success only after the directory is synced, so that no crash
\* brings back a file older than the one it installed.
THEOREM Durability == Spec => []SuccessIsDurable
<1>1. InstallInv => SuccessIsDurable
  BY DEF InstallInv, InstalledIsWhole, LatestIsInstalled, SuccessIsDurable
<1> QED
  BY <1>1, InstallInvariant, PTL

\* A plain failure means that the destination was not touched by the call; every
\* other result, that the call's own file was installed.
THEOREM TrueResults == Spec => []ResultIsTrue
<1>1. InstallInv => ResultIsTrue
  <2> SUFFICES ASSUME InstallInv, NEW c \in Call PROVE
          /\ result[c] = "failed" => rank[c] = 0 /\ destination # c
          /\ result[c] \in {"success", "installed"} => rank[c] > 0
    BY DEF ResultIsTrue
  <2>1. c # Old /\ c # NoFile
    BY InstallAssumption DEF Call, Old, NoFile
  <2>2. destination = c => rank[c] > 0
    BY <2>1 DEF InstallInv, InstalledIsWhole
  <2> QED
    BY <2>2 DEF InstallInv, ResultsRanked
<1> QED
  BY <1>1, InstallInvariant, PTL

\* No path of a call that returns leaves its temporary file, so that only a
\* crash can make the name of later calls taken.
THEOREM TemporariesRemoved == Spec => []OnlyCrashLeavesTemporary
<1>1. InstallInv => OnlyCrashLeavesTemporary
  BY DEF InstallInv, TemporariesHeld, OnlyCrashLeavesTemporary, Holds, Idle
<1> QED
  BY <1>1, InstallInvariant, PTL
=============================================================================
