----------------------------- MODULE LocalStorage -----------------------------
(***************************************************************************)
(* LocalStorageClient of MovieMiner, the storage of the debug build: a     *)
(* folder per date, with numbered files.  A write is several steps on the  *)
(* disk, and the process may end between any two of them.                  *)
(***************************************************************************)
EXTENDS Counts

CONSTANTS MinDate   \* _minimumDate, 2014-01-01

ASSUME MinDateAssumption == MinDate \in Nat

VARIABLES
    disk,     \* the folders: disk[d][n] tells whether file n of date d is whole
    cache,    \* _folderNamesCache
    number,   \* the number in the local variable fileName
    write     \* where WriteFileToStorageAsync is

localVars == <<disk, cache, number, write>>

WriteStates == {"idle", "naming", "opening", "streaming"}

\* "torn": the write of the file has begun, but it did not return true.
Contents == {"torn", "whole"}

HasFolder(d) == d \in DOMAIN disk
EmptyFolders == {d \in DOMAIN disk : DOMAIN disk[d] = {}}

Highest(S) == CHOOSE n \in S : \A m \in S : m <= n

BugOpenThrows == FALSE
\* On an empty folder, DateTime.Parse is given the whole path, which is no date.
OpenThrows == EmptyFolders # {}

BugNumberFound(d) == IF DOMAIN disk[d] = {} THEN 1 ELSE Highest(DOMAIN disk[d]) + 1
\* files.Max(...): the highest number there is, not the next one.
NumberFound(d) == IF DOMAIN disk[d] = {} THEN 1 ELSE Highest(DOMAIN disk[d])

\* The constructor.
OpenStorage ==
    /\ ~ OpenThrows
    /\ cache' = [d \in DOMAIN disk |-> NumberFound(d)]
    /\ UNCHANGED <<disk, number, write>>

BugIsLatestDate(d) == IF disk = NoCounts THEN d = MinDate ELSE HasFolder(d)
\* GetLatestDateFolderInStorage: the latest date itself, which is asked for again.
IsLatestDate(d) ==
    IF disk = NoCounts
      THEN d = MinDate
      ELSE HasFolder(d) /\ \A e \in DOMAIN disk : e <= d

\* The folder is there, or created.
EnsureFolder(d) ==
    /\ write = "idle"
    /\ disk' = IF HasFolder(d) THEN disk ELSE Put(disk, d, NoCounts)
    /\ write' = "naming"
    /\ UNCHANGED <<cache, number>>

\* _folderNamesCache[date], which is 1 if it is not there, and ++ on it.
TakeNumber(d) ==
    /\ write = "naming"
    /\ number' = IF d \in DOMAIN cache THEN cache[d] ELSE 1
    /\ cache' = Put(cache, d, number' + 1)
    /\ write' = "opening"
    /\ UNCHANGED disk

BugMayCreate(d) == TRUE
\* FileMode.CreateNew throws if the file exists.
MayCreate(d) == number \notin DOMAIN disk[d]

CreateFile(d) ==
    /\ write = "opening"
    /\ MayCreate(d)
    /\ disk' = [disk EXCEPT ![d] = Put(@, number, "torn")]
    /\ write' = "streaming"
    /\ UNCHANGED <<cache, number>>

\* WriteAsync has written all of it: true is returned.
FileWritten(d) ==
    /\ write = "streaming"
    /\ disk' = [disk EXCEPT ![d] = Put(@, number, "whole")]
    /\ write' = "idle"
    /\ UNCHANGED <<cache, number>>

\* The folder or the file cannot be created, or not be written to its end: false is
\* returned, and what is on the disk stays there.
WriteFails(d) ==
    /\ write \in {"opening", "streaming"} \/ (write = "idle" /\ ~ HasFolder(d))
    /\ write' = "idle"
    /\ UNCHANGED <<disk, cache, number>>

LocalDies ==
    /\ write' = "idle"
    /\ cache' = NoCounts
    /\ UNCHANGED <<disk, number>>
===============================================================================
