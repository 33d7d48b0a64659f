------------------------------- MODULE NytMiner -------------------------------
(***************************************************************************)
(* BeginModule.StartModule of MovieMiner.Modules.NewYorkTimes: the loop    *)
(* over the dates from the storage's latest one to today.  Which storage   *)
(* it writes to is the composing module's: MinerRelease or MinerDebug.     *)
(* The clock runs on between any two steps.                                *)
(***************************************************************************)
EXTENDS Integers

CONSTANTS
    FirstDay,   \* the day the process is first started
    LastDay     \* bound: the clock stops here

ASSUME DaysAssumption == FirstDay \in Nat /\ LastDay \in Nat /\ FirstDay <= LastDay

VARIABLES
    nyt,        \* where StartModule is
    date,       \* the local variable date
    answered,   \* the day on which the answer for date arrived
    today,      \* DateTime.Today
    failed      \* history: the dates whose answer was refused or whose write
                \* returned false

nytVars == <<nyt, date, answered, today, failed>>

NytStates == {"idle", "checking", "asking", "writing", "ended", "faulted"}

BugStillToAsk == date < today
\* while (date <= DateTime.Today.Date)
StillToAsk == date <= today

BugDateAfter == date + 2
\* date = date.AddDays(1)
DateAfter == date + 1

\* storageClient.GetLatestDateFolderInStorage()
StartNyt(latest) ==
    /\ nyt = "idle"
    /\ nyt' = "checking"
    /\ date' = latest
    /\ UNCHANGED <<answered, today, failed>>

AskDate ==
    /\ nyt = "checking"
    /\ StillToAsk
    /\ nyt' = "asking"
    /\ UNCHANGED <<date, answered, today, failed>>

LoopEnds ==
    /\ nyt = "checking"
    /\ ~ StillToAsk
    /\ nyt' = "ended"
    /\ UNCHANGED <<date, answered, today, failed>>

\* The request, or the read of its body, throws: the task faults.
AnswerThrows ==
    /\ nyt = "asking"
    /\ nyt' = "faulted"
    /\ UNCHANGED <<date, answered, today, failed>>

\* No success status: on to the next date.
AnswerRefused ==
    /\ nyt = "asking"
    /\ nyt' = "checking"
    /\ date' = DateAfter
    /\ failed' = failed \cup {date}
    /\ UNCHANGED <<answered, today>>

AnswerArrives ==
    /\ nyt = "asking"
    /\ nyt' = "writing"
    /\ answered' = today
    /\ UNCHANGED <<date, today, failed>>

\* What WriteFileToStorageAsync returned is not looked at.
WriteReturns(success) ==
    /\ nyt = "writing"
    /\ nyt' = "checking"
    /\ date' = DateAfter
    /\ failed' = IF success THEN failed ELSE failed \cup {date}
    /\ UNCHANGED <<answered, today>>

\* The task has ended: Dispose.
DisposeNyt ==
    /\ nyt = "ended"
    /\ nyt' = "idle"
    /\ UNCHANGED <<date, answered, today, failed>>

\* The process is gone, and with it the local variables.
NytDies ==
    /\ nyt' = "idle"
    /\ UNCHANGED <<date, answered, today, failed>>

Midnight ==
    /\ today < LastDay
    /\ today' = today + 1
    /\ UNCHANGED <<nyt, date, answered, failed>>
===============================================================================
