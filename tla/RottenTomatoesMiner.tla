------------------------- MODULE RottenTomatoesMiner -------------------------
(***************************************************************************)
(* BeginModule.StartModule of MovieMiner.Modules.RottenTomatoes: one query *)
(* for each letter, from the first one.  What a write does is left to the  *)
(* composing module: the debug build's storage cannot do it.               *)
(***************************************************************************)
EXTENDS Integers

CONSTANTS Letters   \* the number of letters, 'A' being 1 and 'Z' Letters

ASSUME LettersAssumption == Letters \in Nat /\ Letters >= 2

VARIABLES
    rt,         \* where StartModule is
    letter,     \* the local variable letter
    rtFailed    \* history: the letters of this run that were refused or whose
                \* write returned false

rtVars == <<rt, letter, rtFailed>>

RtStates == {"idle", "asking", "writing", "ended", "faulted"}

StartRt ==
    /\ rt = "idle"
    /\ rt' = "asking"
    /\ letter' = 1
    /\ rtFailed' = {}

BugMoreLettersAlways == TRUE
BugMoreLetters == letter + 1 < Letters - 1
\* while (letter != 'Z'), after letter++
MoreLetters == letter + 1 # Letters

\* The end of the loop's body.
NextLetter ==
    /\ letter' = letter + 1
    /\ rt' = IF MoreLetters THEN "asking" ELSE "ended"

RtAnswerThrows ==
    /\ rt = "asking"
    /\ rt' = "faulted"
    /\ UNCHANGED <<letter, rtFailed>>

RtAnswerRefused ==
    /\ rt = "asking"
    /\ NextLetter
    /\ rtFailed' = rtFailed \cup {letter}

RtAnswerArrives ==
    /\ rt = "asking"
    /\ rt' = "writing"
    /\ UNCHANGED <<letter, rtFailed>>

RtWriteReturns(success) ==
    /\ rt = "writing"
    /\ NextLetter
    /\ rtFailed' = IF success THEN rtFailed ELSE rtFailed \cup {letter}

BugAfterWriteThrows == "ended"
\* Nothing catches what the write throws.
AfterWriteThrows == "faulted"

RtWriteThrows ==
    /\ rt = "writing"
    /\ rt' = AfterWriteThrows
    /\ UNCHANGED <<letter, rtFailed>>

DisposeRt ==
    /\ rt = "ended"
    /\ rt' = "idle"
    /\ UNCHANGED <<letter, rtFailed>>

RtDies ==
    /\ rt' = "idle"
    /\ UNCHANGED <<letter, rtFailed>>
===============================================================================
