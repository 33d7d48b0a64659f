------------------------------- MODULE WordCount -------------------------------
(***************************************************************************)
(* The two reducers of MapReduce, fed with the same lines:                 *)
(* WordCountReducer.py, which keeps one word at a time and needs its input *)
(* sorted, and omniReducer.py, which keeps a dictionary of all of them.    *)
(* They are two programs that never meet.  They read here in step, so that *)
(* what one has written can be compared with what the other knows.         *)
(***************************************************************************)
EXTENDS Integers, Sequences

CONSTANTS
    Word,       \* the words, which are never empty: strip() takes a leading tab away
    Count,      \* the texts that int() reads, as what they mean
    Malformed,  \* a text that int() does not read
    Missing,    \* no tab in the line
    None,       \* Python's
    MaxLines    \* bound: lines of the input

ASSUME CountAssumption == Count \subseteq Int /\ Malformed \notin Count /\ Missing \notin Count
ASSUME NoneAssumption == None \notin Word
ASSUME LinesAssumption == MaxLines \in Nat /\ Malformed # Missing

VARIABLES
    lines,          \* sys.stdin
    pos,            \* how many of them were read
    state,          \* reading, ended, or raised by an exception nobody catches
    word,           \* the variables of WordCountReducer.py ...
    current_word,
    current_count,
    out,            \* ... and what it wrote
    word2count      \* the dictionary of omniReducer.py, which it writes at its end

vars == <<lines, pos, state, word, current_word, current_count, out, word2count>>

Line == [word : Word, count : Count \union {Malformed, Missing}]

\* Hadoop sorts the lines by key before they are passed to the reducer.
Sorted(s) ==
    \A i, j, k \in 1 .. Len(s) :
        i < j /\ j < k /\ s[i].word = s[k].word => s[j].word = s[i].word

Init ==
    /\ \E n \in 0 .. MaxLines : lines \in [1 .. n -> Line]
    /\ Sorted(lines)
    /\ pos = 0
    /\ state = "reading"
    /\ word = None
    /\ current_word = None
    /\ current_count = 0
    /\ out = <<>>
    /\ word2count = [w \in {} |-> 0]

\* The line that is read next.
More == state = "reading" /\ pos < Len(lines)
This == lines[pos + 1]
-------------------------------------------------------------------------------
\* The unpacking of split raises, in both programs.
SplitRaises ==
    /\ More
    /\ This.count = Missing
    /\ pos' = pos + 1
    /\ state' = "raised"
    /\ UNCHANGED <<lines, word, current_word, current_count, out, word2count>>

\* A line whose count is no number is discarded, after word was assigned.
Discard ==
    /\ More
    /\ This.count = Malformed
    /\ pos' = pos + 1
    /\ word' = This.word
    /\ UNCHANGED <<lines, state, current_word, current_count, out, word2count>>

\* omniReducer.py: the count is added, or stored if the word is new.
AddedTo(d, w, n) ==
    [v \in DOMAIN d \union {w} |-> IF v # w THEN d[v] ELSE IF w \in DOMAIN d THEN d[w] + n ELSE n]

\* One more line of the current word.
SameWord ==
    /\ More
    /\ This.count \in Count
    /\ current_word = This.word
    /\ pos' = pos + 1
    /\ word' = This.word
    /\ current_count' = current_count + This.count
    /\ word2count' = AddedTo(word2count, This.word, This.count)
    /\ UNCHANGED <<lines, state, current_word, out>>

BugFirstCount(n) == current_count + n
FirstCount(n) == n

\* The first line of another word: the current one is written, if there is one.
OtherWord ==
    /\ More
    /\ This.count \in Count
    /\ current_word # This.word
    /\ pos' = pos + 1
    /\ word' = This.word
    /\ out' = IF current_word = None THEN out
              ELSE Append(out, [word |-> current_word, count |-> current_count])
    /\ current_count' = FirstCount(This.count)
    /\ current_word' = This.word
    /\ word2count' = AddedTo(word2count, This.word, This.count)
    /\ UNCHANGED <<lines, state>>

BugLastNeeded == FALSE
LastNeeded == current_word = word

\* The end of the input: the current word is written if it is also the last that was read,
\* and None is, if nothing was read.
EndOfInput ==
    /\ state = "reading"
    /\ pos = Len(lines)
    /\ out' = IF LastNeeded
              THEN Append(out, [word |-> current_word, count |-> current_count])
              ELSE out
    /\ state' = "ended"
    /\ UNCHANGED <<lines, pos, word, current_word, current_count, word2count>>

Next == SplitRaises \/ Discard \/ SameWord \/ OtherWord \/ EndOfInput

Spec == Init /\ [][Next]_vars
-------------------------------------------------------------------------------
\* What WordCountReducer.py writes for a word is what omniReducer.py has counted, while
\* it reads and when it has ended, and no word is written twice: sums are never cut short.
\* Only for an empty input is the None of its first assignment written as if it were a word.
SumsAgree ==
    /\ \A i \in 1 .. Len(out) :
           \/ out[i].word \in DOMAIN word2count /\ out[i].count = word2count[out[i].word]
           \/ out[i].word = None /\ lines = <<>>
    /\ \A i, j \in 1 .. Len(out) : out[i].word = out[j].word => i = j

\* At most one word that omniReducer.py counts is missing in the end: the last counted
\* one, and only if discarded lines of another word came after it.
OnlyLastMissing ==
    state = "ended" =>
        \A w \in DOMAIN word2count :
            \/ \E i \in 1 .. Len(out) : out[i].word = w
            \/ /\ w = current_word
               /\ lines[Len(lines)].count = Malformed
               /\ lines[Len(lines)].word # w

\* "do not forget to output the last word if needed!": every word that has a count is
\* written in the end.
LastWordWritten ==
    state = "ended" => \A w \in DOMAIN word2count : \E i \in 1 .. Len(out) : out[i].word = w
===============================================================================
