---------------------------- MODULE WordCountProofs ----------------------------
(***************************************************************************)
(* WordCount for every sorted input over any set of words: what the        *)
(* reducer that keeps one word writes, against the one that keeps all.     *)
(***************************************************************************)
EXTENDS WordCount, SequenceTheorems, TLAPS

\* The programs' variables hold words, numbers and pairs of them.
Types ==
    /\ lines \in Seq(Line) /\ Sorted(lines)
    /\ pos \in 0 .. Len(lines)
    /\ state \in {"reading", "ended", "raised"}
    /\ word \in Word \union {None}
    /\ current_word \in Word \union {None}
    /\ current_count \in Int
    /\ out \in Seq([word : Word \union {None}, count : Int])
    /\ DOMAIN word2count \subseteq Word
    /\ word2count \in [DOMAIN word2count -> Int]

\* Of the words counted so far the current one is the last: all were read up to a line
\* that has it, so that in a sorted input none but the current one can come again.
CurrentIsLast ==
    /\ current_word = None => word2count = [w \in {} |-> 0]
    /\ current_word # None =>
           /\ current_word \in DOMAIN word2count
           /\ current_count = word2count[current_word]
           /\ \E l \in 1 .. pos :
                  /\ lines[l].word = current_word
                  /\ \A w \in DOMAIN word2count : \E i \in 1 .. l : lines[i].word = w

\* The words written are those counted but the current one, each once and with its sum.
Written ==
    /\ \A i \in 1 .. Len(out) :
           /\ out[i].word \in DOMAIN word2count \ {current_word}
           /\ out[i].count = word2count[out[i].word]
    /\ \A i, j \in 1 .. Len(out) : out[i].word = out[j].word => i = j
    /\ \A w \in DOMAIN word2count \ {current_word} : \E i \in 1 .. Len(out) : out[i].word = w

\* The word read last, and the current one if it was counted.
WordRead ==
    /\ pos = 0 => word = None /\ current_word = None
    /\ pos > 0 /\ state = "reading" =>
           /\ word = lines[pos].word
           /\ lines[pos].count # Missing
           /\ lines[pos].count \in Count => current_word = word

Reading == CurrentIsLast /\ Written /\ WordRead

IInv ==
    /\ Types
    /\ state # "ended" => Reading
    /\ SumsAgree
    /\ OnlyLastMissing
-------------------------------------------------------------------------------
\* Init establishes the inductive invariant: nothing is read, counted or written.
LEMMA InitIInv == Init => IInv
  <1>. SUFFICES ASSUME Init
                PROVE  IInv
    OBVIOUS
  <1>1. lines \in Seq(Line)
    <2>1. PICK n \in 0 .. MaxLines : lines \in [1 .. n -> Line]
      BY DEF Init
    <2>2. n \in Nat
      BY <2>1, LinesAssumption
    <2>. QED  BY <2>1, <2>2
  <1>2. Len(lines) \in Nat /\ Len(out) = 0
    BY <1>1 DEF Init
  <1>3. /\ DOMAIN word2count = {} /\ word2count \in [DOMAIN word2count -> Int]
        /\ out \in Seq([word : Word \union {None}, count : Int])
    BY DEF Init
  <1>4. Types
    BY <1>1, <1>2, <1>3 DEF Init, Types
  <1>5. Reading
    BY <1>2, <1>3 DEF Init, Reading, CurrentIsLast, Written, WordRead
  <1>6. SumsAgree /\ OnlyLastMissing
    BY <1>2, <1>3 DEF Init, SumsAgree, OnlyLastMissing
  <1>. QED  BY <1>4, <1>5, <1>6 DEF IInv

\* The line that is read next is a line.
LEMMA ThisLine ==
    ASSUME Types, More
    PROVE  /\ pos + 1 \in 1 .. Len(lines) /\ pos + 1 \in Nat /\ pos \in Nat
           /\ This \in Line /\ This.word \in Word /\ This.word # None
           /\ This = lines[pos + 1]
  <1>1. pos + 1 \in 1 .. Len(lines) /\ pos \in Nat
    BY DEF Types, More
  <1>2. This \in Line
    BY <1>1 DEF Types, This
  <1>. QED  BY <1>1, <1>2, NoneAssumption DEF Line, This

\* While it reads, what is known of the words written gives what they agree with.
LEMMA ReadingAgrees == Types /\ state # "ended" /\ Reading => SumsAgree /\ OnlyLastMissing
  BY DEF Reading, Written, SumsAgree, OnlyLastMissing

\* The dictionary after one more count of w.
LEMMA Added ==
    ASSUME NEW d, d \in [DOMAIN d -> Int], DOMAIN d \subseteq Word, NEW w \in Word, NEW n \in Int
    PROVE  /\ DOMAIN AddedTo(d, w, n) = DOMAIN d \union {w}
           /\ AddedTo(d, w, n) \in [DOMAIN AddedTo(d, w, n) -> Int]
           /\ \A v \in DOMAIN d : v # w => AddedTo(d, w, n)[v] = d[v]
           /\ w \in DOMAIN d => AddedTo(d, w, n)[w] = d[w] + n
           /\ w \notin DOMAIN d => AddedTo(d, w, n)[w] = n
  BY DEF AddedTo

\* The same for a word that was counted: no word comes in.
LEMMA AddedAgain ==
    ASSUME NEW d, d \in [DOMAIN d -> Int], NEW w \in DOMAIN d, NEW n \in Int
    PROVE  /\ DOMAIN AddedTo(d, w, n) = DOMAIN d
           /\ AddedTo(d, w, n) \in [DOMAIN AddedTo(d, w, n) -> Int]
           /\ \A v \in DOMAIN d : v # w => AddedTo(d, w, n)[v] = d[v]
           /\ AddedTo(d, w, n)[w] = d[w] + n
  <1>1. DOMAIN d \union {w} = DOMAIN d
    OBVIOUS
  <1>. QED  BY <1>1 DEF AddedTo

\* A discarded line moves the last word read and nothing else.
LEMMA DiscardIInv == IInv /\ Discard => IInv'
  <1>. SUFFICES ASSUME IInv, Discard
                PROVE  IInv'
    OBVIOUS
  <1>1. /\ Types /\ Reading /\ More /\ state = "reading"
        /\ pos' = pos + 1 /\ word' = This.word /\ This.count = Malformed
        /\ UNCHANGED <<lines, state, current_word, current_count, out, word2count>>
    BY DEF IInv, Discard, More
  <1>2. Types'
    BY <1>1, ThisLine DEF Types
  <1>3. CurrentIsLast'
    <2>1. ASSUME NEW l \in 1 .. pos
          PROVE  l \in 1 .. pos'
      BY <1>1, ThisLine, <2>1
    <2>. QED  BY <1>1, <2>1 DEF Reading, CurrentIsLast
  <1>4. Written'
    BY <1>1 DEF Reading, Written
  <1>5. WordRead'
    BY <1>1, ThisLine, LinesAssumption, CountAssumption DEF WordRead
  <1>6. SumsAgree' /\ OnlyLastMissing'
    BY <1>1, <1>2, <1>4 DEF Written, SumsAgree, OnlyLastMissing
  <1>. QED  BY <1>2, <1>3, <1>4, <1>5, <1>6 DEF IInv, Reading

\* One more line of the current word changes its sum in both programs alike.
LEMMA SameWordIInv == IInv /\ SameWord => IInv'
  <1>. SUFFICES ASSUME IInv, SameWord
                PROVE  IInv'
    OBVIOUS
  <1>1. /\ Types /\ Reading /\ More /\ state = "reading"
        /\ pos' = pos + 1 /\ word' = This.word /\ This.count \in Count
        /\ current_word = This.word /\ current_count' = current_count + This.count
        /\ word2count' = AddedTo(word2count, This.word, This.count)
        /\ UNCHANGED <<lines, state, current_word, out>>
    BY DEF IInv, SameWord, More
  <1>2. /\ This.word \in Word /\ current_word # None /\ This.count \in Int
        /\ current_word \in DOMAIN word2count /\ current_count = word2count[current_word]
    BY <1>1, ThisLine, CountAssumption DEF Reading, CurrentIsLast
  <1>3. /\ DOMAIN word2count' = DOMAIN word2count
        /\ word2count' \in [DOMAIN word2count' -> Int]
        /\ \A v \in DOMAIN word2count : v # current_word => word2count'[v] = word2count[v]
        /\ word2count'[current_word] = word2count[current_word] + This.count
    <2>1. word2count \in [DOMAIN word2count -> Int] /\ DOMAIN word2count \subseteq Word
      BY <1>1 DEF Types
    <2>2. This.word \in DOMAIN word2count
      BY <1>1, <1>2
    <2>. DEFINE w == This.word
                n == This.count
    <2>3. w \in DOMAIN word2count /\ n \in Int /\ current_word = w
          /\ word2count' = AddedTo(word2count, w, n)
      BY <1>1, <1>2, <2>2
    <2>. HIDE DEF w, n
    <2>4. /\ DOMAIN word2count' = DOMAIN word2count
          /\ word2count' \in [DOMAIN word2count' -> Int]
          /\ \A v \in DOMAIN word2count : v # w => word2count'[v] = word2count[v]
          /\ word2count'[w] = word2count[w] + n
      BY <2>1, <2>3, AddedAgain
    <2>. QED  BY <2>3, <2>4 DEF n
  <1>4. Types'
    BY <1>1, <1>2, <1>3, ThisLine DEF Types
  <1>5. CurrentIsLast'
    <2>1. ASSUME NEW l \in 1 .. pos
          PROVE  l \in 1 .. pos'
      BY <1>1, ThisLine, <2>1
    <2>. QED  BY <1>1, <1>2, <1>3, <2>1 DEF Reading, CurrentIsLast
  <1>6. Written'
    BY <1>1, <1>3 DEF Reading, Written
  <1>7. WordRead'
    BY <1>1, ThisLine, CountAssumption DEF WordRead
  <1>8. SumsAgree' /\ OnlyLastMissing'
    BY <1>1, <1>6 DEF Written, SumsAgree, OnlyLastMissing
  <1>. QED  BY <1>4, <1>5, <1>6, <1>7, <1>8 DEF IInv, Reading

\* Another word was not counted before: between two lines of it there is no other word.
LEMMA OtherIsNew ==
    ASSUME Types, Reading, More, current_word # This.word
    PROVE  This.word \notin DOMAIN word2count
  <1>. SUFFICES ASSUME This.word \in DOMAIN word2count
                PROVE  FALSE
    OBVIOUS
  <1>1. current_word # None
    <2>1. DOMAIN [w \in {} |-> 0] = {}
      OBVIOUS
    <2>. QED  BY <2>1 DEF Reading, CurrentIsLast
  <1>2. PICK l \in 1 .. pos : /\ lines[l].word = current_word
                              /\ \E i \in 1 .. l : lines[i].word = This.word
    BY <1>1 DEF Reading, CurrentIsLast
  <1>3. PICK i \in 1 .. l : lines[i].word = lines[pos + 1].word
    BY <1>2 DEF This
  <1>4. /\ i \in 1 .. Len(lines) /\ l \in 1 .. Len(lines) /\ pos + 1 \in 1 .. Len(lines)
        /\ i <= l /\ l < pos + 1 /\ i \in Int /\ l \in Int
    <2>1. pos \in Nat /\ pos + 1 \in 1 .. Len(lines)
      BY ThisLine
    <2>2. Len(lines) \in Nat
      BY DEF Types
    <2>. HIDE DEF More, This
    <2>. QED  BY <2>1, <2>2
  <1>5. i # l
    BY <1>2, <1>3 DEF This
  <1>6. \A a, b, c \in 1 .. Len(lines) :
            a < b /\ b < c /\ lines[a].word = lines[c].word => lines[b].word = lines[a].word
    BY DEF Types, Sorted
  <1>7. i < l
    BY <1>4, <1>5
  <1>8. lines[l].word = lines[i].word
    BY <1>3, <1>4, <1>6, <1>7
  <1>. QED  BY <1>2, <1>3, <1>8 DEF This

\* Another word: the current one is written with its sum, and the new one is counted.
LEMMA OtherWordIInv == IInv /\ OtherWord => IInv'
  <1>. SUFFICES ASSUME IInv, OtherWord
                PROVE  IInv'
    OBVIOUS
  <1>. DEFINE pair == [word |-> current_word, count |-> current_count]
  <1>1. /\ Types /\ Reading /\ More /\ state = "reading"
        /\ pos' = pos + 1 /\ word' = This.word /\ This.count \in Count
        /\ current_word # This.word /\ current_word' = This.word
        /\ current_count' = This.count
        /\ out' = IF current_word = None THEN out ELSE Append(out, pair)
        /\ word2count' = AddedTo(word2count, This.word, This.count)
        /\ UNCHANGED <<lines, state>>
    BY DEF IInv, OtherWord, More, FirstCount
  <1>2. This.word \in Word /\ This.count \in Int /\ This.word \notin DOMAIN word2count
    BY <1>1, ThisLine, OtherIsNew, CountAssumption
  <1>3. /\ DOMAIN word2count' = DOMAIN word2count \union {This.word}
        /\ word2count' \in [DOMAIN word2count' -> Int]
        /\ \A v \in DOMAIN word2count : word2count'[v] = word2count[v]
        /\ word2count'[This.word] = This.count
    <2>1. word2count \in [DOMAIN word2count -> Int] /\ DOMAIN word2count \subseteq Word
      BY <1>1 DEF Types
    <2>2. word2count' = AddedTo(word2count, This.word, This.count)
      BY <1>1
    <2>3. \A v \in DOMAIN word2count : v # This.word
      BY <1>2
    <2>4. /\ DOMAIN word2count' = DOMAIN word2count \union {This.word}
          /\ word2count' \in [DOMAIN word2count' -> Int]
          /\ \A v \in DOMAIN word2count : v # This.word => word2count'[v] = word2count[v]
          /\ word2count'[This.word] = This.count
      <3>. DEFINE d == AddedTo(word2count, This.word, This.count)
      <3>1. /\ DOMAIN d = DOMAIN word2count \union {This.word}
            /\ d \in [DOMAIN d -> Int]
            /\ \A v \in DOMAIN word2count : v # This.word => d[v] = word2count[v]
            /\ d[This.word] = This.count
        BY <1>2, <2>1, Added
      <3>. QED  BY <2>2, <3>1
    <2>. QED  BY <2>3, <2>4
  <1>4. Types'
    <2>1. out' \in Seq([word : Word \union {None}, count : Int])
      <3>1. pair \in [word : Word \union {None}, count : Int]
        BY <1>1 DEF Types
      <3>2. out \in Seq([word : Word \union {None}, count : Int])
        BY <1>1 DEF Types
      <3>. HIDE DEF pair
      <3>3. Append(out, pair) \in Seq([word : Word \union {None}, count : Int])
        BY <3>1, <3>2, AppendProperties
      <3>. QED  BY <1>1, <3>2, <3>3
    <2>. QED  BY <1>1, <1>2, <1>3, <2>1, ThisLine DEF Types
  <1>5. CurrentIsLast'
    <2>1. current_word' # None /\ current_word' \in DOMAIN word2count'
          /\ current_count' = word2count'[current_word']
      BY <1>1, <1>2, <1>3, ThisLine
    <2>2. ASSUME NEW w \in DOMAIN word2count'
          PROVE  \E i \in 1 .. pos + 1 : lines[i].word = w
      <3>1. CASE w = This.word
        BY <1>1, <3>1, ThisLine
      <3>2. CASE w \in DOMAIN word2count
        <4>1. current_word # None
          <5>1. DOMAIN [v \in {} |-> 0] = {}
            OBVIOUS
          <5>. QED  BY <1>1, <3>2, <5>1 DEF Reading, CurrentIsLast
        <4>2. PICK l \in 1 .. pos : \E i \in 1 .. l : lines[i].word = w
          BY <1>1, <3>2, <4>1 DEF Reading, CurrentIsLast
        <4>3. \A i \in 1 .. l : i \in 1 .. pos + 1
          BY <1>1, <4>2, ThisLine
        <4>. QED  BY <4>2, <4>3
      <3>. QED  BY <1>3, <3>1, <3>2
    <2>3. pos + 1 \in 1 .. pos' /\ lines[pos + 1].word = current_word'
      BY <1>1, ThisLine
    <2>. QED  BY <1>1, <2>1, <2>2, <2>3 DEF CurrentIsLast
  <1>6. Written'
    <2>1. CASE current_word = None
      <3>1. DOMAIN word2count = {}
        BY <1>1, <2>1 DEF Reading, CurrentIsLast
      <3>2. DOMAIN word2count' \ {current_word'} = {} /\ out' = out /\ Len(out) \in Nat
        BY <1>1, <1>3, <2>1, <3>1 DEF Types
      <3>. QED  BY <1>1, <3>1, <3>2 DEF Reading, Written
    <2>2. CASE current_word # None
      <3>1. /\ current_word \in DOMAIN word2count
            /\ current_count = word2count[current_word]
        BY <1>1, <2>2 DEF Reading, CurrentIsLast
      <3>2. /\ out \in Seq([word : Word \union {None}, count : Int])
            /\ pair \in [word : Word \union {None}, count : Int]
            /\ out' = Append(out, pair) /\ Len(out) \in Nat
        BY <1>1, <2>2 DEF Types
      <3>3. /\ Len(out') = Len(out) + 1
            /\ out'[Len(out) + 1] = pair
            /\ \A i \in 1 .. Len(out) : out'[i] = out[i]
        BY <3>2
      <3>4. DOMAIN word2count' \ {current_word'} = DOMAIN word2count
        BY <1>1, <1>2, <1>3
      <3>5. pair.word = current_word /\ pair.count = current_count
        OBVIOUS
      <3>6. \A i \in 1 .. Len(out) : /\ out[i].word \in DOMAIN word2count \ {current_word}
                                     /\ out[i].count = word2count[out[i].word]
        BY <1>1 DEF Reading, Written
      <3>. HIDE DEF pair
      <3>7. ASSUME NEW i \in 1 .. Len(out')
            PROVE  /\ out'[i].word \in DOMAIN word2count
                   /\ out'[i].count = word2count'[out'[i].word]
        <4>1. CASE i \in 1 .. Len(out)
          BY <1>3, <3>3, <3>6, <4>1
        <4>2. CASE i = Len(out) + 1
          BY <1>3, <3>1, <3>3, <3>5, <4>2
        <4>. QED  BY <3>2, <3>3, <3>7, <4>1, <4>2
      <3>8. ASSUME NEW i \in 1 .. Len(out'), NEW j \in 1 .. Len(out'),
                   out'[i].word = out'[j].word
            PROVE  i = j
        <4>1. CASE i \in 1 .. Len(out) /\ j \in 1 .. Len(out)
          BY <1>1, <3>3, <3>8, <4>1 DEF Reading, Written
        <4>2. CASE i \in 1 .. Len(out) /\ j = Len(out) + 1
          BY <3>3, <3>5, <3>6, <3>8, <4>2
        <4>3. CASE i = Len(out) + 1 /\ j \in 1 .. Len(out)
          BY <3>3, <3>5, <3>6, <3>8, <4>3
        <4>4. CASE i = Len(out) + 1 /\ j = Len(out) + 1
          BY <4>4
        <4>. QED  BY <3>2, <3>3, <3>8, <4>1, <4>2, <4>3, <4>4
      <3>9. ASSUME NEW w \in DOMAIN word2count
            PROVE  \E i \in 1 .. Len(out') : out'[i].word = w
        <4>1. CASE w = current_word
          <5>1. Len(out) + 1 \in 1 .. Len(out')
            BY <3>2, <3>3
          <5>. QED  BY <3>3, <3>5, <4>1, <5>1
        <4>2. CASE w # current_word
          <5>1. PICK i \in 1 .. Len(out) : out[i].word = w
            BY <1>1, <4>2 DEF Reading, Written
          <5>2. i \in 1 .. Len(out')
            BY <3>2, <3>3
          <5>. QED  BY <3>3, <5>1, <5>2
        <4>. QED  BY <4>1, <4>2
      <3>. QED  BY <3>4, <3>7, <3>8, <3>9 DEF Written
    <2>. QED  BY <2>1, <2>2
  <1>7. WordRead'
    BY <1>1, ThisLine, CountAssumption DEF WordRead
  <1>8. SumsAgree' /\ OnlyLastMissing'
    BY <1>1, <1>6 DEF Written, SumsAgree, OnlyLastMissing
  <1>. QED  BY <1>4, <1>5, <1>6, <1>7, <1>8 DEF IInv, Reading

\* A line with no tab stops both programs: what was written stays true.
LEMMA SplitRaisesIInv == IInv /\ SplitRaises => IInv'
  <1>. SUFFICES ASSUME IInv, SplitRaises
                PROVE  IInv'
    OBVIOUS
  <1>1. /\ Types /\ Reading /\ More /\ state = "reading" /\ state' = "raised"
        /\ pos' = pos + 1
        /\ UNCHANGED <<lines, word, current_word, current_count, out, word2count>>
    BY DEF IInv, SplitRaises, More
  <1>2. Types'
    BY <1>1, ThisLine DEF Types
  <1>3. CurrentIsLast'
    <2>1. ASSUME NEW l \in 1 .. pos
          PROVE  l \in 1 .. pos'
      BY <1>1, ThisLine, <2>1
    <2>. QED  BY <1>1, <2>1 DEF Reading, CurrentIsLast
  <1>4. Written' /\ WordRead'
    BY <1>1, ThisLine DEF Reading, Written, WordRead
  <1>5. SumsAgree' /\ OnlyLastMissing'
    BY <1>1, <1>4 DEF Written, SumsAgree, OnlyLastMissing
  <1>. QED  BY <1>2, <1>3, <1>4, <1>5 DEF IInv, Reading

\* The end writes the current word, or None for an empty input, unless a discarded line of
\* another word was the last.
LEMMA EndIInv == IInv /\ EndOfInput => IInv'
  <1>. SUFFICES ASSUME IInv, EndOfInput
                PROVE  IInv'
    OBVIOUS
  <1>. DEFINE pair == [word |-> current_word, count |-> current_count]
  <1>1. /\ Types /\ Reading /\ SumsAgree /\ state = "reading" /\ state' = "ended"
        /\ pos = Len(lines) /\ Len(lines) \in Nat
        /\ out' = IF current_word = word THEN Append(out, pair) ELSE out
        /\ UNCHANGED <<lines, pos, word, current_word, current_count, word2count>>
    BY DEF IInv, EndOfInput, LastNeeded, Types
  <1>2. /\ out \in Seq([word : Word \union {None}, count : Int]) /\ Len(out) \in Nat
        /\ pair \in [word : Word \union {None}, count : Int]
        /\ pair.word = current_word /\ pair.count = current_count
    BY <1>1 DEF Types
  <1>. HIDE DEF pair
  <1>3. Types'
    <2>1. Append(out, pair) \in Seq([word : Word \union {None}, count : Int])
      BY <1>2, AppendProperties
    <2>2. out' \in Seq([word : Word \union {None}, count : Int])
      BY <1>1, <1>2, <2>1
    <2>. QED  BY <1>1, <2>2 DEF Types
  <1>4. \A i \in 1 .. Len(out) : /\ out[i].word \in DOMAIN word2count \ {current_word}
                                 /\ out[i].count = word2count[out[i].word]
    BY <1>1 DEF Reading, Written
  <1>5. \A i, j \in 1 .. Len(out) : out[i].word = out[j].word => i = j
    BY <1>1 DEF Reading, Written
  <1>6. \A w \in DOMAIN word2count \ {current_word} : \E i \in 1 .. Len(out) : out[i].word = w
    BY <1>1 DEF Reading, Written
  <1>7. CASE current_word = word
    <2>1. /\ out' = Append(out, pair)
          /\ Len(out') = Len(out) + 1
          /\ out'[Len(out) + 1] = pair
          /\ \A i \in 1 .. Len(out) : out'[i] = out[i]
      BY <1>1, <1>2, <1>7, AppendProperties
    <2>2. \/ current_word \in DOMAIN word2count /\ current_count = word2count[current_word]
          \/ current_word = None /\ lines = <<>>
      <3>1. CASE current_word # None
        BY <1>1, <3>1 DEF Reading, CurrentIsLast
      <3>2. CASE current_word = None
        <4>1. pos = 0
          <5>. SUFFICES ASSUME pos # 0
                        PROVE  FALSE
            OBVIOUS
          <5>1. pos > 0 /\ pos \in 1 .. Len(lines)
            BY <1>1
          <5>2. word = lines[pos].word
            BY <1>1, <5>1 DEF Reading, WordRead
          <5>3. lines[pos] \in Line
            BY <1>1, <5>1 DEF Types
          <5>. QED  BY <1>7, <3>2, <5>2, <5>3, NoneAssumption DEF Line
        <4>2. lines \in Seq(Line) /\ Len(lines) = 0
          BY <1>1, <4>1 DEF Types
        <4>. QED  BY <3>2, <4>2, EmptySeq
      <3>. QED  BY <3>1, <3>2
    <2>3. ASSUME NEW i \in 1 .. Len(out')
          PROVE  \/ /\ out'[i].word \in DOMAIN word2count
                    /\ out'[i].count = word2count[out'[i].word]
                 \/ out'[i].word = None /\ lines = <<>>
      <3>1. CASE i \in 1 .. Len(out)
        BY <1>4, <2>1, <3>1
      <3>2. CASE i = Len(out) + 1
        BY <1>2, <2>1, <2>2, <3>2
      <3>. QED  BY <1>2, <2>1, <2>3, <3>1, <3>2
    <2>4. ASSUME NEW i \in 1 .. Len(out'), NEW j \in 1 .. Len(out'),
                 out'[i].word = out'[j].word
          PROVE  i = j
      <3>1. CASE i \in 1 .. Len(out) /\ j \in 1 .. Len(out)
        BY <1>5, <2>1, <2>4, <3>1
      <3>2. CASE i \in 1 .. Len(out) /\ j = Len(out) + 1
        BY <1>2, <1>4, <2>1, <2>4, <3>2
      <3>3. CASE i = Len(out) + 1 /\ j \in 1 .. Len(out)
        BY <1>2, <1>4, <2>1, <2>4, <3>3
      <3>4. CASE i = Len(out) + 1 /\ j = Len(out) + 1
        BY <3>4
      <3>. QED  BY <1>2, <2>1, <2>4, <3>1, <3>2, <3>3, <3>4
    <2>5. ASSUME NEW w \in DOMAIN word2count
          PROVE  \E i \in 1 .. Len(out') : out'[i].word = w
      <3>1. CASE w = current_word
        <4>1. Len(out) + 1 \in 1 .. Len(out')
          BY <1>2, <2>1
        <4>. QED  BY <1>2, <2>1, <3>1, <4>1
      <3>2. CASE w # current_word
        <4>1. PICK i \in 1 .. Len(out) : out[i].word = w
          BY <1>6, <3>2
        <4>2. i \in 1 .. Len(out')
          BY <1>2, <2>1
        <4>. QED  BY <2>1, <4>1, <4>2
      <3>. QED  BY <3>1, <3>2
    <2>6. SumsAgree'
      BY <1>1, <2>3, <2>4 DEF SumsAgree
    <2>7. OnlyLastMissing'
      BY <1>1, <2>5 DEF OnlyLastMissing
    <2>. QED  BY <1>1, <1>3, <2>6, <2>7 DEF IInv
  <1>8. CASE current_word # word
    <2>1. out' = out
      BY <1>1, <1>8
    <2>2. /\ lines[Len(lines)].count = Malformed
          /\ lines[Len(lines)].word # current_word
      <3>1. pos # 0
        BY <1>1, <1>8 DEF Reading, WordRead
      <3>2. pos > 0 /\ pos \in 1 .. Len(lines)
        BY <1>1, <3>1
      <3>3. /\ word = lines[pos].word /\ lines[pos].count # Missing
            /\ lines[pos].count \notin Count
        BY <1>1, <1>8, <3>2 DEF Reading, WordRead
      <3>4. lines[pos].count \in Count \union {Malformed, Missing}
        <4>1. lines[pos] \in Line
          BY <1>1, <3>2 DEF Types
        <4>. QED  BY <4>1 DEF Line
      <3>. QED  BY <1>1, <1>8, <3>3, <3>4
    <2>3. SumsAgree'
      BY <1>1, <2>1 DEF SumsAgree
    <2>4. OnlyLastMissing'
      BY <1>1, <1>6, <2>1, <2>2 DEF OnlyLastMissing
    <2>. QED  BY <1>1, <1>3, <2>3, <2>4 DEF IInv
  <1>. QED  BY <1>7, <1>8

\* The inductive invariant holds in every behaviour.
THEOREM Invariance == Spec => []IInv
  <1>1. IInv /\ [Next]_vars => IInv'
    <2>1. IInv /\ UNCHANGED vars => IInv'
      BY DEF vars, IInv, Types, Reading, CurrentIsLast, Written, WordRead, SumsAgree,
             OnlyLastMissing
    <2>. QED
      BY <2>1, SplitRaisesIInv, DiscardIInv, SameWordIInv, OtherWordIInv, EndIInv DEF Next
  <1>. QED  BY InitIInv, <1>1, PTL DEF Spec

\* For every sorted input, what the reducer that keeps one word has written is what the
\* one that keeps them all has counted, each word once.
THEOREM SumsAreRight == Spec => []SumsAgree
  <1>1. IInv => SumsAgree
    BY DEF IInv
  <1>. QED  BY <1>1, Invariance, PTL

\* For every sorted input at most the last counted word is missing in the end, and only
\* behind a discarded line of another word.
THEOREM LastMayBeMissing == Spec => []OnlyLastMissing
  <1>1. IInv => OnlyLastMissing
    BY DEF IInv
  <1>. QED  BY <1>1, Invariance, PTL
===============================================================================
