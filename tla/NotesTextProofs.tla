-------------------------- MODULE NotesTextProofs ---------------------------
(* Theorems about NotesText, for all values of its constants: any listings *)
(* in any pages, lines and chunks of any length.                           *)
EXTENDS NotesText, SequenceTheorems, TLAPS

(* The lines of a text follow each other from position 0 on. *)
InOrder(t) ==
    /\ t # <<>> => t[1].from = 0
    /\ \A i \in 1..Len(t) : t[i].from <= t[i].to
    /\ \A i \in 1..Len(t) - 1 : t[i + 1].from = t[i].to + 1
    /\ \A i, j \in 1..Len(t) : i < j => t[i].to < t[j].from

(* What is listed so far is the beginning of what there is. *)
Listed ==
    /\ pc \in {"raised", "participants"} =>
         token <= Len(book.people) /\ got = SubSeq(book.people, 1, token)
    /\ pc = "entries" =>
         token <= Len(book.entries) /\ got = SubSeq(book.entries, 1, token)
    /\ pc \in {"entries", "assemble"} => speakers = Known
    /\ pc = "assemble" => entries = book.entries

(* What is assembled is the beginning of the transcript, and of the text   *)
(* an earlier run stored: a run stores the same text again.                *)
Assembled ==
    /\ pc \in {"raised", "participants", "entries"} => lines = <<>>
    /\ pc = "assemble" =>
         /\ Len(lines) <= Len(book.entries)
         /\ Spoken(lines) /\ InOrder(lines)
         /\ text # None => \A i \in 1..Len(lines) : lines[i] = text[i]

Stored ==
    /\ text # None => IsTranscript(text) /\ InOrder(text)
    /\ pc \in {"read", "whole", "split", "map", "done"} => text # None
    /\ pc \in {"whole", "split", "map"} => text # <<>> /\ lines = text
    /\ notes # None => text # None

(* The chunk loop has not begun. *)
Unsplit ==
    pc \in {"raised", "participants", "entries", "assemble", "read", "whole"} =>
        /\ line = 1 /\ at = 0 /\ current = <<>> /\ size = 0
        /\ chunks = <<>> /\ partials = <<>>

(* The loop is inside of a line that is cut. *)
MidLine == line <= Len(lines) /\ at # lines[line].from

(* Where the loop is, and what the chunk it fills has to do with that: a    *)
(* piece that was cut off fills its chunk, so the next starts a new one.   *)
Position ==
    pc = "split" =>
        /\ line \in 1..Len(lines) + 1
        /\ line <= Len(lines) => lines[line].from <= at /\ at <= lines[line].to
        /\ line > Len(lines) => at = Last(lines).to + 1
        /\ MidLine => at < lines[line].to
        /\ current = <<>> => line = 1 /\ at = 0 /\ chunks = <<>> /\ size = 0
        /\ current # <<>> =>
             IF MidLine
               THEN Last(current).to = at /\ size = MaxChars + 1
               ELSE line > 1 /\ Last(current).to + 1 = at

(* The chunk that is filled: its size is that of its stretch. *)
Filled ==
    pc = "split" /\ current # <<>> =>
        /\ IsStretch(current)
        /\ size = Last(current).to - current[1].from + 1
        /\ size > 0 /\ size <= MaxChars + 1

(* The chunks and the one that is filled go on where the one before ended. *)
Split ==
    pc = "split" =>
        /\ partials = <<>>
        /\ \A i \in 1..Len(chunks) : chunks[i] # <<>>
        /\ chunks # <<>> => chunks[1][1].from = 0
        /\ \A i \in 1..Len(chunks) - 1 :
             chunks[i + 1][1].from = After(Last(chunks[i]).to)
        /\ current # <<>> =>
             current[1].from = IF chunks = <<>> THEN 0
                                 ELSE After(Last(Last(chunks)).to)

Mapped ==
    pc = "map" =>
        /\ Covers(chunks)
        /\ Len(partials) <= Len(chunks)
        /\ \A i \in 1..Len(partials) : partials[i] = chunks[i]

IInv ==
    /\ TypeOK /\ Listed /\ Assembled /\ Stored
    /\ Unsplit /\ Position /\ Filled /\ Split /\ ChunksFit
    /\ Mapped /\ NotesOfWholeText

----------------------------------------------------------------------------
(* Lists. *)

LEMMA ListsHave ==
    ASSUME TypeOK
    PROVE  /\ book.people \in Seq(Names) /\ book.entries \in Seq(Entry)
           /\ Len(book.people) \in Nat /\ Len(book.entries) \in Nat
           /\ None \notin Seq(Line) /\ None \notin Seq(Prompt)
<1>1. book \in [people : Seq(Names), entries : Seq(Entry)]
  BY TextAssumption DEF TypeOK
<1>2. book.people \in Seq(Names) /\ book.entries \in Seq(Entry)
  BY <1>1
<1>. QED
  BY <1>2, LenProperties, TextAssumption

(* A page appended to what was listed is what is listed now. *)
LEMMA PageIsPrefix ==
    ASSUME NEW S, NEW items \in Seq(S), NEW n \in Nat, NEW m \in Nat,
           n <= m, m <= Len(items)
    PROVE  /\ SubSeq(items, 1, n) \o SubSeq(items, n + 1, m)
                = SubSeq(items, 1, m)
           /\ SubSeq(items, 1, m) \in Seq(S)
<1>1. Len(items) \in Nat /\ \A i \in 1..m : items[i] \in S
  BY LenProperties, ElementOfSeq
<1>2. SubSeq(items, 1, m) \in Seq(S)
  BY <1>1, SubSeqProperties, m \in Int, 1 \in Int
<1>3. 1 \in 1..Len(items) + 1 /\ n \in 0..Len(items) /\ m \in n..Len(items)
  BY <1>1
<1>4. SubSeq(items, 1, n) \o SubSeq(items, n + 1, m) = SubSeq(items, 1, m)
  BY <1>3, ConcatAdjacentSubSeq, 1 - 1 = 0
<1>. QED
  BY <1>2, <1>4

(* The last element of a list that grows by one, and the others. *)
LEMMA Appended ==
    ASSUME NEW S, NEW s \in Seq(S), NEW e \in S
    PROVE  /\ Append(s, e) \in Seq(S) /\ Append(s, e) # <<>>
           /\ Len(s) \in Nat /\ Len(Append(s, e)) = Len(s) + 1
           /\ \A i \in 1..Len(s) : Append(s, e)[i] = s[i]
           /\ Append(s, e)[Len(s) + 1] = e
           /\ Last(Append(s, e)) = e
  BY AppendProperties, LenProperties DEF Last

(* A list that is not empty has a last element. *)
LEMMA NotEmpty ==
    ASSUME NEW S, NEW s \in Seq(S)
    PROVE  /\ Len(s) \in Nat
           /\ s # <<>> <=> Len(s) > 0
           /\ s # <<>> => s[1] \in S /\ Last(s) \in S /\ Last(s) = s[Len(s)]
<1>1. Len(s) \in Nat /\ (s # <<>> <=> Len(s) > 0)
  BY LenProperties, EmptySeq
<1>2. ASSUME s # <<>>
      PROVE  s[1] \in S /\ s[Len(s)] \in S
  <2>1. 1 \in 1..Len(s) /\ Len(s) \in 1..Len(s)
    BY <1>1, <1>2
  <2>. QED
    BY <2>1, ElementOfSeq
<1>. QED
  BY <1>1, <1>2 DEF Last

----------------------------------------------------------------------------
(* Types. *)

(* A line as a piece, and the pieces of all lines. *)
LEMMA WholeIsPrompt ==
    ASSUME NEW t \in Seq(Line)
    PROVE  [i \in 1..Len(t) |-> [from |-> t[i].from, to |-> t[i].to]] \in Prompt
<1>1. Len(t) \in Nat /\ \A i \in 1..Len(t) : t[i] \in Line
  BY LenProperties, ElementOfSeq
<1>. QED
  BY <1>1 DEF Line, Prompt, Piece

LEMMA NextPieceType ==
    ASSUME TypeOK, Position, pc = "split", line <= Len(lines)
    PROVE  /\ line \in 1..Len(lines) /\ lines[line] \in Line
           /\ NextPiece \in Piece /\ NextPiece.from = at
           /\ NextPiece.from <= NextPiece.to
           /\ NextPiece.to <= lines[line].to
           /\ Chars(NextPiece) = NextPiece.to - at
           /\ Chars(NextPiece) \in Nat /\ Chars(NextPiece) <= MaxChars
           /\ NextPiece.to # lines[line].to =>
                Chars(NextPiece) = MaxChars /\ at < NextPiece.to
<1>1. Len(lines) \in Nat /\ line \in 1..Len(lines) /\ lines[line] \in Line
  BY LenProperties, ElementOfSeq DEF TypeOK, Position
<1>2. lines[line].from \in Nat /\ lines[line].to \in Nat /\ at \in Nat
  BY <1>1 DEF Line, TypeOK
<1>3. lines[line].from <= at /\ at <= lines[line].to
  BY DEF Position
<1>4. MaxChars \in Nat \ {0}
  BY TextAssumption
<1>. QED
  BY <1>1, <1>2, <1>3, <1>4 DEF NextPiece, Piece, Chars

LEMMA SaysType ==
    ASSUME NEW a \in Answer, NEW S, NEW told \in Seq(S), Extract(a)
    PROVE  Says(a, told) = told
  BY DEF Extract, Says, Answer

(* Every page extends what was listed by what comes next. *)
LEMMA PageExtends ==
    ASSUME NEW S, NEW items \in Seq(S), NEW k \in 1..PageSize,
           token \in Nat, got = SubSeq(items, 1, token), Page(items, k)
    PROVE  /\ token' = token + k /\ token' \in Nat /\ token' <= Len(items)
           /\ got' = SubSeq(items, 1, token') /\ got' \in Seq(S)
<1>. DEFINE n == token + k
<1>1. n \in Nat /\ token <= n /\ n <= Len(items)
  BY TextAssumption DEF Page
<1>2. /\ SubSeq(items, 1, token) \o SubSeq(items, token + 1, n)
            = SubSeq(items, 1, n)
      /\ SubSeq(items, 1, n) \in Seq(S)
  BY <1>1, PageIsPrefix
<1>. QED
  BY <1>1, <1>2 DEF Page

(* The last page completes the listing. *)
LEMMA PageCompletes ==
    ASSUME NEW S, NEW items \in Seq(S), token \in Nat,
           token <= Len(items), got = SubSeq(items, 1, token)
    PROVE  got \o SubSeq(items, token + 1, Len(items)) = items
<1>1. Len(items) \in Nat /\ SubSeq(items, 1, Len(items)) = items
  BY LenProperties, SubSeqFull
<1>2. \A m \in Nat : token <= m /\ m <= Len(items) =>
         SubSeq(items, 1, token) \o SubSeq(items, token + 1, m)
            = SubSeq(items, 1, m)
  BY PageIsPrefix
<1>3. SubSeq(items, 1, token) \o SubSeq(items, token + 1, Len(items))
          = SubSeq(items, 1, Len(items))
  BY <1>1, <1>2, Len(items) <= Len(items)
<1>. QED
  BY <1>1, <1>3

LEMMA FetchTypes ==
    ASSUME IInv, FetchText
    PROVE  TypeOK'
<1>. USE ListsHave DEF Stages
<1>1. TypeOK /\ Listed /\ Assembled
  BY DEF IInv
<1>2. PageSize \in Nat /\ token \in Nat
  BY <1>1, TextAssumption DEF TypeOK
<1>3. CASE NextPage
  <2>1. ASSUME pc = "participants",
               NEW k \in 1..PageSize, Page(book.people, k)
        PROVE  got' \in Seq(Names) /\ token' \in Nat
    BY <1>1, <1>2, <2>1, PageExtends DEF Listed
  <2>2. ASSUME pc = "entries",
               NEW k \in 1..PageSize, Page(book.entries, k)
        PROVE  got' \in Seq(Entry) /\ token' \in Nat
    BY <1>1, <1>2, <2>2, PageExtends DEF Listed
  <2>3. got' \in Seq(Names) \cup Seq(Entry) /\ token' \in Nat
    BY <1>3, <2>1, <2>2 DEF NextPage
  <2>. QED
    BY <1>1, <1>3, <2>3 DEF NextPage, TypeOK, loop
<1>4. CASE LastPeople
  <2> DEFINE people == got \o SubSeq(book.people, token + 1, Len(book.people))
  <2>1. people = book.people
    BY <1>1, <1>2, <1>4, PageCompletes DEF LastPeople, Listed
  <2>2. speakers' = Known
    BY <1>4, <2>1 DEF LastPeople, Known
  <2>3. Known \subseteq Names
    BY <1>1, ElementOfSeq DEF Known
  <2>. QED
    BY <1>1, <1>4, <2>2, <2>3, EmptySeq DEF LastPeople, TypeOK, loop
<1>5. CASE LastEntries
  <2>1. entries' = book.entries
    BY <1>1, <1>2, <1>5, PageCompletes DEF LastEntries, Listed
  <2>. QED
    BY <1>1, <1>5, <2>1, EmptySeq DEF LastEntries, TypeOK, loop
<1>6. CASE AssembleEntry
  <2> DEFINE e == entries[Len(lines) + 1]
             new == [speaker |-> Label(e.participant), from |-> NextStart,
                     to |-> NextStart + e.length]
  <2>1. Len(lines) \in Nat /\ Len(entries) \in Nat
    BY <1>1, LenProperties DEF TypeOK
  <2>2. e \in Entry
    BY <1>1, <1>6, <2>1, ElementOfSeq, Len(lines) + 1 \in 1..Len(entries)
    DEF AssembleEntry, TypeOK
  <2>3. NextStart \in Nat
    <3>1. lines # <<>> => Last(lines) \in Line
      BY <1>1, NotEmpty DEF TypeOK
    <3>. QED
      BY <3>1 DEF NextStart, Line
  <2>4. Label(e.participant) \in Names \cup {Unknown}
    BY <1>1 DEF Label, TypeOK
  <2>5. NextStart + e.length \in Nat
    BY <2>2, <2>3 DEF Entry
  <2>6. new \in Line
    BY <2>3, <2>4, <2>5 DEF Line
  <2>7. lines' \in Seq(Line)
    BY <1>1, <1>6, <2>6, Appended DEF AssembleEntry, TypeOK
  <2>. QED
    BY <1>1, <1>6, <2>7 DEF AssembleEntry, TypeOK, loop, listing
<1>7. CASE StoreText
  BY <1>1, <1>7 DEF StoreText, TypeOK, loop, listing
<1>. QED
  BY <1>3, <1>4, <1>5, <1>6, <1>7 DEF FetchText

(* The chunk loop takes a piece. *)
LEMMA ChunkStepTypes ==
    ASSUME IInv, ChunkStep
    PROVE  TypeOK'
<1>1. TypeOK /\ Position
  BY DEF IInv
<1>2. pc = "split" /\ line <= Len(lines)
  BY DEF ChunkStep
<1>3. NextPiece \in Piece /\ SizeOf(NextPiece) \in Nat
  BY <1>1, <1>2, NextPieceType DEF SizeOf
<1>4. <<NextPiece>> \in Prompt /\ Append(current, NextPiece) \in Prompt
  <2>1. current \in Seq(Piece)
    BY <1>1 DEF TypeOK, Prompt
  <2>2. Append(current, NextPiece) \in Seq(Piece)
    BY <1>3, <2>1, Appended
  <2>3. <<NextPiece>> \in Seq(Piece)
    BY <1>3
  <2>. QED
    BY <2>2, <2>3 DEF Prompt
<1>5. \/ /\ current' = Append(current, NextPiece)
         /\ size' = size + SizeOf(NextPiece) /\ chunks' = chunks
      \/ /\ current' = <<NextPiece>> /\ size' = SizeOf(NextPiece)
         /\ chunks' = Append(chunks, current)
  BY DEF ChunkStep
<1>6. Append(chunks, current) \in Seq(Prompt)
  BY <1>1, Appended DEF TypeOK
<1>7. current' \in Prompt /\ size' \in Nat /\ chunks' \in Seq(Prompt)
  <2>1. size \in Nat /\ chunks \in Seq(Prompt)
    BY <1>1 DEF TypeOK
  <2>2. size + SizeOf(NextPiece) \in Nat
    BY <1>3, <2>1
  <2>. QED
    BY <1>3, <1>4, <1>5, <1>6, <2>1, <2>2
<1>8. NextPiece.to \in Nat
  BY <1>3 DEF Piece
<1>9. line' \in Nat \ {0} /\ at' \in Nat
  BY <1>1, <1>8 DEF ChunkStep, TypeOK
<1>. QED
  BY <1>1, <1>7, <1>9 DEF ChunkStep, TypeOK, listing

LEMMA SummarizeTypes ==
    ASSUME IInv, SummarizeText
    PROVE  TypeOK'
<1>. USE ListsHave DEF Stages
<1>1. TypeOK /\ Stored
  BY DEF IInv
<1>2. CASE ReadText
  <2>1. text # None
    BY <1>1, <1>2 DEF ReadText, Stored
  <2>2. notes' \in Seq(Prompt) \cup {None}
    BY <1>1, <1>2, EmptySeq DEF ReadText, TypeOK
  <2>. QED
    BY <1>1, <1>2, <2>1, <2>2 DEF ReadText, TypeOK, listing, loop
<1>3. CASE SummarizeWhole
  <2> DEFINE whole == [i \in 1..Len(lines) |-> [from |-> lines[i].from,
                                                to |-> lines[i].to]]
  <2>1. whole \in Prompt
    BY <1>1, WholeIsPrompt DEF TypeOK
  <2>2. PICK a \in Answer : Extract(a) /\ notes' = <<Says(a, whole)>>
    BY <1>3 DEF SummarizeWhole
  <2>3. notes' = <<whole>>
    BY <2>1, <2>2, SaysType DEF Prompt
  <2>4. notes' \in Seq(Prompt)
    BY <2>1, <2>3
  <2>. QED
    BY <1>1, <1>3, <2>4 DEF SummarizeWhole, TypeOK, listing, loop
<1>4. CASE ChunkStep
  BY <1>4, ChunkStepTypes
<1>5. CASE CloseChunks
  <2>1. Append(chunks, current) \in Seq(Prompt)
    BY <1>1, Appended DEF TypeOK
  <2>. QED
    BY <1>1, <1>5, <2>1 DEF CloseChunks, TypeOK, listing, loop
<1>6. CASE SummarizeChunk
  <2>1. Len(partials) + 1 \in 1..Len(chunks)
    BY <1>1, <1>6, LenProperties DEF SummarizeChunk, TypeOK
  <2>2. chunks[Len(partials) + 1] \in Prompt
    BY <1>1, <2>1, ElementOfSeq DEF TypeOK
  <2>3. PICK a \in Answer : Extract(a) /\ partials'
                 = Append(partials, Says(a, chunks[Len(partials) + 1]))
    BY <1>6 DEF SummarizeChunk
  <2>4. partials' = Append(partials, chunks[Len(partials) + 1])
    BY <2>2, <2>3, SaysType DEF Prompt
  <2>5. partials' \in Seq(Prompt)
    BY <1>1, <2>2, <2>4, Appended DEF TypeOK
  <2>. QED
    BY <1>1, <1>6, <2>5 DEF SummarizeChunk, TypeOK, listing, loop
<1>7. CASE SummarizeSections
  <2>1. PICK a \in Answer : Extract(a) /\ notes' = Says(a, partials)
    BY <1>7 DEF SummarizeSections
  <2>2. notes' = partials
    BY <1>1, <2>1, SaysType DEF TypeOK
  <2>. QED
    BY <1>1, <1>7, <2>2 DEF SummarizeSections, TypeOK, listing, loop
<1>. QED
  BY <1>2, <1>3, <1>4, <1>5, <1>6, <1>7 DEF SummarizeText

LEMMA OtherTypes ==
    ASSUME TypeOK, Raise \/ NewRun \/ Regenerate
    PROVE  TypeOK'
<1>1. Raise \/ Regenerate => faults' \in 0..MaxFaults
  BY TextAssumption DEF Raise, Regenerate, TypeOK
<1>2. Raise \/ Regenerate => /\ current' \in Prompt /\ chunks' \in Seq(Prompt)
                            /\ partials' \in Seq(Prompt)
  BY EmptySeq DEF Raise, Regenerate, Prompt
<1>3. CASE Raise
  BY <1>1, <1>2, <1>3, EmptySeq DEF Raise, TypeOK, Stages
<1>4. CASE Regenerate
  BY <1>1, <1>2, <1>4 DEF Regenerate, TypeOK, Stages, listing
<1>5. CASE NewRun
  BY <1>5 DEF NewRun, TypeOK, Stages, listing, loop
<1>. QED
  BY <1>3, <1>4, <1>5

LEMMA TypesStep ==
    ASSUME IInv, [Next]_vars
    PROVE  TypeOK'
<1>1. CASE UNCHANGED vars
  BY <1>1 DEF IInv, TypeOK, vars, listing, loop
<1>. QED
  BY <1>1, FetchTypes, SummarizeTypes, OtherTypes DEF Next, IInv

----------------------------------------------------------------------------
(* The listings and the text. *)

LEMMA BookKept ==
    ASSUME [Next]_vars
    PROVE  book' = book /\ Known' = Known
<1>1. book' = book
  BY DEF Next, vars, FetchText, SummarizeText, NextPage, LastPeople,
         LastEntries, AssembleEntry, StoreText, ReadText, SummarizeWhole,
         ChunkStep, CloseChunks, SummarizeChunk, SummarizeSections, Raise,
         NewRun, Regenerate
<1>. QED
  BY <1>1 DEF Known

LEMMA ListedStep ==
    ASSUME IInv, [Next]_vars
    PROVE  Listed'
<1>1. TypeOK /\ Listed
  BY DEF IInv
<1>2. book' = book /\ Known' = Known /\ token \in Nat
  BY <1>1, BookKept DEF TypeOK
<1>3. CASE NextPage
  <2>1. CASE pc = "participants"
    <3>1. PICK k \in 1..PageSize : Page(book.people, k)
      BY <1>3, <2>1 DEF NextPage
    <3>2. token' <= Len(book.people) /\ got' = SubSeq(book.people, 1, token')
      BY <1>1, <1>2, <2>1, <3>1, ListsHave, PageExtends DEF Listed
    <3>. QED
      BY <1>2, <1>3, <2>1, <3>2 DEF NextPage, Listed
  <2>2. CASE pc = "entries"
    <3>1. PICK k \in 1..PageSize : Page(book.entries, k)
      BY <1>3, <2>2 DEF NextPage
    <3>2. token' <= Len(book.entries) /\ got' = SubSeq(book.entries, 1, token')
      BY <1>1, <1>2, <2>2, <3>1, ListsHave, PageExtends DEF Listed
    <3>. QED
      BY <1>1, <1>2, <1>3, <2>2, <3>2 DEF NextPage, Listed
  <2>. QED
    BY <1>3, <2>1, <2>2 DEF NextPage
<1>4. CASE LastPeople
  <2> DEFINE people == got \o SubSeq(book.people, token + 1, Len(book.people))
  <2>1. people = book.people
    BY <1>1, <1>2, <1>4, ListsHave, PageCompletes DEF LastPeople, Listed
  <2>2. speakers' = Known
    BY <1>4, <2>1 DEF LastPeople, Known
  <2>3. Len(book.entries) \in Nat /\ SubSeq(book.entries, 1, 0) = <<>>
    BY <1>1, ListsHave, SubSeqEmpty, 1 \in Int, 0 \in Int
  <2>. QED
    BY <1>2, <1>4, <2>2, <2>3 DEF LastPeople, Listed
<1>5. CASE LastEntries
  <2>1. entries' = book.entries
    BY <1>1, <1>2, <1>5, ListsHave, PageCompletes DEF LastEntries, Listed
  <2>. QED
    BY <1>1, <1>2, <1>5, <2>1 DEF LastEntries, Listed
<1>6. CASE Raise
  <2>1. Len(book.people) \in Nat /\ SubSeq(book.people, 1, 0) = <<>>
    BY <1>1, ListsHave, SubSeqEmpty, 1 \in Int, 0 \in Int
  <2>. QED
    BY <1>2, <1>6, <2>1 DEF Raise, Listed
<1>7. CASE \/ AssembleEntry \/ StoreText \/ SummarizeText \/ Regenerate
           \/ UNCHANGED vars
  <2>1. /\ UNCHANGED listing
        /\ \/ pc' = pc
           \/ pc' \notin {"raised", "participants", "entries", "assemble"}
    BY <1>7 DEF SummarizeText, AssembleEntry, StoreText, ReadText,
       SummarizeWhole, ChunkStep, CloseChunks, SummarizeChunk,
       SummarizeSections, Regenerate, vars
  <2>. QED
    BY <1>1, <1>2, <2>1 DEF Listed, listing
<1>8. CASE NewRun
  BY <1>1, <1>2, <1>8 DEF NewRun, Listed, listing
<1>. QED
  BY <1>3, <1>4, <1>5, <1>6, <1>7, <1>8 DEF Next, FetchText

(* The line that is appended is the next one of the transcript. *)
LEMMA AssembleStep ==
    ASSUME IInv, AssembleEntry
    PROVE  Assembled'
<1>. DEFINE n == Len(lines) + 1
            e == book.entries[n]
            new == [speaker |-> Label(e.participant), from |-> NextStart,
                    to |-> NextStart + e.length]
<1>1. TypeOK /\ Listed /\ Assembled /\ Stored
  BY DEF IInv
<1>2. /\ pc = "assemble" /\ pc' = pc /\ text' = text
      /\ lines' = Append(lines, new) /\ Len(lines) < Len(book.entries)
      /\ book' = book /\ Known' = Known
  BY <1>1 DEF AssembleEntry, Listed, Known
<1>3. /\ Len(lines) \in Nat /\ Len(book.entries) \in Nat
      /\ n \in 1..Len(book.entries) /\ e \in Entry
      /\ \A i \in 1..Len(lines) : lines[i] \in Line
  BY <1>1, <1>2, ListsHave, LenProperties, ElementOfSeq DEF TypeOK
<1>4. NextStart \in Nat /\ e.length \in Nat
  <2>1. lines # <<>> => Last(lines) \in Line
    BY <1>1, NotEmpty DEF TypeOK
  <2>2. NextStart \in Nat
    BY <2>1 DEF NextStart, Line
  <2>. QED
    BY <1>3, <2>2 DEF Entry
<1>5. new \in Line
  <2>1. Label(e.participant) \in Names \cup {Unknown}
    BY <1>1 DEF Label, TypeOK
  <2>2. NextStart + e.length \in Nat
    BY <1>4
  <2>3. \A sp \in Names \cup {Unknown}, x, y \in Nat :
           [speaker |-> sp, from |-> x, to |-> y] \in Line
    BY DEF Line
  <2>. QED
    BY <1>4, <2>1, <2>2, <2>3
<1>6. /\ Len(lines') = n /\ lines'[n] = new
      /\ \A i \in 1..Len(lines) : lines'[i] = lines[i]
      /\ lines' # <<>>
  <2>1. \A x \in Line :
          /\ Append(lines, x) # <<>> /\ Len(Append(lines, x)) = Len(lines) + 1
          /\ \A i \in 1..Len(lines) : Append(lines, x)[i] = lines[i]
          /\ Append(lines, x)[Len(lines) + 1] = x
    BY <1>1, Appended DEF TypeOK
  <2>. QED
    BY <1>2, <1>5, <2>1
<1>7. /\ new.from = NextStart /\ new.to = NextStart + e.length
      /\ new.speaker = IF e.participant \in Known THEN e.participant
                                                  ELSE Unknown
  BY <1>1, <1>2 DEF Label, Listed
<1>8. /\ lines = <<>> => n = 1 /\ NextStart = 0
      /\ lines # <<>> => Len(lines) \in 1..Len(lines)
                         /\ NextStart = lines[Len(lines)].to + 1
  BY <1>1, <1>3, NotEmpty DEF NextStart, TypeOK
<1>. HIDE DEF n, e, new
<1>9. Spoken(lines)'
  <2>1. Spoken(lines)
    BY <1>1, <1>2 DEF Assembled
  <2>2. new.to - new.from = e.length /\ new.from <= new.to
    BY <1>4, <1>7
  <2>3. \A i \in 1..Len(lines') : i \in 1..Len(lines) \/ i = n
    BY <1>3, <1>6 DEF n
  <2>. QED
    BY <1>2, <1>6, <1>7, <2>1, <2>2, <2>3 DEF Spoken, e
<1>10. InOrder(lines)'
  <2>1. InOrder(lines)
    BY <1>1, <1>2 DEF Assembled
  <2>2. \A i \in 1..n : i \in 1..Len(lines) \/ i = n
    BY <1>3 DEF n
  <2>3. lines'[1].from = 0
    BY <1>6, <1>7, <1>8, <1>3, <2>1 DEF InOrder
  <2>4. \A i \in 1..n : lines'[i].from <= lines'[i].to
    BY <1>4, <1>6, <1>7, <2>1, <2>2 DEF InOrder
  <2>5. \A i \in 1..Len(lines) : lines[i].from \in Nat /\ lines[i].to \in Nat
    BY <1>3 DEF Line
  <2>6. \A i \in 1..n - 1 : lines'[i + 1].from = lines'[i].to + 1
    <3>1. ASSUME NEW i \in 1..n - 1
          PROVE  lines'[i + 1].from = lines'[i].to + 1
      <4>1. CASE i = Len(lines)
        BY <1>3, <1>6, <1>7, <1>8, <4>1 DEF n
      <4>2. CASE i # Len(lines)
        <5>1. i \in 1..Len(lines) - 1 /\ i + 1 \in 1..Len(lines)
          BY <1>3, <3>1, <4>2 DEF n
        <5>. QED
          BY <1>6, <2>1, <5>1, <1>3 DEF InOrder
      <4>. QED
        BY <4>1, <4>2
    <3>. QED
      BY <3>1
  <2>7. \A i, j \in 1..n : i < j => lines'[i].to < lines'[j].from
    <3>1. ASSUME NEW i \in 1..n, NEW j \in 1..n, i < j
          PROVE  lines'[i].to < lines'[j].from
      <4>1. i \in 1..Len(lines) /\ lines'[i] = lines[i]
        BY <1>3, <1>6, <3>1 DEF n
      <4>2. CASE j = n
        <5>1. lines # <<>> /\ Len(lines) \in 1..Len(lines)
          BY <1>3, <1>8, <4>1
        <5>2. lines[i].to <= lines[Len(lines)].to
          <6>1. CASE i = Len(lines)
            BY <2>5, <4>1, <6>1
          <6>2. CASE i # Len(lines)
            BY <1>3, <2>1, <2>5, <4>1, <5>1, <6>2 DEF InOrder
          <6>. QED
            BY <6>1, <6>2
        <5>. QED
          BY <1>6, <1>7, <1>8, <2>5, <4>1, <4>2, <5>1, <5>2
      <4>3. CASE j # n
        BY <1>6, <2>1, <2>2, <3>1, <4>1, <4>3 DEF InOrder
      <4>. QED
        BY <4>2, <4>3
    <3>. QED
      BY <3>1
  <2>. QED
    BY <1>6, <2>3, <2>4, <2>6, <2>7 DEF InOrder
<1>11. ASSUME text # None
       PROVE  \A i \in 1..n : lines'[i] = text[i]
  <2>1. /\ text \in Seq(Line) /\ Len(text) = Len(book.entries)
        /\ Spoken(text) /\ InOrder(text)
        /\ \A i \in 1..Len(lines) : lines[i] = text[i]
    BY <1>1, <1>2, <1>11 DEF TypeOK, Stored, Assembled, IsTranscript
  <2>2. n \in 1..Len(text) /\ text # <<>> /\ text[n] \in Line
    BY <1>3, <2>1, NotEmpty, ElementOfSeq
  <2>3. text[n].from = NextStart
    <3>1. CASE n = 1
      BY <1>3, <1>8, <2>1, <2>2, <3>1, NotEmpty DEF InOrder, n
    <3>2. CASE n # 1
      <4>1. n - 1 \in 1..Len(text) - 1 /\ n - 1 = Len(lines) /\ lines # <<>>
            /\ n - 1 + 1 = n
        BY <1>3, <1>8, <2>1, <3>2 DEF n
      <4>2. text[n].from = text[n - 1].to + 1
        BY <2>1, <4>1 DEF InOrder
      <4>. QED
        BY <1>8, <2>1, <4>1, <4>2
    <3>. QED
      BY <3>1, <3>2
  <2>4. text[n].to - text[n].from = e.length /\ text[n].speaker = new.speaker
    BY <1>7, <2>1, <2>2 DEF Spoken, e
  <2>5. text[n] = new
    <3>1. text[n].to = NextStart + e.length
      BY <1>4, <2>2, <2>3, <2>4 DEF Line
    <3>. QED
      BY <1>5, <1>7, <2>2, <2>3, <2>4, <3>1 DEF Line
  <2>. QED
    BY <1>3, <1>6, <2>1, <2>5 DEF n
<1>. QED
  BY <1>2, <1>3, <1>6, <1>9, <1>10, <1>11 DEF Assembled, n

LEMMA AssembledStep ==
    ASSUME IInv, [Next]_vars
    PROVE  Assembled'
<1>1. TypeOK /\ Assembled
  BY DEF IInv
<1>2. book' = book /\ Known' = Known
  BY BookKept
<1>3. CASE AssembleEntry
  BY <1>3, AssembleStep
<1>4. CASE LastEntries
  <2>1. lines' = <<>> /\ text' = text /\ pc' = "assemble"
    BY <1>1, <1>4 DEF LastEntries, Assembled
  <2>2. Len(lines') = 0 /\ Len(book.entries) \in Nat
    BY <1>1, <2>1, ListsHave
  <2>. QED
    BY <1>2, <2>1, <2>2 DEF Assembled, Spoken, InOrder
<1>5. CASE Raise \/ NewRun
  BY <1>1, <1>5 DEF Raise, NewRun, Assembled
<1>6. CASE NextPage \/ LastPeople \/ UNCHANGED vars
  <2>1. lines' = lines /\ text' = text
    BY <1>6 DEF NextPage, LastPeople, vars
  <2>2. CASE NextPage \/ UNCHANGED vars
    <3>1. pc' = pc
      BY <2>2 DEF NextPage, vars
    <3>. QED
      BY <1>1, <1>2, <2>1, <3>1 DEF Assembled, Spoken, InOrder
  <2>3. CASE LastPeople
    BY <1>1, <2>1, <2>3 DEF LastPeople, Assembled
  <2>. QED
    BY <1>6, <2>2, <2>3
<1>7. CASE StoreText \/ SummarizeText \/ Regenerate
  <2>1. pc' \notin {"raised", "participants", "entries", "assemble"}
    BY <1>7 DEF SummarizeText, StoreText, ReadText, SummarizeWhole, ChunkStep,
       CloseChunks, SummarizeChunk, SummarizeSections, Regenerate
  <2>. QED
    BY <2>1 DEF Assembled
<1>. QED
  BY <1>3, <1>4, <1>5, <1>6, <1>7 DEF Next, FetchText

(* The text that is stored is the one that is stored already, if any. *)
LEMMA StoreKeeps ==
    ASSUME IInv, StoreText
    PROVE  /\ text' = lines /\ text' # None
           /\ IsTranscript(lines) /\ InOrder(lines)
           /\ text # None => text' = text
<1>1. TypeOK /\ Listed /\ Assembled /\ Stored
  BY DEF IInv
<1>2. /\ pc = "assemble" /\ text' = lines /\ Len(lines) = Len(book.entries)
      /\ Spoken(lines) /\ InOrder(lines) /\ lines \in Seq(Line)
  BY <1>1 DEF StoreText, Listed, Assembled, TypeOK
<1>3. text # None => text = lines
  <2>1. ASSUME text # None
        PROVE  /\ text \in Seq(Line) /\ Len(lines) = Len(text)
               /\ \A i \in 1..Len(lines) : lines[i] = text[i]
    BY <1>1, <1>2, <2>1 DEF Stored, Assembled, IsTranscript, TypeOK
  <2>. QED
    BY <1>2, <2>1, SeqEqual
<1>. QED
  BY <1>1, <1>2, <1>3, ListsHave DEF IsTranscript

(* What is stored stays what it is, once there is something. *)
LEMMA TextStays ==
    ASSUME IInv, [Next]_vars
    PROVE  text # None => text' = text
<1>1. CASE StoreText
  BY <1>1, StoreKeeps
<1>2. CASE ~StoreText
  BY <1>2 DEF Next, vars, FetchText, SummarizeText, NextPage, LastPeople,
         LastEntries, AssembleEntry, ReadText, SummarizeWhole,
         ChunkStep, CloseChunks, SummarizeChunk, SummarizeSections, Raise,
         NewRun, Regenerate
<1>. QED
  BY <1>1, <1>2

LEMMA StoredStep ==
    ASSUME IInv, [Next]_vars
    PROVE  Stored'
<1>1. TypeOK /\ Stored
  BY DEF IInv
<1>2. book' = book /\ Known' = Known
  BY BookKept
<1>3. CASE StoreText
  <2>1. /\ text' = lines /\ text' # None
        /\ IsTranscript(lines) /\ InOrder(lines)
    BY <1>3, StoreKeeps
  <2>2. pc' = "read"
    BY <1>3 DEF StoreText
  <2>. QED
    BY <1>2, <2>1, <2>2 DEF Stored, IsTranscript, Spoken, InOrder
<1>4. CASE ReadText
  BY <1>1, <1>2, <1>4 DEF ReadText, Stored, IsTranscript, Spoken, InOrder
<1>5. CASE \/ NextPage \/ LastPeople \/ LastEntries \/ AssembleEntry \/ Raise
           \/ NewRun \/ UNCHANGED vars
  <2>1. /\ text' = text /\ notes' = notes
        /\ \/ pc' \in {"raised", "participants", "entries", "assemble"}
           \/ pc' = pc /\ lines' = lines
    BY <1>5 DEF NextPage, LastPeople, LastEntries, AssembleEntry, Raise,
       NewRun, vars
  <2>. QED
    BY <1>1, <1>2, <2>1 DEF Stored, IsTranscript, Spoken, InOrder
<1>6. CASE SummarizeWhole \/ ChunkStep \/ CloseChunks \/ SummarizeChunk
           \/ SummarizeSections \/ Regenerate
  <2>1. /\ text' = text /\ lines' = lines
        /\ text # None
        /\ pc' \in {"read", "whole", "split", "map", "done"}
        /\ pc' \in {"whole", "split", "map"} => pc \in {"whole", "split", "map"}
    BY <1>1, <1>6 DEF SummarizeWhole, ChunkStep, CloseChunks, SummarizeChunk,
       SummarizeSections, Regenerate, Stored
  <2>. QED
    BY <1>1, <1>2, <2>1 DEF Stored, IsTranscript, Spoken, InOrder
<1>. QED
  BY <1>3, <1>4, <1>5, <1>6 DEF Next, FetchText, SummarizeText

----------------------------------------------------------------------------
(* The chunk loop. *)

(* A chunk that is not empty is followed by the position the loop is at:    *)
(* inside of a line just there, and else after a line break.               *)
LEMMA LoopFollows ==
    ASSUME IInv, pc = "split", line <= Len(lines), current # <<>>
    PROVE  at = After(Last(current).to)
<1>1. TypeOK /\ Stored /\ Position
  BY DEF IInv
<1>2. /\ lines = text /\ lines \in Seq(Line) /\ InOrder(lines)
      /\ line \in 1..Len(lines) /\ Len(lines) \in Nat /\ at \in Nat
      /\ \A i \in 1..Len(lines) : lines[i] \in Line
  BY <1>1, LenProperties, ElementOfSeq DEF Stored, Position, TypeOK
<1>3. \A i \in 1..Len(lines) : lines[i].from \in Nat /\ lines[i].to \in Nat
  BY <1>2 DEF Line
<1>4. lines[line].from <= at /\ at <= lines[line].to
  BY <1>1 DEF Position
<1>5. Last(current) \in Piece
  BY <1>1, NotEmpty DEF TypeOK, Prompt
<1>6. CASE MidLine
  <2>1. Last(current).to = at /\ at < lines[line].to /\ at # lines[line].from
    BY <1>1, <1>6 DEF Position, MidLine
  <2>2. ASSUME NEW i \in 1..Len(lines), lines[i].to = at
        PROVE  FALSE
    <3>1. CASE i < line
      <4>1. lines[i].to < lines[line].from
        BY <1>2, <3>1 DEF InOrder
      <4>. QED
        BY <1>2, <1>3, <1>4, <2>2, <4>1
    <3>2. CASE i = line
      BY <1>2, <1>3, <2>1, <2>2, <3>2
    <3>3. CASE i > line
      <4>1. lines[line].to < lines[i].from /\ lines[i].from <= lines[i].to
        BY <1>2, <3>3 DEF InOrder
      <4>. QED
        BY <1>2, <1>3, <1>4, <2>2, <4>1
    <3>. QED
      BY <1>2, <3>1, <3>2, <3>3
  <2>. QED
    BY <1>2, <2>1, <2>2 DEF After
<1>7. CASE ~MidLine
  <2>1. line > 1 /\ Last(current).to + 1 = at /\ at = lines[line].from
    BY <1>1, <1>7 DEF Position, MidLine
  <2>2. line - 1 \in 1..Len(lines) - 1 /\ line - 1 \in 1..Len(lines)
        /\ line - 1 + 1 = line
    BY <1>2, <2>1
  <2>3. lines[line].from = lines[line - 1].to + 1
    BY <1>2, <2>2 DEF InOrder
  <2>4. lines[line - 1].to = Last(current).to
    BY <1>3, <1>5, <2>1, <2>2, <2>3 DEF Piece
  <2>. QED
    BY <1>2, <2>1, <2>2, <2>4 DEF After
<1>. QED
  BY <1>6, <1>7

(* What the loop does with a piece, whichever chunk it goes into. *)
LEMMA PieceTaken ==
    ASSUME IInv, ChunkStep
    PROVE  /\ current' # <<>> /\ Last(current') = NextPiece
           /\ IsStretch(current')
           /\ size' = NextPiece.to - current'[1].from + 1
           /\ size' > 0 /\ size' <= MaxChars + 1
           /\ NextPiece.to # lines[line].to => size' = MaxChars + 1
           /\ \/ /\ chunks' = chunks /\ current # <<>>
                 /\ current'[1] = current[1]
              \/ /\ chunks' = chunks /\ chunks = <<>>
                 /\ current'[1].from = 0
              \/ /\ chunks' = Append(chunks, current) /\ current # <<>>
                 /\ current'[1].from = After(Last(current).to)
<1>. DEFINE p == NextPiece
<1>1. TypeOK /\ Position /\ Filled
  BY DEF IInv
<1>2. pc = "split" /\ line <= Len(lines)
  BY DEF ChunkStep
<1>3. /\ p \in Piece /\ p.from = at /\ p.from <= p.to
      /\ Chars(p) = p.to - at /\ Chars(p) \in Nat /\ Chars(p) <= MaxChars
      /\ p.to # lines[line].to => Chars(p) = MaxChars
  BY <1>1, <1>2, NextPieceType
<1>4. \/ /\ Fits(p) /\ chunks' = chunks
         /\ current' = Append(current, p) /\ size' = size + Chars(p) + 1
      \/ /\ ~Fits(p) /\ chunks' = Append(chunks, current)
         /\ current' = <<p>> /\ size' = Chars(p) + 1
  BY <1>1, <1>3 DEF ChunkStep, SizeOf, TypeOK
<1>5. p.from \in Nat /\ p.to \in Nat /\ at \in Nat /\ size \in Nat
      /\ MaxChars \in Nat
  BY <1>1, <1>3, TextAssumption DEF Piece, TypeOK
<1>6. current \in Seq(Piece)
  BY <1>1 DEF TypeOK, Prompt
<1>. HIDE DEF p
<1>7. /\ Len(<<p>>) = 1 /\ <<p>>[1] = p /\ Last(<<p>>) = p
      /\ IsStretch(<<p>>) /\ <<p>> # <<>>
  BY <1>3 DEF Last, IsStretch
<1>8. CASE current = <<>>
  <2>1. line = 1 /\ at = 0 /\ chunks = <<>> /\ size = 0
    BY <1>1, <1>2, <1>8 DEF Position
  <2>2. Append(current, p) = <<p>>
    BY <1>3, <1>8
  <2>3. chunks' = chunks /\ current' = <<p>> /\ size' = 0 + Chars(p) + 1
    BY <1>4, <1>8, <2>1, <2>2 DEF Fits
  <2>. QED
    BY <1>3, <1>5, <1>7, <2>1, <2>3 DEF p
<1>9. CASE current # <<>> /\ Fits(p)
  <2>1. /\ IsStretch(current) /\ size > 0
        /\ size = Last(current).to - current[1].from + 1
        /\ size + Chars(p) <= MaxChars
    BY <1>1, <1>2, <1>9 DEF Filled, Fits
  <2>2. ~MidLine
    BY <1>1, <1>2, <1>3, <1>5, <1>9, <2>1 DEF Position
  <2>3. Last(current).to + 1 = at
    BY <1>1, <1>2, <1>9, <2>2 DEF Position
  <2>4. /\ Last(current) \in Piece /\ current[1] \in Piece
        /\ Last(current) = current[Len(current)]
        /\ Len(current) \in Nat /\ Len(current) > 0
    BY <1>6, <1>9, NotEmpty
  <2>5. /\ current' = Append(current, p) /\ chunks' = chunks
        /\ size' = size + Chars(p) + 1
    BY <1>4, <1>9
  <2>6. /\ current' # <<>> /\ Last(current') = p
        /\ Len(current') = Len(current) + 1
        /\ \A i \in 1..Len(current) : current'[i] = current[i]
        /\ current'[Len(current) + 1] = p
    BY <1>3, <1>6, <2>5, Appended
  <2>7. IsStretch(current')
    <3>1. ASSUME NEW i \in 1..Len(current') - 1
          PROVE  current'[i + 1].from = current'[i].to + 1
      <4>1. CASE i = Len(current)
        BY <1>3, <2>3, <2>4, <2>6, <4>1
      <4>2. CASE i # Len(current)
        <5>1. i \in 1..Len(current) - 1 /\ i + 1 \in 1..Len(current)
          BY <2>4, <2>6, <3>1, <4>2
        <5>. QED
          BY <2>1, <2>4, <2>6, <5>1 DEF IsStretch
      <4>. QED
        BY <4>1, <4>2
    <3>. QED
      BY <3>1 DEF IsStretch
  <2>8. current'[1] = current[1]
    BY <2>4, <2>6
  <2>9. size' = p.to - current'[1].from + 1 /\ size' > 0
        /\ size' <= MaxChars + 1
    <3>1. current[1].from \in Nat /\ Last(current).to \in Nat
      BY <2>4 DEF Piece
    <3>2. /\ current'[1].from = current[1].from
          /\ size' = Last(current).to - current[1].from + 1 + Chars(p) + 1
          /\ Last(current).to + 1 = at /\ Chars(p) = p.to - at
          /\ size' = size + Chars(p) + 1 /\ size > 0 /\ Chars(p) \in Nat
          /\ size + Chars(p) <= MaxChars
      BY <1>3, <2>1, <2>3, <2>5, <2>8
    <3>. QED
      BY <1>5, <3>1, <3>2
  <2>10. p.to = lines[line].to
    BY <1>3, <1>5, <2>1
  <2>. QED
    BY <1>9, <2>5, <2>6, <2>7, <2>8, <2>9, <2>10 DEF p
<1>10. CASE ~Fits(p)
  <2>1. current # <<>>
    BY <1>10 DEF Fits
  <2>2. /\ chunks' = Append(chunks, current) /\ current' = <<p>>
        /\ size' = Chars(p) + 1
    BY <1>4, <1>10
  <2>3. p.from = After(Last(current).to)
    BY <1>2, <1>3, <2>1, LoopFollows
  <2>. QED
    BY <1>3, <1>5, <1>7, <2>1, <2>2, <2>3 DEF p
<1>. QED
  BY <1>8, <1>9, <1>10

LEMMA PositionTaken ==
    ASSUME IInv, ChunkStep
    PROVE  Position'
<1>. DEFINE p == NextPiece
<1>1. TypeOK /\ Stored /\ Position
  BY DEF IInv
<1>2. /\ pc = "split" /\ pc' = pc /\ lines' = lines /\ line <= Len(lines)
      /\ line' = IF p.to = lines[line].to THEN line + 1 ELSE line
      /\ at' = IF p.to = lines[line].to THEN p.to + 1 ELSE p.to
  BY DEF ChunkStep
<1>3. /\ line \in 1..Len(lines) /\ lines[line] \in Line
      /\ p \in Piece /\ p.from = at /\ p.to <= lines[line].to
      /\ p.to # lines[line].to => at < p.to
  BY <1>1, <1>2, NextPieceType
<1>4. /\ current' # <<>> /\ Last(current') = p
      /\ p.to # lines[line].to => size' = MaxChars + 1
  BY PieceTaken
<1>5. /\ InOrder(lines) /\ Len(lines) \in Nat
      /\ \A i \in 1..Len(lines) : lines[i].from \in Nat /\ lines[i].to \in Nat
  <2>1. InOrder(lines) /\ lines \in Seq(Line)
    BY <1>1, <1>2 DEF Stored, TypeOK
  <2>2. Len(lines) \in Nat /\ \A i \in 1..Len(lines) : lines[i] \in Line
    BY <2>1, LenProperties, ElementOfSeq
  <2>. QED
    BY <2>1, <2>2 DEF Line
<1>6. p.from \in Nat /\ p.to \in Nat /\ lines[line].from <= at
  BY <1>1, <1>2, <1>3 DEF Piece, Position
<1>. HIDE DEF p
<1>7. CASE p.to # lines[line].to
  <2>1. line' = line /\ at' = p.to /\ size' = MaxChars + 1
    BY <1>2, <1>4, <1>7
  <2>2. /\ at' < lines[line].to /\ lines[line].from <= at'
        /\ at' # lines[line].from
    BY <1>3, <1>5, <1>6, <1>7, <2>1
  <2>. QED
    BY <1>2, <1>3, <1>4, <1>5, <1>6, <2>1, <2>2 DEF Position, MidLine
<1>8. CASE p.to = lines[line].to
  <2>1. line' = line + 1 /\ at' = lines[line].to + 1
    BY <1>2, <1>8
  <2>2. ~MidLine' /\ line' \in 1..Len(lines) + 1 /\ line' > 1
    <3>1. line' <= Len(lines) => lines[line'].from = at'
      BY <1>3, <1>5, <2>1 DEF InOrder
    <3>. QED
      BY <1>2, <1>3, <1>5, <2>1, <3>1 DEF MidLine
  <2>3. ASSUME line' <= Len(lines)
        PROVE  lines[line'].from <= at' /\ at' <= lines[line'].to
    <3>1. line' \in 1..Len(lines) /\ line \in 1..Len(lines) - 1
      BY <1>3, <1>5, <2>1, <2>3
    <3>2. lines[line'].from = at' /\ lines[line'].from <= lines[line'].to
      BY <1>5, <2>1, <3>1 DEF InOrder
    <3>. QED
      BY <1>5, <3>1, <3>2
  <2>4. line' > Len(lines) => at' = Last(lines).to + 1
    BY <1>3, <1>5, <2>1 DEF Last
  <2>5. Last(current').to + 1 = at'
    BY <1>4, <1>8, <2>1
  <2>. QED
    BY <1>2, <1>4, <2>2, <2>3, <2>4, <2>5 DEF Position
<1>. QED
  BY <1>7, <1>8

LEMMA ChunksTaken ==
    ASSUME IInv, ChunkStep
    PROVE  Filled' /\ Split' /\ ChunksFit'
<1>1. TypeOK /\ Filled /\ Split /\ ChunksFit
  BY DEF IInv
<1>2. pc = "split" /\ text' = text /\ partials' = partials
  BY DEF ChunkStep
<1>3. /\ current' # <<>> /\ Last(current') = NextPiece /\ IsStretch(current')
      /\ size' = NextPiece.to - current'[1].from + 1
      /\ size' > 0 /\ size' <= MaxChars + 1
  BY PieceTaken
<1>4. Filled'
  BY <1>3 DEF Filled, IsStretch
<1>5. ASSUME chunks' = chunks PROVE ChunksFit'
  BY <1>1, <1>5 DEF ChunksFit, IsStretch
<1>6. CASE chunks' = chunks /\ current # <<>> /\ current'[1] = current[1]
  <2>1. Split'
    BY <1>1, <1>2, <1>3, <1>6 DEF Split, After
  <2>. QED
    BY <1>4, <1>5, <1>6, <2>1
<1>7. CASE chunks' = chunks /\ chunks = <<>> /\ current'[1].from = 0
  <2>1. Split'
    BY <1>1, <1>2, <1>3, <1>7 DEF Split, After
  <2>. QED
    BY <1>4, <1>5, <1>7, <2>1
<1>8. CASE /\ chunks' = Append(chunks, current) /\ current # <<>>
           /\ current'[1].from = After(Last(current).to)
  <2> DEFINE n == Len(chunks)
  <2>1. /\ chunks' # <<>> /\ Len(chunks') = n + 1 /\ n \in Nat
        /\ \A i \in 1..n : chunks'[i] = chunks[i]
        /\ chunks'[n + 1] = current /\ Last(chunks') = current
    <3>1. chunks \in Seq(Prompt) /\ current \in Prompt
      BY <1>1 DEF TypeOK
    <3>. QED
      BY <1>8, <3>1, Appended
  <2>2. chunks # <<>> => n \in 1..n /\ Last(chunks) = chunks[n]
    BY <1>1, NotEmpty DEF TypeOK
  <2>3. \A i \in 1..n + 1 : i \in 1..n \/ i = n + 1
    BY <2>1
  <2>4. chunks = <<>> <=> n = 0
    BY <1>1, NotEmpty DEF TypeOK
  <2>. HIDE DEF n
  <2>5. chunks'[1][1].from = 0
    <3>1. CASE chunks = <<>>
      BY <1>1, <1>2, <1>8, <2>1, <2>4, <3>1 DEF Split
    <3>2. CASE chunks # <<>>
      <4>1. 1 \in 1..n
        BY <2>1, <2>2, <3>2
      <4>. QED
        BY <1>1, <1>2, <2>1, <3>2, <4>1 DEF Split
    <3>. QED
      BY <3>1, <3>2
  <2>6. ASSUME NEW i \in 1..n
        PROVE  chunks'[i + 1][1].from = After(Last(chunks'[i]).to)
    <3>1. CASE i = n
      <4>1. chunks # <<>> /\ current[1].from = After(Last(Last(chunks)).to)
        BY <1>1, <1>2, <1>8, <2>1, <2>4, <3>1 DEF Split
      <4>. QED
        BY <2>1, <2>2, <3>1, <4>1
    <3>2. CASE i # n
      <4>1. i \in 1..n - 1 /\ i + 1 \in 1..n
        BY <2>1, <2>6, <3>2
      <4>. QED
        BY <1>1, <1>2, <2>1, <4>1 DEF Split, n
    <3>. QED
      BY <3>1, <3>2
  <2>7. \A i \in 1..n + 1 : chunks'[i] # <<>>
    BY <1>1, <1>2, <1>8, <2>1, <2>3 DEF Split, n
  <2>8. Split'
    <3>1. \A i \in 1..Len(chunks') - 1 :
             chunks'[i + 1][1].from = After(Last(chunks'[i]).to)
      BY <2>1, <2>6
    <3>. QED
      BY <1>1, <1>2, <1>3, <1>8, <2>1, <2>5, <2>7, <3>1 DEF Split, After
  <2>9. IsStretch(current) /\ Last(current).to - current[1].from <= MaxChars
    <3>1. /\ IsStretch(current) /\ size <= MaxChars + 1
          /\ size = Last(current).to - current[1].from + 1
      BY <1>1, <1>2, <1>8 DEF Filled
    <3>2. current[1] \in Piece /\ Last(current) \in Piece
      BY <1>1, <1>8, NotEmpty DEF TypeOK, Prompt
    <3>3. current[1].from \in Nat /\ Last(current).to \in Nat
      BY <3>2 DEF Piece
    <3>. QED
      BY <3>1, <3>3, TextAssumption
  <2>10. ChunksFit'
    <3>1. ASSUME NEW i \in 1..n + 1
          PROVE  /\ chunks'[i] # <<>> /\ IsStretch(chunks'[i])
                 /\ Last(chunks'[i]).to - chunks'[i][1].from <= MaxChars
      BY <1>1, <1>8, <2>1, <2>3, <2>9 DEF ChunksFit, n
    <3>. QED
      BY <2>1, <3>1 DEF ChunksFit, IsStretch
  <2>. QED
    BY <1>4, <2>8, <2>10
<1>. QED
  BY <1>4, <1>6, <1>7, <1>8, PieceTaken

LEMMA UnsplitStep ==
    ASSUME IInv, [Next]_vars
    PROVE  Unsplit'
<1>1. Unsplit
  BY DEF IInv
<1>2. CASE FetchText \/ ReadText \/ UNCHANGED vars
  <2>1. /\ loop' = loop /\ chunks' = chunks /\ partials' = partials
    BY <1>2 DEF FetchText, NextPage, LastPeople, LastEntries, AssembleEntry,
       StoreText, ReadText, vars
  <2>2. pc' = pc
        \/ pc \in {"raised", "participants", "entries", "assemble", "read",
                  "whole"}
    BY <1>2 DEF FetchText, NextPage, LastPeople, LastEntries, AssembleEntry,
       StoreText, ReadText, vars
  <2>. QED
    BY <1>1, <2>1, <2>2 DEF Unsplit, loop
<1>3. CASE Raise \/ NewRun \/ Regenerate
  BY <1>1, <1>3 DEF Raise, NewRun, Regenerate, Unsplit, loop
<1>4. CASE SummarizeWhole \/ ChunkStep \/ CloseChunks \/ SummarizeChunk
           \/ SummarizeSections
  <2>1. pc' \notin {"raised", "participants", "entries", "assemble", "read",
                   "whole"}
    BY <1>4 DEF SummarizeWhole, ChunkStep, CloseChunks, SummarizeChunk,
       SummarizeSections
  <2>. QED
    BY <2>1 DEF Unsplit
<1>. QED
  BY <1>2, <1>3, <1>4 DEF Next, SummarizeText

(* The chunks, once the last one is closed, cover the text. *)
LEMMA ClosedCover ==
    ASSUME IInv, CloseChunks
    PROVE  Covers(chunks)' /\ ChunksFit'
<1>1. TypeOK /\ Stored /\ Position /\ Filled /\ Split /\ ChunksFit
  BY DEF IInv
<1>2. /\ pc = "split" /\ line > Len(lines) /\ text' = text
      /\ chunks' = IF current = <<>> THEN chunks ELSE Append(chunks, current)
  BY DEF CloseChunks
<1>3. /\ lines = text /\ text # <<>> /\ text \in Seq(Line)
      /\ Len(text) \in Nat /\ Len(text) > 0 /\ Last(text) \in Line
      /\ at = Last(text).to + 1
  BY <1>1, <1>2, NotEmpty DEF Stored, TypeOK, Position
<1>4. current # <<>> /\ Last(current).to + 1 = at /\ ~MidLine
  <2>1. line > 1
    BY <1>1, <1>2, <1>3 DEF TypeOK
  <2>2. ~MidLine
    BY <1>1, <1>2, <1>3 DEF MidLine, TypeOK
  <2>3. current # <<>>
    BY <1>1, <1>2, <2>1 DEF Position
  <2>. QED
    BY <1>1, <1>2, <2>2, <2>3 DEF Position
<1>5. current \in Seq(Piece) /\ current \in Prompt /\ chunks \in Seq(Prompt)
  BY <1>1 DEF TypeOK, Prompt
<1>6. current[1] \in Piece /\ Last(current) \in Piece
  BY <1>4, <1>5, NotEmpty
<1>7. Last(current).to = Last(text).to
  BY <1>3, <1>4, <1>6 DEF Piece, Line
<1>8. IsStretch(current) /\ Last(current).to - current[1].from <= MaxChars
  <2>1. /\ IsStretch(current) /\ size <= MaxChars + 1
        /\ size = Last(current).to - current[1].from + 1
    BY <1>1, <1>2, <1>4 DEF Filled
  <2>2. current[1].from \in Nat /\ Last(current).to \in Nat
    BY <1>6 DEF Piece
  <2>. QED
    BY <2>1, <2>2, TextAssumption
<1>. DEFINE n == Len(chunks)
<1>9. /\ chunks' # <<>> /\ Len(chunks') = n + 1 /\ n \in Nat
      /\ \A i \in 1..n : chunks'[i] = chunks[i]
      /\ chunks'[n + 1] = current /\ Last(chunks') = current
  BY <1>2, <1>4, <1>5, Appended
<1>10. /\ chunks # <<>> => n \in 1..n /\ Last(chunks) = chunks[n]
       /\ chunks = <<>> <=> n = 0
       /\ \A i \in 1..n + 1 : i \in 1..n \/ i = n + 1
  BY <1>5, <1>9, NotEmpty
<1>. HIDE DEF n
<1>11. chunks'[1][1].from = 0
  <2>1. CASE chunks = <<>>
    BY <1>1, <1>2, <1>4, <1>9, <1>10, <2>1 DEF Split
  <2>2. CASE chunks # <<>>
    <3>1. 1 \in 1..n
      BY <1>9, <1>10, <2>2
    <3>. QED
      BY <1>1, <1>2, <1>9, <2>2, <3>1 DEF Split
  <2>. QED
    BY <2>1, <2>2
<1>12. ASSUME NEW i \in 1..n
       PROVE  chunks'[i + 1][1].from = After(Last(chunks'[i]).to)
  <2>1. CASE i = n
    <3>1. chunks # <<>> /\ current[1].from = After(Last(Last(chunks)).to)
      BY <1>1, <1>2, <1>4, <1>9, <1>10, <2>1 DEF Split
    <3>. QED
      BY <1>9, <1>10, <2>1, <3>1
  <2>2. CASE i # n
    <3>1. i \in 1..n - 1 /\ i + 1 \in 1..n
      BY <1>9, <1>12, <2>2
    <3>. QED
      BY <1>1, <1>2, <1>9, <3>1 DEF Split, n
  <2>. QED
    BY <2>1, <2>2
<1>13. \A i \in 1..n + 1 : chunks'[i] # <<>>
  BY <1>1, <1>2, <1>4, <1>9, <1>10 DEF Split, n
<1>14. Covers(chunks)'
  <2>1. \A i \in 1..Len(chunks') - 1 :
           chunks'[i + 1][1].from = After(Last(chunks'[i]).to)
    BY <1>9, <1>12
  <2>2. Last(Last(chunks')).to = Last(text).to
    BY <1>7, <1>9
  <2>. QED
    BY <1>2, <1>9, <1>11, <1>13, <2>1, <2>2 DEF Covers, After, Last
<1>15. ChunksFit'
  <2>1. ASSUME NEW i \in 1..n + 1
        PROVE  /\ chunks'[i] # <<>> /\ IsStretch(chunks'[i])
               /\ Last(chunks'[i]).to - chunks'[i][1].from <= MaxChars
    BY <1>1, <1>4, <1>8, <1>9, <1>10 DEF ChunksFit, n
  <2>. QED
    BY <1>9, <2>1 DEF ChunksFit, IsStretch
<1>. QED
  BY <1>14, <1>15

LEMMA SplitStep ==
    ASSUME IInv, [Next]_vars
    PROVE  Position' /\ Filled' /\ Split' /\ ChunksFit'
<1>1. /\ TypeOK /\ Stored /\ Unsplit /\ Position /\ Filled /\ Split
      /\ ChunksFit
  BY DEF IInv
<1>2. CASE ChunkStep
  BY <1>2, PositionTaken, ChunksTaken
<1>3. CASE CloseChunks
  <2>1. pc' = "map"
    BY <1>3 DEF CloseChunks
  <2>. QED
    BY <1>3, <2>1, ClosedCover DEF Position, Filled, Split
<1>4. CASE ReadText
  <2>1. /\ line' = 1 /\ at' = 0 /\ current' = <<>> /\ size' = 0
        /\ chunks' = <<>> /\ partials' = <<>>
    BY <1>1, <1>4 DEF ReadText, Unsplit, loop
  <2>2. lines' = text /\ text # None /\ (pc' = "split" => text # <<>>)
    BY <1>1, <1>4 DEF ReadText, Stored
  <2>3. ASSUME pc' = "split"
        PROVE  /\ Len(lines') \in Nat /\ Len(lines') > 0
               /\ lines'[1].from = 0 /\ 0 <= lines'[1].to
    <3>1. /\ text \in Seq(Line) /\ InOrder(text) /\ text # <<>>
      BY <1>1, <2>2, <2>3 DEF TypeOK, Stored
    <3>2. Len(text) \in Nat /\ Len(text) > 0 /\ text[1] \in Line
      BY <3>1, NotEmpty
    <3>. QED
      BY <2>2, <3>1, <3>2 DEF InOrder, Line
  <2>4. Position'
    BY <2>1, <2>3 DEF Position, MidLine
  <2>. QED
    BY <2>1, <2>4 DEF Filled, Split, ChunksFit
<1>5. CASE Raise \/ Regenerate
  BY <1>5 DEF Raise, Regenerate, Position, Filled, Split, ChunksFit
<1>6. CASE \/ FetchText \/ SummarizeWhole \/ SummarizeChunk
           \/ SummarizeSections \/ NewRun
  <2>1. pc' # "split" /\ chunks' = chunks
    BY <1>6 DEF FetchText, NewRun, NextPage, LastPeople, LastEntries, AssembleEntry,
       StoreText, SummarizeWhole, SummarizeChunk, SummarizeSections
  <2>. QED
    BY <1>1, <2>1 DEF Position, Filled, Split, ChunksFit, IsStretch
<1>7. CASE UNCHANGED vars
  BY <1>1, <1>7 DEF vars, loop, Position, Filled, Split, ChunksFit, IsStretch,
     MidLine, After
<1>. QED
  BY <1>2, <1>3, <1>4, <1>5, <1>6, <1>7 DEF Next, SummarizeText

----------------------------------------------------------------------------
(* The summaries and the notes. *)

LEMMA MappedStep ==
    ASSUME IInv, [Next]_vars
    PROVE  Mapped'
<1>1. TypeOK /\ Stored /\ Split /\ Mapped
  BY DEF IInv
<1>2. CASE CloseChunks
  <2>1. Covers(chunks)'
    BY <1>2, ClosedCover
  <2>2. partials' = <<>> /\ partials = <<>>
    BY <1>1, <1>2 DEF CloseChunks, Split
  <2>3. chunks \in Seq(Prompt) /\ current \in Prompt
    BY <1>1 DEF TypeOK
  <2>4. chunks' \in Seq(Prompt)
    BY <1>2, <2>3, Appended DEF CloseChunks
  <2>5. Len(chunks') \in Nat /\ Len(partials') = 0
    BY <2>2, <2>4, LenProperties
  <2>. QED
    BY <2>1, <2>5 DEF Mapped
<1>3. CASE SummarizeChunk
  <2> DEFINE n == Len(partials)
             told == chunks[n + 1]
  <2>1. /\ pc = "map" /\ n < Len(chunks) /\ chunks' = chunks /\ text' = text
    BY <1>3 DEF SummarizeChunk
  <2>2. partials \in Seq(Prompt) /\ chunks \in Seq(Prompt)
    BY <1>1 DEF TypeOK
  <2>3. n \in Nat /\ Len(chunks) \in Nat /\ n + 1 \in 1..Len(chunks)
    BY <2>1, <2>2, LenProperties
  <2>4. told \in Prompt
    BY <2>2, <2>3, ElementOfSeq
  <2>5. PICK a \in Answer :
             Extract(a) /\ partials' = Append(partials, Says(a, told))
    BY <1>3 DEF SummarizeChunk
  <2>6. partials' = Append(partials, told)
    BY <2>4, <2>5, SaysType DEF Prompt
  <2>7. /\ Len(partials') = n + 1 /\ partials'[n + 1] = told
        /\ \A i \in 1..n : partials'[i] = partials[i]
    BY <2>2, <2>4, <2>6, Appended
  <2>8. ASSUME NEW i \in 1..Len(partials')
        PROVE  partials'[i] = chunks[i]
    BY <1>1, <2>1, <2>3, <2>7, i \in 1..n \/ i = n + 1 DEF Mapped
  <2>9. Covers(chunks)'
    BY <1>1, <2>1 DEF Mapped, Covers, After, Last
  <2>. QED
    BY <2>1, <2>3, <2>7, <2>8, <2>9 DEF Mapped
<1>4. CASE UNCHANGED vars
  BY <1>1, <1>4 DEF vars, Mapped, Covers, After, Last
<1>5. CASE \/ FetchText \/ ReadText \/ SummarizeWhole \/ ChunkStep
           \/ SummarizeSections \/ Raise \/ NewRun \/ Regenerate
  <2>1. pc' # "map"
    BY <1>5 DEF FetchText, NextPage, LastPeople, LastEntries, AssembleEntry,
       StoreText, ReadText, SummarizeWhole, ChunkStep, SummarizeSections,
       Raise, NewRun, Regenerate
  <2>. QED
    BY <2>1 DEF Mapped
<1>. QED
  BY <1>2, <1>3, <1>4, <1>5 DEF Next, SummarizeText

LEMMA NotesStep ==
    ASSUME IInv, [Next]_vars
    PROVE  NotesOfWholeText'
<1>1. TypeOK /\ Stored /\ Mapped /\ NotesOfWholeText
  BY DEF IInv
<1>2. CASE SummarizeWhole
  <2> DEFINE whole == [i \in 1..Len(lines) |-> [from |-> lines[i].from,
                                                to |-> lines[i].to]]
  <2>1. /\ lines = text /\ text # <<>> /\ text \in Seq(Line) /\ InOrder(text)
        /\ text' = text
    BY <1>1, <1>2 DEF SummarizeWhole, Stored, TypeOK
  <2>2. Len(text) \in Nat /\ Len(text) > 0 /\ Last(text) = text[Len(text)]
    BY <2>1, NotEmpty
  <2>3. whole \in Seq(Piece)
    BY <2>1, WholeIsPrompt DEF Prompt
  <2>4. PICK a \in Answer : Extract(a) /\ notes' = <<Says(a, whole)>>
    BY <1>2 DEF SummarizeWhole
  <2>5. notes' = <<whole>>
    BY <2>3, <2>4, SaysType
  <2>6. /\ Len(whole) = Len(text)
        /\ \A i \in 1..Len(text) : /\ whole[i].from = text[i].from
                                   /\ whole[i].to = text[i].to
    BY <2>1, <2>2
  <2>. HIDE DEF whole
  <2>7. whole # <<>> /\ whole[1].from = 0 /\ Last(whole).to = Last(text).to
    <3>1. 1 \in 1..Len(text) /\ Len(text) \in 1..Len(text)
      BY <2>2
    <3>. QED
      BY <2>1, <2>2, <2>3, <2>6, <3>1, NotEmpty DEF InOrder, Last
  <2>8. /\ Len(<<whole>>) = 1 /\ <<whole>>[1] = whole /\ <<whole>> # <<>>
        /\ Last(<<whole>>) = whole
    BY <2>3 DEF Last
  <2>9. /\ notes' # <<>> /\ \A i \in 1..Len(notes') : notes'[i] # <<>>
        /\ notes'[1][1].from = 0 /\ Last(Last(notes')).to = Last(text').to
        /\ Len(notes') - 1 = 0
    <3>1. \A i \in 1..Len(notes') : notes'[i] = whole
      BY <2>5, <2>8
    <3>2. notes' # <<>> /\ notes'[1] = whole /\ Last(notes') = whole
          /\ Len(notes') = 1
      BY <2>5, <2>8
    <3>. QED
      BY <2>1, <2>7, <3>1, <3>2
  <2>10. Covers(notes)'
    <3>1. \A i \in 1..Len(notes') - 1 : FALSE
      BY <2>9
    <3>. QED
      BY <2>9, <3>1 DEF Covers, Last
  <2>. QED
    BY <2>1, <2>10 DEF NotesOfWholeText
<1>3. CASE SummarizeSections
  <2>1. /\ pc = "map" /\ text' = text /\ Len(partials) = Len(chunks)
        /\ partials \in Seq(Prompt) /\ chunks \in Seq(Prompt)
    BY <1>1, <1>3 DEF SummarizeSections, TypeOK
  <2>2. PICK a \in Answer : Extract(a) /\ notes' = Says(a, partials)
    BY <1>3 DEF SummarizeSections
  <2>3. partials = chunks
    BY <1>1, <2>1, SeqEqual DEF Mapped
  <2>4. notes' = chunks
    BY <2>1, <2>2, <2>3, SaysType
  <2>5. Covers(chunks) /\ text # <<>>
    BY <1>1, <2>1 DEF Mapped, Stored
  <2>6. Covers(notes)'
    <3>1. \A i \in 1..Len(notes') - 1 :
             notes'[i + 1][1].from = After(Last(notes'[i]).to)
      BY <2>4, <2>5 DEF Covers
    <3>2. /\ notes' # <<>> /\ \A i \in 1..Len(notes') : notes'[i] # <<>>
          /\ notes'[1][1].from = 0
          /\ Last(Last(notes')).to = Last(text).to
      BY <2>4, <2>5 DEF Covers
    <3>. QED
      BY <2>1, <3>1, <3>2 DEF Covers, After, Last
  <2>. QED
    BY <2>1, <2>5, <2>6 DEF NotesOfWholeText
<1>4. CASE ReadText
  <2>1. text' = text
    BY <1>4 DEF ReadText
  <2>2. notes' = notes \/ (text = <<>> /\ notes' = <<>>)
    BY <1>4 DEF ReadText
  <2>. QED
    BY <1>1, <2>1, <2>2 DEF NotesOfWholeText, Covers, After, Last
<1>5. CASE notes' = notes
  <2>1. notes' # None => text' = text
    BY <1>1, <1>5, TextStays DEF Stored
  <2>. QED
    BY <1>1, <1>5, <2>1 DEF NotesOfWholeText, Covers, After, Last
<1>6. \/ SummarizeWhole \/ SummarizeSections \/ ReadText \/ notes' = notes
  BY DEF Next, vars, FetchText, SummarizeText, NextPage, LastPeople,
     LastEntries, AssembleEntry, StoreText, ChunkStep, CloseChunks,
     SummarizeChunk, Raise, NewRun, Regenerate
<1>. QED
  BY <1>2, <1>3, <1>4, <1>5, <1>6

LEMMA InitInv ==
    ASSUME Init
    PROVE  IInv
<1>1. TypeOK
  BY EmptySeq, TextAssumption DEF Init, TypeOK, Stages, Prompt
<1>2. Listed
  <2>1. Len(book.people) \in Nat /\ SubSeq(book.people, 1, 0) = <<>>
    BY <1>1, ListsHave, SubSeqEmpty, 1 \in Int, 0 \in Int
  <2>. QED
    BY <2>1 DEF Init, Listed
<1>3. Assembled /\ Stored /\ Unsplit /\ Position /\ Filled /\ Split
  BY DEF Init, Assembled, Stored, Unsplit, Position, Filled, Split
<1>4. ChunksFit /\ Mapped /\ NotesOfWholeText
  BY DEF Init, ChunksFit, Mapped, NotesOfWholeText
<1>. QED
  BY <1>1, <1>2, <1>3, <1>4 DEF IInv

LEMMA StepInv ==
    ASSUME IInv, [Next]_vars
    PROVE  IInv'
<1>1. TypeOK' /\ Listed' /\ Assembled' /\ Stored'
  BY TypesStep, ListedStep, AssembledStep, StoredStep
<1>2. Unsplit' /\ Position' /\ Filled' /\ Split' /\ ChunksFit'
  BY UnsplitStep, SplitStep
<1>3. Mapped' /\ NotesOfWholeText'
  BY MappedStep, NotesStep
<1>. QED
  BY <1>1, <1>2, <1>3 DEF IInv

----------------------------------------------------------------------------
(* The inductive invariant: what is listed, assembled and stored, where    *)
(* the chunk loop is, and what its chunks cover.                           *)
THEOREM Invariance == Spec => []IInv
<1>1. Init => IInv
  BY InitInv
<1>2. IInv /\ [Next]_vars => IInv'
  BY StepInv
<1>. QED
  BY <1>1, <1>2, PTL DEF Spec

(* Every variable has its type, whatever Google holds of a conference.     *)
THEOREM TypeCorrect == Spec => []TypeOK
<1>1. IInv => TypeOK
  BY DEF IInv
<1>. QED
  BY <1>1, Invariance, PTL

(* The text that is stored is the whole transcript, each line under the    *)
(* right name, for listings of any length in any pages                     *)
(* (meet_client.py:113-169, transcript_service.py:46-54).                  *)
THEOREM StoresTranscript == Spec => []TextIsTranscript
<1>1. IInv => TextIsTranscript
  BY DEF IInv, Stored, TextIsTranscript
<1>. QED
  BY <1>1, Invariance, PTL

(* No chunk exceeds max_chars, and every chunk is a stretch of the text,   *)
(* for lines of any lengths and any max_chars (notes_service.py:16-38).    *)
THEOREM ChunksKeepBudget == Spec => []ChunksFit
<1>1. IInv => ChunksFit
  BY DEF IInv
<1>. QED
  BY <1>1, Invariance, PTL

(* Notes are made of the whole text, in order and without repetition, for  *)
(* texts of any length and whatever Gemini answers (notes_service.py:49-67,*)
(* gemini_client.py:59-87).                                                *)
THEOREM NothingLeftOut == Spec => []NotesOfWholeText
<1>1. IInv => NotesOfWholeText
  BY DEF IInv
<1>. QED
  BY <1>1, Invariance, PTL

============================================================================
