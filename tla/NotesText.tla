----------------------------- MODULE NotesText -----------------------------
(***************************************************************************)
(* The text between Google Meet and the notes: the paged listings of       *)
(* participants and transcript entries (app/google/meet_client.py), the    *)
(* text assembled of them (app/services/transcript_service.py), the split  *)
(* of a long text into chunks and their summaries                          *)
(* (app/services/notes_service.py, app/google/gemini_client.py).           *)
(*                                                                         *)
(* A text is its lines, and a line is the interval of the text's character *)
(* positions it takes: the position after it is the line break.  So a text *)
(* that is cut up and joined again can be told from the text it was.  An   *)
(* entry whose words have line breaks stands for several entries.          *)
(***************************************************************************)
EXTENDS Naturals, Sequences

CONSTANTS
    Names,     \* participant resource names
    None,      \* Python's None; also: nothing stored
    Unknown,   \* the label of a speaker nobody knows
    Books,     \* what the two listings of a conference may hold
    PageSize,  \* the pageSize asked for
    MaxChars,  \* max(1000, chunk_threshold * 4)
    MaxFaults  \* bound: calls that raise

(* An entry has the participant who speaks, if any, and the length of its  *)
(* line, the speaker's name included.                                      *)
Entry == [participant : Names \cup {None}, length : Nat]

(* A piece of the text, from a position up to but not including another.   *)
Piece == [from : Nat, to : Nat]
Line  == [speaker : Names \cup {Unknown}, from : Nat, to : Nat]

(* What a call of Gemini is given: pieces, joined by line breaks. *)
Prompt == Seq(Piece)

ASSUME TextAssumption ==
    /\ None \notin Names /\ Unknown \notin Names /\ None # Unknown
    /\ Books \subseteq [people : Seq(Names), entries : Seq(Entry)]
    /\ None \notin Seq(Line) \cup Seq(Prompt)
    /\ PageSize \in Nat \ {0} /\ MaxChars \in Nat \ {0} /\ MaxFaults \in Nat

VARIABLES
    book,     \* the participants and entries Google has of the conference
    pc,       \* where the run is
    token,    \* pageToken: how many items come before the page it is for
    got,      \* the items listed so far
    speakers, \* speaker_map: the participants listed
    entries,  \* the entries listed
    lines,    \* the lines of the text the run works on
    text,     \* transcripts.full_text: the lines stored, or None
    line, at, \* the chunk loop: the next line, and where in the text it is
    current,  \* the chunk loop: the pieces of the chunk that is being filled
    size,     \* the chunk loop: its size, line breaks included
    chunks,   \* the chunks that are full
    partials, \* the chunks summarised so far
    notes,    \* what the stored notes were made of, or None
    faults    \* calls that raised so far

listing == <<token, got, speakers, entries>>
loop    == <<line, at, current, size>>
vars    == <<book, pc, listing, lines, text, loop, chunks, partials, notes,
             faults>>

----------------------------------------------------------------------------
Last(s) == s[Len(s)]

Stages == {"participants", "entries", "assemble", "read", "whole", "split",
           "map", "done", "raised"}

----------------------------------------------------------------------------
(* list_participants and list_transcript_entries *)

(* Mutant of Page: the pageToken is not sent, and the page that comes       *)
(* replaces what was listed.                                               *)
FirstPage(items, k) ==
    /\ k <= Len(items)
    /\ got' = SubSeq(items, 1, k)
    /\ token' = k

(* Mutant of Page: a page that comes short is asked for and taken again.    *)
PageAgain(items, k) ==
    /\ token + k <= Len(items)
    /\ got' = got \o SubSeq(items, token + 1, token + k)
    /\ token' = IF k < PageSize THEN token ELSE token + k

(* Google answers with the next items, as many as it likes up to PageSize. *)
Page(items, k) ==
    /\ token + k <= Len(items)
    /\ got' = got \o SubSeq(items, token + 1, token + k)
    /\ token' = token + k

(* A page with a nextPageToken. *)
NextPage ==
    /\ \/ /\ pc = "participants"
          /\ \E k \in 1..PageSize : Page(book.people, k)
       \/ /\ pc = "entries"
          /\ \E k \in 1..PageSize : Page(book.entries, k)
    /\ UNCHANGED <<book, pc, speakers, entries, lines, text, loop, chunks,
                   partials, notes, faults>>

(* The page without one ends the listing.  Of the participants it makes    *)
(* the speaker map.                                                        *)
LastPeople ==
    LET people == got \o SubSeq(book.people, token + 1, Len(book.people))
    IN /\ pc = "participants" /\ pc' = "entries"
       /\ Len(book.people) <= token + PageSize
       /\ speakers' = {people[i] : i \in 1..Len(people)}
       /\ token' = 0 /\ got' = <<>>
       /\ UNCHANGED <<book, entries, lines, text, loop, chunks, partials,
                      notes, faults>>

LastEntries ==
    /\ pc = "entries" /\ pc' = "assemble"
    /\ Len(book.entries) <= token + PageSize
    /\ entries' = got \o SubSeq(book.entries, token + 1, Len(book.entries))
    /\ token' = 0 /\ got' = <<>>
    /\ UNCHANGED <<book, speakers, lines, text, loop, chunks, partials, notes,
                   faults>>

----------------------------------------------------------------------------
(* _assemble, and the commit of the transcript *)

(* Mutant of Label: speaker_map[...] without a default. *)
LabelUnchecked(participant) == participant

Label(participant) ==
    IF participant \in speakers THEN participant ELSE Unknown

NextStart == IF lines = <<>> THEN 0 ELSE Last(lines).to + 1

AssembleEntry ==
    LET e == entries[Len(lines) + 1]
    IN /\ pc = "assemble" /\ Len(lines) < Len(entries)
       /\ lines' = Append(lines, [speaker |-> Label(e.participant),
                                  from |-> NextStart,
                                  to |-> NextStart + e.length])
       /\ UNCHANGED <<book, pc, listing, text, loop, chunks, partials, notes,
                      faults>>

StoreText ==
    /\ pc = "assemble" /\ Len(lines) = Len(entries)
    /\ text' = lines
    /\ pc' = "read"
    /\ UNCHANGED <<book, listing, lines, loop, chunks, partials, notes, faults>>

----------------------------------------------------------------------------
(* generate_notes and _summarize_text *)

(* The stored text is read.  An empty one needs no summary; count_tokens   *)
(* decides between one call and a map-reduce (no count counts as 0).       *)
ReadText ==
    /\ pc = "read"
    /\ lines' = text
    /\ \/ text = <<>> /\ notes' = <<>> /\ pc' = "done"
       \/ text # <<>> /\ pc' \in {"whole", "split"} /\ UNCHANGED notes
    /\ UNCHANGED <<book, listing, text, loop, chunks, partials, faults>>

(* What Gemini answers: whether the prompt was blocked, why the answer     *)
(* ends ("none": no candidates), what it holds ("blank": notes without a   *)
(* summary), and whether the SDK has parsed it.                            *)
Answer == {a \in [blocked : BOOLEAN, finish : {"none", "stop", "cut"},
                  body : {"empty", "junk", "blank", "notes"},
                  parsed : BOOLEAN] :
             /\ a.finish = "none" => a.body = "empty"
             /\ a.parsed => a.body \in {"blank", "notes"}}

(* Only of parsed notes is the summary looked at. *)
HasNotes(a) == a.body = "notes" \/ (a.body = "blank" /\ ~a.parsed)

(* Mutant of Extract: the reason for which the answer ends is not read. *)
ExtractAny(a) == ~a.blocked /\ HasNotes(a)

(* _extract: any other answer raises SummarizationError. *)
Extract(a) == ~a.blocked /\ a.finish # "cut" /\ HasNotes(a)

(* What an answer speaks of: if it was cut off, of the beginning only. *)
Says(a, told) == IF a.finish = "cut" THEN SubSeq(told, 1, Len(told) - 1)
                                     ELSE told

SummarizeWhole ==
    LET whole == [i \in 1..Len(lines) |-> [from |-> lines[i].from,
                                           to |-> lines[i].to]]
    IN /\ pc = "whole"
       /\ \E a \in Answer : Extract(a) /\ notes' = <<Says(a, whole)>>
       /\ pc' = "done"
       /\ UNCHANGED <<book, listing, lines, text, loop, chunks, partials,
                      faults>>

(* _split_long_line: the next piece of the line the loop is at. *)
NextPiece ==
    LET end == lines[line].to
    IN [from |-> at, to |-> IF end - at <= MaxChars THEN end ELSE at + MaxChars]

Chars(piece) == piece.to - piece.from

Fits(piece) == size + Chars(piece) <= MaxChars \/ current = <<>>

(* Mutant of SizeOf: the line break is not counted. *)
SizeUncounted(piece) == Chars(piece)

SizeOf(piece) == Chars(piece) + 1

(* _chunk, one piece: it goes into the current chunk if it fits or if that *)
(* is empty, and else into a new one.                                      *)
ChunkStep ==
    LET piece == NextPiece
        done == piece.to = lines[line].to
    IN /\ pc = "split" /\ line <= Len(lines)
       /\ \/ /\ Fits(piece)
             /\ current' = Append(current, piece)
             /\ size' = size + SizeOf(piece)
             /\ UNCHANGED chunks
          \/ /\ ~Fits(piece)
             /\ chunks' = Append(chunks, current)
             /\ current' = <<piece>>
             /\ size' = SizeOf(piece)
       /\ line' = IF done THEN line + 1 ELSE line
       /\ at' = IF done THEN piece.to + 1 ELSE piece.to
       /\ UNCHANGED <<book, pc, listing, lines, text, partials, notes, faults>>

(* The last chunk is closed, too. *)
CloseChunks ==
    /\ pc = "split" /\ line > Len(lines)
    /\ chunks' = IF current = <<>> THEN chunks ELSE Append(chunks, current)
    /\ pc' = "map"
    /\ UNCHANGED <<book, listing, lines, text, loop, partials, notes, faults>>

SummarizeChunk ==
    /\ pc = "map" /\ Len(partials) < Len(chunks)
    /\ \E a \in Answer :
         /\ Extract(a)
         /\ partials' = Append(partials, Says(a, chunks[Len(partials) + 1]))
    /\ UNCHANGED <<book, pc, listing, lines, text, loop, chunks, notes, faults>>

(* The summaries of all chunks, in their order, are summarised once more,  *)
(* whatever their size.                                                    *)
SummarizeSections ==
    /\ pc = "map" /\ Len(partials) = Len(chunks)
    /\ \E a \in Answer : Extract(a) /\ notes' = Says(a, partials)
    /\ pc' = "done"
    /\ UNCHANGED <<book, listing, lines, text, loop, chunks, partials, faults>>

----------------------------------------------------------------------------
(* A page that is not 200, a call that times out, an answer _extract       *)
(* rejects: the run ends, and what it had in hand is lost.                 *)
Raise ==
    /\ pc \notin {"done", "raised"} /\ faults < MaxFaults
    /\ faults' = faults + 1
    /\ pc' = "raised"
    /\ token' = 0 /\ got' = <<>> /\ speakers' = {} /\ entries' = <<>>
    /\ lines' = <<>>
    /\ line' = 1 /\ at' = 0 /\ current' = <<>> /\ size' = 0
    /\ chunks' = <<>> /\ partials' = <<>>
    /\ UNCHANGED <<book, text, notes>>

(* The conference is enqueued again, if it ever is (NotesPipeline says     *)
(* when): arq does not run a job that raised a second time.                *)
NewRun ==
    /\ pc = "raised" /\ pc' = "participants"
    /\ UNCHANGED <<book, listing, lines, text, loop, chunks, partials, notes,
                   faults>>

(* notes:regenerate: the stored text once more. *)
Regenerate ==
    /\ pc \in {"done", "raised"} /\ text # None /\ faults < MaxFaults
    /\ faults' = faults + 1
    /\ pc' = "read"
    /\ line' = 1 /\ at' = 0 /\ current' = <<>> /\ size' = 0
    /\ chunks' = <<>> /\ partials' = <<>>
    /\ UNCHANGED <<book, listing, lines, text, notes>>

Init ==
    /\ book \in Books
    /\ pc = "participants"
    /\ token = 0 /\ got = <<>> /\ speakers = {} /\ entries = <<>>
    /\ lines = <<>>
    /\ line = 1 /\ at = 0 /\ current = <<>> /\ size = 0
    /\ chunks = <<>> /\ partials = <<>>
    /\ text = None /\ notes = None /\ faults = 0

FetchText ==
    NextPage \/ LastPeople \/ LastEntries \/ AssembleEntry \/ StoreText

SummarizeText ==
    \/ ReadText \/ SummarizeWhole
    \/ ChunkStep \/ CloseChunks \/ SummarizeChunk \/ SummarizeSections

Next == FetchText \/ SummarizeText \/ Raise \/ NewRun \/ Regenerate

Spec == Init /\ [][Next]_vars

(* A run that has started goes on.  Nothing has to start the next one.     *)
FairSpec == Spec /\ WF_vars(FetchText \/ SummarizeText)

----------------------------------------------------------------------------
(* Properties. *)

(* Every variable has its type. *)
TypeOK ==
    /\ book \in Books
    /\ pc \in Stages
    /\ token \in Nat
    /\ got \in Seq(Names) \cup Seq(Entry)
    /\ speakers \subseteq Names
    /\ entries \in Seq(Entry)
    /\ lines \in Seq(Line)
    /\ text \in Seq(Line) \cup {None}
    /\ line \in Nat \ {0} /\ at \in Nat
    /\ current \in Prompt /\ size \in Nat
    /\ chunks \in Seq(Prompt) /\ partials \in Seq(Prompt)
    /\ notes \in Seq(Prompt) \cup {None}
    /\ faults \in 0..MaxFaults

(* The participants some page lists. *)
Known == {book.people[i] : i \in 1..Len(book.people)}

(* The lines of t are of the conference's first entries, in order, each    *)
(* under the name of the participant who spoke if that one is known.       *)
Spoken(t) ==
    \A i \in 1..Len(t) :
        LET e == book.entries[i]
        IN /\ t[i].to - t[i].from = e.length /\ t[i].from <= t[i].to
           /\ t[i].speaker = IF e.participant \in Known
                               THEN e.participant ELSE Unknown

(* A text t is the conference's: it has every entry of every page once. *)
IsTranscript(t) == Len(t) = Len(book.entries) /\ Spoken(t)

(* What is stored is the whole transcript, wherever Google ends its pages  *)
(* and after whatever page an earlier run failed.                          *)
TextIsTranscript == text # None => IsTranscript(text)

(* The pieces of a prompt, joined by line breaks, are a stretch of the     *)
(* text: the loop joins nothing that was not separated by a line break.    *)
IsStretch(prompt) ==
    \A i \in 1..Len(prompt) - 1 : prompt[i + 1].from = prompt[i].to + 1

(* "so no chunk ever exceeds max_chars", counted in the characters of the  *)
(* joined chunk; and a chunk is a stretch of the text, although over-long  *)
(* lines are cut.                                                          *)
ChunksFit ==
    \A i \in 1..Len(chunks) :
        /\ chunks[i] # <<>>
        /\ IsStretch(chunks[i])
        /\ Last(chunks[i]).to - chunks[i][1].from <= MaxChars

(* The position at which the next prompt goes on after one that ends at p: *)
(* p, or after it if there is a line break, which need not be repeated.    *)
After(p) == IF \E i \in 1..Len(text) : text[i].to = p THEN p + 1 ELSE p

(* Of the prompts the first starts at the start of the text, the last ends *)
(* at its end, and each goes on where the one before it ended.             *)
Covers(prompts) ==
    /\ prompts # <<>> /\ \A i \in 1..Len(prompts) : prompts[i] # <<>>
    /\ prompts[1][1].from = 0
    /\ Last(Last(prompts)).to = Last(text).to
    /\ \A i \in 1..Len(prompts) - 1 :
         prompts[i + 1][1].from = After(Last(prompts[i]).to)

(* The notes are made of the whole text: nothing is summarised twice and   *)
(* nothing is left out, however long the lines, whatever answers came      *)
(* before and whether the text was fetched again meanwhile.                *)
NotesOfWholeText ==
    notes # None => IF text = <<>> THEN notes = <<>> ELSE Covers(notes)

(* However the pages end and the lines fall, listing, splitting and        *)
(* summarising come to an end: every run, the first, a later one or a      *)
(* regenerate, comes to notes unless a call raises.                        *)
NotesEventually == []<>(pc = "raised" \/ (pc = "done" /\ notes # None))

============================================================================
