------------------------------ MODULE RamShell ------------------------------
(***************************************************************************)
(* The RAM shell of the application (bitapp/src/hermit_app.rs) over the    *)
(* memory database and the console log of the kernel.  The database is the *)
(* log of DurableLog, which MemoryDb is shown to implement: an append that *)
(* is acknowledged is in it, one that fails may or may not be.  history    *)
(* and session_delta live in RAM and are lost when power or the kernel     *)
(* fails; boot reads the database back.                                    *)
(*                                                                         *)
(* Texts are sequences of words; NL is the line feed, and "Q:" and "A:"    *)
(* are the marks of the legacy format. The stored form of a question-      *)
(* answer record is a sequence of cells: words, and the headers "[RAMQA v1 *)
(* q= a=]\n" and "[RAMDEL v1 k=]\n" with the lengths they carry. A text may *)
(* hold a word that reads like a header, well formed or not. Where the     *)
(* code counts bytes the model counts cells.                               *)
(*                                                                         *)
(* asked, exact and cut are history variables: the records the model       *)
(* answered, whether memory is still meant to be the replay of what is     *)
(* stored, and whether bytes were dropped from the front of a delta.       *)
(***************************************************************************)
EXTENDS SequencesExt, ConsoleLog

CONSTANTS
    RAM_SHELL_HISTORY_CAP,  \* cells kept in memory, and in the delta
    Prompts,       \* question-answer pairs the model can produce
    Phrases,       \* what the user may ask to forget
    HeaderWords,   \* the words that read like a header, and the header each reads like
    Users,         \* kinds of session: the commands, prompts and phrases typed
    Outputs,       \* byte strings the kernel may print
    MaxAppends,    \* appends the database has room for
    LOG_PAGE       \* RAM_SHELL_LOG_PAGE_BYTES

NL == "\n"

\* What separates words and is none itself.
Punctuation == {NL, "?"}

NoKey == <<>>

Word(w) == [tag |-> "word", w |-> w, q |-> 0, a |-> 0]
RamQa(q, a) == [tag |-> "RAMQA", w |-> "", q |-> q, a |-> a]
RamDel(k) == [tag |-> "RAMDEL", w |-> "", q |-> k, a |-> 0]

\* A length that parse_decimal refuses, or that has no mark or bracket.
NoLength == -1

WellFormed(header) == NoLength \notin {header.q, header.a}

Cell(w) == IF w \in DOMAIN HeaderWords THEN [HeaderWords[w] EXCEPT !.w = w] ELSE Word(w)

Cells(text) == [i \in DOMAIN text |-> Cell(text[i])]
Words(cells) == [i \in DOMAIN cells |-> cells[i].w]

-----------------------------------------------------------------------------
(* Which key a text is about.                                              *)

\* One pass over the words; a mismatch falls back to 1 or 0 words matched.
RECURSIVE Scan(_, _, _, _)
Scan(text, words, i, matched) ==
    IF matched = Len(words) THEN TRUE
    ELSE IF i > Len(text) THEN FALSE
    ELSE IF text[i] = words[matched + 1] THEN Scan(text, words, i + 1, matched + 1)
    ELSE IF text[i] \in Punctuation THEN Scan(text, words, i + 1, matched)
    ELSE Scan(text, words, i + 1, IF text[i] = words[1] THEN 1 ELSE 0)

contains_word_sequence(text, words) == words # <<>> /\ Scan(text, words, 1, 0)

KeyPatterns ==
    << [key |-> <<"secure", "phrase">>,
        any |-> {<<"secure", "phrase">>, <<"stored", "secure", "phrase">>,
                 <<"secured", "stored", "phrase">>}],
       [key |-> <<"secret", "phrase">>,
        any |-> {<<"secret", "phrase">>, <<"secret", "key">>}],
       [key |-> <<"memory", "test", "phrase">>,
        any |-> {<<"memory", "test", "phrase">>}],
       [key |-> <<"codename">>,
        any |-> {<<"project", "codename">>, <<"code", "name">>, <<"codename">>}] >>

memory_key_from_text(text) ==
    LET hits == {i \in DOMAIN KeyPatterns :
                    \E p \in KeyPatterns[i].any : contains_word_sequence(text, p)}
    IN  IF hits = {} THEN NoKey
        ELSE KeyPatterns[CHOOSE i \in hits : \A j \in hits : i <= j].key

QuestionWords == {"what", "which", "who", "when", "where", "why", "how", "do",
                  "does", "did", "is", "are", "can", "will"}

looks_like_question(text) ==
    \/ \E i \in DOMAIN text : text[i] = "?"
    \/ text # <<>> /\ text[1] \in QuestionWords

qa_record_key(r) ==
    IF ~looks_like_question(r.q) /\ memory_key_from_text(r.q) # NoKey
    THEN memory_key_from_text(r.q)
    ELSE memory_key_from_text(r.a)

-----------------------------------------------------------------------------
(* The records in memory.                                                  *)

\* Mutant: the key of the stored records is looked for in their answers only.
upsert_history_record_by_answer(history, r) ==
    LET key == qa_record_key(r)
    IN  Append(SelectSeq(history, LAMBDA e : key = NoKey \/ memory_key_from_text(e.a) # key), r)

upsert_history_record(history, r) ==
    LET key == qa_record_key(r)
    IN  Append(SelectSeq(history, LAMBDA e : key = NoKey \/ qa_record_key(e) # key), r)

record_mentions_key(r, key) ==
    memory_key_from_text(r.q) = key \/ memory_key_from_text(r.a) = key

contains_phrase(text, phrase) ==
    \E i \in 0 .. Len(text) - Len(phrase) : SubSeq(text, i + 1, i + Len(phrase)) = phrase

record_matches_forget_phrase(r, phrase) ==
    LET key == memory_key_from_text(phrase)
    IN  /\ phrase # <<>>
        /\ \/ key # NoKey /\ (qa_record_key(r) = key \/ record_mentions_key(r, key))
           \/ contains_phrase(r.q, phrase)
           \/ contains_phrase(r.a, phrase)

forget_history_records(history, phrase) ==
    SelectSeq(history, LAMBDA r : ~record_matches_forget_phrase(r, phrase))

\* A record in memory is charged its texts and one cell.
qa_record_payload_len(r) == Len(r.q) + Len(r.a) + 1

history_payload_len(history) ==
    FoldSeq(LAMBDA r, n : qa_record_payload_len(r) + n, 0, history)

RECURSIVE shrink_records(_, _)
shrink_records(history, needed) ==
    IF history # <<>> /\ history_payload_len(history) + needed > RAM_SHELL_HISTORY_CAP
    THEN shrink_records(Tail(history), needed)
    ELSE history

\* Mutant: room is made for what is there, not for what is to come.
shrink_bytes_late(buf, needed) ==
    IF Len(buf) <= RAM_SHELL_HISTORY_CAP THEN buf
    ELSE SubSeq(buf, Len(buf) - RAM_SHELL_HISTORY_CAP + 1, Len(buf))

shrink_bytes(buf, needed) ==
    LET required == Len(buf) + needed
        drop_len == required - RAM_SHELL_HISTORY_CAP
    IN  IF required <= RAM_SHELL_HISTORY_CAP THEN buf
        ELSE IF needed >= RAM_SHELL_HISTORY_CAP \/ drop_len >= Len(buf) THEN <<>>
        ELSE SubSeq(buf, drop_len + 1, Len(buf))

-----------------------------------------------------------------------------
(* The stored form.                                                        *)

Separator(target) == IF target = <<>> THEN <<>> ELSE <<Word(NL)>>

\* Mutant: the answer is counted with its line end.
append_serialized_qa_long(target, r) ==
    target \o Separator(target) \o <<RamQa(Len(r.q), Len(r.a) + 1)>>
           \o Cells(r.q) \o <<Word(NL)>> \o Cells(r.a) \o <<Word(NL)>>

append_serialized_qa(target, r) ==
    target \o Separator(target) \o <<RamQa(Len(r.q), Len(r.a))>>
           \o Cells(r.q) \o <<Word(NL)>> \o Cells(r.a) \o <<Word(NL)>>

append_serialized_forget(target, key) ==
    target \o Separator(target) \o <<RamDel(Len(key))>> \o Cells(key) \o <<Word(NL)>>

\* A bound on the cells a record adds besides its texts: a separator, the
\* header and two line ends.
Overhead == 4

-----------------------------------------------------------------------------
(* Reading it back.                                                        *)

Positions(cells, from, w) == {i \in from .. Len(cells) : cells[i].tag = "word" /\ cells[i].w = w}

Least(S) == CHOOSE i \in S : \A j \in S : i <= j

\* parse_legacy_qa_records: "Q: " up to the line end, then "A: " up to the
\* next one or to the end of the bytes.
RECURSIVE parse_legacy_qa_records(_, _)
parse_legacy_qa_records(cells, history) ==
    LET marks == Positions(cells, 1, "Q:")
        q     == Least(marks)
        ends  == Positions(cells, q + 1, NL)
        q_end == Least(ends)
        ansAt == q_end + 1
        stop  == Positions(cells, ansAt + 1, NL)
        a_end == IF stop = {} THEN Len(cells) + 1 ELSE Least(stop)
        rec   == [q |-> Words(SubSeq(cells, q + 1, q_end - 1)),
                  a |-> Words(SubSeq(cells, ansAt + 1, a_end - 1))]
    IN  IF marks = {} \/ ends = {} THEN history
        ELSE IF ansAt > Len(cells) \/ cells[ansAt] # Word("A:")
        THEN parse_legacy_qa_records(SubSeq(cells, q_end + 1, Len(cells)), history)
        ELSE parse_legacy_qa_records(
                SubSeq(cells, a_end + 1, Len(cells)),
                IF rec.q # <<>> /\ rec.a # <<>> THEN upsert_history_record(history, rec)
                ELSE history)

Headers(cells, offset) == {i \in offset .. Len(cells) : cells[i].tag # "word"}

\* A well-formed header has its line end; the line of another one ends later.
LineEnds(cells, h) ==
    \E i \in h .. Len(cells) :
        cells[i] = Word(NL) \/ (cells[i].tag # "word" /\ WellFormed(cells[i]))

\* What is not behind a header is read as legacy text; a record that runs
\* past the end stops the scan, and so does a header without a line end.
\* Behind a malformed header the scan goes on as if it were text.
RECURSIVE ParseFrom(_, _, _)
ParseFrom(cells, offset, history) ==
    LET heads   == Headers(cells, offset)
        h       == Least(heads)
        known   == parse_legacy_qa_records(SubSeq(cells, offset, h - 1), history)
        key_end == h + cells[h].q
        q_end   == h + cells[h].q
        a_end   == q_end + 1 + cells[h].a
        key     == Words(SubSeq(cells, h + 1, key_end))
        rec     == [q |-> Words(SubSeq(cells, h + 1, q_end)),
                    a |-> Words(SubSeq(cells, q_end + 2, a_end))]
    IN  IF offset > Len(cells) THEN history
        ELSE IF heads = {}
        THEN parse_legacy_qa_records(SubSeq(cells, offset, Len(cells)), history)
        ELSE IF ~LineEnds(cells, h) THEN known
        ELSE IF ~WellFormed(cells[h]) THEN ParseFrom(cells, h + 1, known)
        ELSE IF cells[h].tag = "RAMDEL"
        THEN IF key_end > Len(cells) THEN known
             ELSE ParseFrom(cells, key_end + 2,
                            IF key = <<>> THEN known ELSE forget_history_records(known, key))
        ELSE IF a_end > Len(cells) THEN known
             ELSE ParseFrom(cells, a_end + 2, upsert_history_record(known, rec))

parse_structured_qa_records(cells, history) == ParseFrom(cells, 1, history)

-----------------------------------------------------------------------------
(* Reference definitions, for the properties.                              *)

\* The key of a text, by definition: the first entry of the table one of
\* whose phrases occurs in it as consecutive words.
KeyOf(text) ==
    LET flat == SelectSeq(text, LAMBDA w : w \notin Punctuation)
        hits == {i \in DOMAIN KeyPatterns :
                    \E p \in KeyPatterns[i].any : contains_phrase(flat, p)}
    IN  IF hits = {} THEN NoKey ELSE KeyPatterns[Least(hits)].key

RecordKeyOf(r) ==
    IF ~looks_like_question(r.q) /\ KeyOf(r.q) # NoKey THEN KeyOf(r.q) ELSE KeyOf(r.a)

QuotedHeaders(r) == ToSet(r.q \o r.a) \cap DOMAIN HeaderWords

\* What the texts of r could be read as if they stood outside a record: a
\* legacy record in a stretch of them, and records of the lengths that a
\* header in them names, whatever these cover.
Quotes(r, s) ==
    LET text == r.q \o <<NL>> \o r.a
    IN  \/ \E i \in DOMAIN text : \E j \in i .. Len(text) :
              s \in ToSet(parse_legacy_qa_records(Cells(SubSeq(text, i, j)), <<>>))
        \/ \E w \in QuotedHeaders(r) :
              Cell(w).tag = "RAMQA" /\ Cell(w).q = Len(s.q) /\ Cell(w).a = Len(s.a)

-----------------------------------------------------------------------------
(* The shell.                                                              *)

VARIABLES user, up, mode, history, session_delta, log, log_offset, asked, exact, cut

shellVars == <<user, up, mode, history, session_delta, log, log_offset, asked, exact, cut>>
vars == <<shellVars, logVars>>

Modes == {"Command", "Prompt", "Log"}

Database == INSTANCE DurableLog WITH Records <- {}, Limit <- MaxAppends

Init ==
    /\ LogInit
    /\ user \in Users
    /\ up = FALSE
    /\ mode = "Command"
    /\ history = <<>>
    /\ session_delta = <<>>
    /\ Database!Init
    /\ log_offset = 0
    /\ asked = {}
    /\ exact = TRUE
    /\ cut = FALSE

Stored == FlattenSeq(log)

Take(s, n) == IF Len(s) <= n THEN s ELSE SubSeq(s, 1, n)

Types(command) == up /\ command \in user.commands

-----------------------------------------------------------------------------
(* Boot and loss of power.                                                 *)

\* run, bitapp_load_memory_db_history: the oldest RAM_SHELL_HISTORY_CAP
\* cells of the database, or nothing when the read fails.
boot(readable) ==
    LET scratch == Take(Stored, RAM_SHELL_HISTORY_CAP)
        parsed  == parse_structured_qa_records(scratch, <<>>)
    IN  /\ ~up
        /\ up' = TRUE
        /\ mode' = "Command"
        /\ session_delta' = <<>>
        /\ history' = IF readable THEN shrink_records(parsed, 0) ELSE <<>>
        /\ exact' = (readable /\ scratch = Stored /\ history' = parsed)
        /\ log_offset' = 0
        /\ UNCHANGED <<user, log, asked, cut, logVars>>

\* The kernel's memory starts anew: its console log is empty, and capture on.
PowerDown ==
    /\ up' = FALSE
    /\ mode' = "Command"
    /\ history' = <<>>
    /\ session_delta' = <<>>
    /\ log_offset' = 0
    /\ exact' = FALSE
    /\ LogRestart

crash ==
    /\ up
    /\ PowerDown
    /\ UNCHANGED <<user, log, asked, cut>>

-----------------------------------------------------------------------------
(* Prompts and deletions.                                                  *)

AtPrompt == mode \in {"Command", "Prompt"}

append_to_history(r) ==
    LET needed == Len(r.q) + Len(r.a) + Overhead
        kept   == shrink_records(history, needed)
        delta  == shrink_bytes(session_delta, needed)
    IN  /\ history' = upsert_history_record(kept, r)
        /\ session_delta' = append_serialized_qa(delta, r)
        /\ exact' = (exact /\ kept = history /\ delta = session_delta)
        /\ cut' = (cut \/ delta # session_delta)

\* bitapp_run_model_prompt.  A generation that Ctrl-C stops or that fails
\* leaves no record; the text after "prompt" enters the prompt mode.
run_model_prompt(r) ==
    /\ Types("prompt")
    /\ r \in user.prompts
    /\ AtPrompt
    /\ mode' = "Prompt"
    /\ \/ /\ append_to_history(r)
          /\ asked' = asked \cup {r}
       \/ UNCHANGED <<history, session_delta, asked, exact, cut>>
    /\ UNCHANGED <<user, up, log, log_offset, logVars>>

append_forget_to_history(phrase) ==
    LET known  == memory_key_from_text(phrase)
        key    == IF known = NoKey THEN phrase ELSE known
        needed == Len(key) + Overhead
        delta  == shrink_bytes(session_delta, needed)
    IN  /\ history' = forget_history_records(history, key)
        /\ session_delta' = append_serialized_forget(delta, key)
        /\ exact' = (exact /\ delta = session_delta)
        /\ cut' = (cut \/ delta # session_delta)

forget(phrase) ==
    /\ Types("forget")
    /\ phrase \in user.phrases
    /\ AtPrompt
    /\ append_forget_to_history(phrase)
    /\ UNCHANGED <<user, up, mode, log, log_offset, asked, logVars>>

\* "reset" empties what is in memory, and nothing else.
reset ==
    /\ Types("reset")
    /\ mode = "Command"
    /\ history' = <<>>
    /\ session_delta' = <<>>
    /\ exact' = (log = <<>>)
    /\ UNCHANGED <<user, up, mode, log, log_offset, asked, cut, logVars>>

-----------------------------------------------------------------------------
(* The database.                                                           *)

\* bitapp_flush_memory_db: what can come of an append, and what is unsaved
\* after it.
FlushEmpty == session_delta = <<>> /\ UNCHANGED log

FlushSaved(left) ==
    /\ session_delta # <<>>
    /\ Database!AppendRecord(session_delta)
    /\ left = <<>>

\* Mutant: the unsaved records are dropped whatever became of the append.
FlushFailed_cleared(left) ==
    /\ session_delta # <<>>
    /\ UNCHANGED log \/ Database!AppendRecord(session_delta)
    /\ left = <<>>

FlushFailed(left) ==
    /\ session_delta # <<>>
    /\ UNCHANGED log \/ Database!AppendRecord(session_delta)
    /\ left = session_delta

Flush(left) ==
    \/ FlushEmpty /\ left = <<>>
    \/ FlushSaved(left)
    \/ FlushFailed(left)

exit ==
    /\ Types("exit")
    /\ AtPrompt
    /\ \E left \in {<<>>, session_delta} : Flush(left) /\ session_delta' = left
    /\ mode' = "Command"
    /\ UNCHANGED <<user, up, history, log_offset, asked, exact, cut, logVars>>

\* bitapp_reboot restarts the machine whether the flush succeeded or not.
reboot ==
    /\ Types("reboot")
    /\ AtPrompt
    /\ \E left \in {<<>>, session_delta} : Flush(left)
    /\ PowerDown
    /\ UNCHANGED <<user, asked, cut>>

\* bitapp_erase_memory_db: memory is emptied first, whatever the disk does.
\* asked and cut start again with an empty database.
erase_memory ==
    /\ Types("erase")
    /\ AtPrompt
    /\ history' = <<>>
    /\ session_delta' = <<>>
    /\ \/ /\ Database!Erase
          /\ exact' = TRUE
          /\ asked' = {}
          /\ cut' = FALSE
       \/ /\ exact' = (log = <<>>)
          /\ UNCHANGED <<log, asked, cut>>
    /\ UNCHANGED <<user, up, mode, log_offset, logVars>>

-----------------------------------------------------------------------------
(* The log reader.                                                         *)

max_offset == IF len > LOG_PAGE THEN len - LOG_PAGE ELSE 0

clamp(offset) == IF offset < max_offset THEN offset ELSE max_offset

ReaderStep == UNCHANGED <<user, up, history, session_delta, log, asked, exact, cut>>

\* "log": capture stops first, then the newest page is shown.
open_log ==
    /\ Types("log")
    /\ mode = "Command"
    /\ mode' = "Log"
    /\ set_capture_enabled(FALSE)
    /\ log_offset' = clamp(max_offset)
    /\ ReaderStep

turn_page ==
    /\ Types("log")
    /\ mode = "Log"
    /\ \E to \in {log_offset + LOG_PAGE,
                  IF log_offset > LOG_PAGE THEN log_offset - LOG_PAGE ELSE 0,
                  0, max_offset, log_offset} :
         log_offset' = clamp(to)
    /\ UNCHANGED <<mode, logVars>>
    /\ ReaderStep

leave_log ==
    /\ Types("log")
    /\ mode = "Log"
    /\ mode' = "Command"
    /\ set_capture_enabled(TRUE)
    /\ UNCHANGED log_offset
    /\ ReaderStep

\* Ctrl-C drops the line and goes back to the commands, from every mode.
ctrl_c ==
    /\ up
    /\ mode' = "Command"
    /\ IF mode = "Log" THEN set_capture_enabled(TRUE) ELSE UNCHANGED logVars
    /\ UNCHANGED log_offset
    /\ ReaderStep

\* The kernel prints, from any core and in every mode of the shell.
kernel_output(bytes) ==
    /\ Types("log")
    /\ append(bytes)
    /\ UNCHANGED shellVars

-----------------------------------------------------------------------------
Next ==
    \/ \E readable \in BOOLEAN : boot(readable)
    \/ crash
    \/ \E r \in Prompts : run_model_prompt(r)
    \/ \E p \in Phrases : forget(p)
    \/ reset
    \/ exit
    \/ reboot
    \/ erase_memory
    \/ open_log
    \/ turn_page
    \/ leave_log
    \/ ctrl_c
    \/ \E b \in Outputs : kernel_output(b)

Spec == Init /\ [][Next]_vars

-----------------------------------------------------------------------------
\* The state is well formed: neither the records nor the unsaved bytes
\* outgrow their limit, so that one read at boot can hold each
\* (shrink_records, shrink_bytes), and while the log is read nothing is
\* captured, so that its pages do not move and the page shown is inside it.
TypeOK ==
    /\ LogTypeOK
    /\ user \in Users
    /\ up \in BOOLEAN
    /\ mode \in Modes
    /\ log_offset \in 0 .. CONSOLE_LOG_CAPACITY
    /\ {exact, cut} \subseteq BOOLEAN
    /\ asked \subseteq Prompts
    /\ \A i \in DOMAIN history : {"q", "a"} = DOMAIN history[i]
    /\ Len(log) <= MaxAppends
    /\ history_payload_len(history) <= RAM_SHELL_HISTORY_CAP
    /\ Len(session_delta) <= RAM_SHELL_HISTORY_CAP
    /\ capture_enabled = (mode # "Log")
    /\ mode = "Log" => log_offset <= max_offset

\* The records in memory are the replay of everything stored and not yet stored, deletions and
\* replacements included, as long as nothing was dropped for room, reset, left on a disk that failed to
\* erase or not read at boot, and no quoted header was laid bare by dropping the front of a delta: such a
\* header can swallow the records behind it.  A flush that failed after it reached the disk is stored
\* twice and changes no record (append_to_history, append_forget_to_history, bitapp_flush_memory_db,
\* parse_structured_qa_records).
MemoryIsReplay ==
    up /\ exact /\ ~(cut /\ \E r \in asked : QuotedHeaders(r) # {}) =>
        ToSet(history) = ToSet(parse_structured_qa_records(Stored \o session_delta, <<>>))

\* Every record shown was asked and answered: a record cut in two, by the
\* delta's limit or by the end of what boot reads, is never shown in part.
\* Only after bytes were dropped from the front of a delta (shrink_bytes) is
\* the rest of a record read as text, and then something else is shown only
\* if that text quotes a legacy record or a header: then the parser takes
\* the quotation for the record itself (parse_structured_qa_records).
RecordsWereAsked ==
    \A s \in ToSet(history) \ asked : cut /\ \E r \in asked : Quotes(r, s)

\* No two records shown have the same key, the key being the one the phrase
\* table gives (upsert_history_record, contains_word_sequence).
OneRecordPerKey ==
    \A i, j \in DOMAIN history :
        i # j /\ RecordKeyOf(history[i]) # NoKey => RecordKeyOf(history[i]) # RecordKeyOf(history[j])
=============================================================================
