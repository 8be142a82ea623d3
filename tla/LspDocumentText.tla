-------------------------- MODULE LspDocumentText --------------------------
(***************************************************************************)
(* The text of a document that an editor changes incrementally             *)
(* (LSP_Document_Text) and the table of its lines that turns positions of  *)
(* the protocol - a line and a number of UTF-16 code units - into offsets   *)
(* of the UTF-8 text and back (LSP_Locator).  The table is not computed    *)
(* again after an edit: the part before the edit is kept, the replacement  *)
(* is scanned, the part after it is shifted.                               *)
(*                                                                         *)
(* Text is a sequence of bytes.  A byte is a letter, CR or LF, or one of   *)
(* the bytes of a character of two bytes and one UTF-16 unit, or of a      *)
(* character of four bytes and two units.  Offsets and lines count from 0  *)
(* as in the code; the byte at offset o is text[o + 1].                    *)
(***************************************************************************)
EXTENDS Naturals, Sequences, SequencesExt, FiniteSetsExt

CONSTANTS Texts,         \* whole documents the editor may send
          Replacements,  \* texts it may put in the place of a range
          MaxBytes,      \* bound on the size of the document
          MaxJoined,     \* bound on the edits of a document since a CR was made to meet an LF
          Beyond         \* how far beyond the end of a line a position may be

Letter == <<"a">>
CR == <<"CR">>
LF == <<"LF">>
TwoBytes == <<"e1", "e2">>               \* one UTF-16 code unit
FourBytes == <<"s1", "s2", "s3", "s4">>  \* a surrogate pair
Characters == {Letter, CR, LF, TwoBytes, FourBytes}
Ascii == {"a", "CR", "LF"}

ASSUME TextsAssumption ==
    /\ \A t \in Texts \cup Replacements : t \in Seq(Ascii \cup Range(TwoBytes) \cup Range(FourBytes))
    /\ MaxBytes \in Nat /\ MaxJoined \in Nat /\ Beyond \in Nat

VARIABLES text,             \* buffers_: the active one of the two
          offset_of_lines,
          line_is_ascii,
          overran,          \* a scan of the text has left its buffer
          edited,           \* the document as the editor has it
          joined            \* history variable: how many edits there were since one made a
                            \* CR meet an LF, that one included, and the document was not
                            \* sent as a whole

documentVars == <<text, offset_of_lines, line_is_ascii, overran, edited, joined>>

(***************************************************************************)
(* decode_utf_8 and the two functions that count UTF-16 units with it.     *)
(* Bytes that are not a character count as one unit each.                  *)
(***************************************************************************)
At(t, o) == t[o + 1]
Starts(t, o, c) == o + Len(c) <= Len(t) /\ SubSeq(t, o + 1, o + Len(c)) = c
Size(t, o) == IF Starts(t, o, FourBytes) THEN 4 ELSE IF Starts(t, o, TwoBytes) THEN 2 ELSE 1
Units(t, o) == IF Starts(t, o, FourBytes) THEN 2 ELSE 1

AdvanceLspCharacters(line, character_count) ==
    LET advance[at \in (0 .. Len(line)) \X (0 .. character_count)] ==
            LET c == at[1]  characters == at[2]
            IN  IF characters = character_count \/ c = Len(line) THEN c
                ELSE IF characters + Units(line, c) > character_count THEN c
                ELSE advance[<<c + Size(line, c), characters + Units(line, c)>>]
    IN  IF character_count >= Len(line) THEN Len(line) ELSE advance[<<0, 0>>]

CountLspCharacters_OfCharacters(line, stop) ==  \* mutated: a surrogate pair counts once
    LET count[c \in 0 .. stop] ==
            IF c = stop \/ c + Size(line, c) > stop THEN 0 ELSE 1 + count[c + Size(line, c)]
    IN  count[0]
CountLspCharacters(line, stop) ==
    LET count[c \in 0 .. stop] ==
            IF c = stop \/ c + Size(line, c) > stop THEN 0
            ELSE Units(line, c) + count[c + Size(line, c)]
    IN  count[0]

(***************************************************************************)
(* compute_offsets_of_lines: what scanning the bytes from begin to end     *)
(* adds to the table: the beginnings of the lines after the terminators    *)
(* found, whether each line that ends there is ASCII, and whether what is  *)
(* left after the last terminator is.  A CR at the very end that an LF     *)
(* follows takes the scan beyond the end, where nothing stops it: it reads *)
(* on through the buffer and what lies behind it (Overruns).               *)
(***************************************************************************)
TerminatorAt(t, c) ==
    IF Starts(t, c, CR \o LF) THEN 2 ELSE IF At(t, c) \in {"CR", "LF"} THEN 1 ELSE 0
Flag(scan, ascii) ==
    IF ascii THEN scan
    ELSE IF scan.ascii = <<>> THEN [scan EXCEPT !.last = FALSE]
    ELSE [scan EXCEPT !.ascii = <<FALSE>> \o Tail(@)]
AfterLine(scan, c) ==
    [offsets |-> <<c>> \o scan.offsets, ascii |-> <<TRUE>> \o scan.ascii, last |-> scan.last]
ComputeOffsetsOfLines(t, begin, end) ==
    LET scan[c \in begin .. end] ==
            IF c = end THEN [offsets |-> <<>>, ascii |-> <<>>, last |-> TRUE]
            ELSE IF TerminatorAt(t, c) = 0 THEN Flag(scan[c + 1], At(t, c) \in Ascii)
            ELSE AfterLine(scan[c + TerminatorAt(t, c)], c + TerminatorAt(t, c))
    IN  scan[begin]
Overruns(t, begin, end) == begin < end /\ Starts(t, end - 1, CR \o LF)

(* cache_offsets_of_lines: the table of a new locator. *)
CacheOffsetsOfLines(t) ==
    LET scan == ComputeOffsetsOfLines(t, 0, Len(t))
    IN  [offsets |-> <<0>> \o scan.offsets, ascii |-> Append(scan.ascii, scan.last)]

NumberOfLines == Len(offset_of_lines)
LineBegin(line) == offset_of_lines[line + 1]
LineIsAscii(line) == line_is_ascii[line + 1]

(* The bytes of a line and of its terminator: CR LF, CR, LF, or nothing on the last line. *)
LineEnd(line) == IF line = NumberOfLines - 1 THEN Len(text) ELSE LineBegin(line + 1)
TerminatorLength_One(line) == IF line = NumberOfLines - 1 THEN 0 ELSE 1  \* mutated: CR LF is two bytes
TerminatorLength(line) ==
    IF line = NumberOfLines - 1 THEN 0
    ELSE IF LineEnd(line) - LineBegin(line) >= 2 /\ Starts(text, LineEnd(line) - 2, CR \o LF) THEN 2
    ELSE 1
LineLength(line) == LineEnd(line) - TerminatorLength(line) - LineBegin(line)

(* from_position: a position beyond its line is the end of the line. *)
FromPosition(p) ==
    IF p.line >= NumberOfLines THEN Len(text)
    ELSE LineBegin(p.line) +
         IF LineIsAscii(p.line)
         THEN IF p.character > LineLength(p.line) THEN LineLength(p.line) ELSE p.character
         ELSE AdvanceLspCharacters(
                  SubSeq(text, LineBegin(p.line) + 1, LineBegin(p.line) + LineLength(p.line)),
                  p.character)

(* position: binary search of the line, then the units since its beginning. *)
FindLineAtOffset(offset) == Quantify(1 .. NumberOfLines - 1, LAMBDA i : LineBegin(i) <= offset)
Position(offset) ==
    LET line == FindLineAtOffset(offset)
        begin == LineBegin(line)
    IN  [line |-> line,
         character |-> IF LineIsAscii(line) THEN offset - begin
                       ELSE CountLspCharacters(SubSeq(text, begin + 1, Len(text)), offset - begin)]

DocumentInit ==
    /\ text = <<>>
    /\ edited = <<>>
    /\ overran = FALSE /\ joined = 0
    /\ offset_of_lines = CacheOffsetsOfLines(<<>>).offsets
    /\ line_is_ascii = CacheOffsetsOfLines(<<>>).ascii

(* set_text: the whole document; the editor opened it or sent all of it. *)
SetText(new_text) ==
    /\ text' = new_text
    /\ edited' = new_text
    /\ joined' = 0
    /\ offset_of_lines' = CacheOffsetsOfLines(new_text).offsets
    /\ line_is_ascii' = CacheOffsetsOfLines(new_text).ascii
    /\ UNCHANGED overran

Splice(t, begin, end, replacement) ==
    SubSeq(t, 1, begin) \o replacement \o SubSeq(t, end + 1, Len(t))

(***************************************************************************)
(* LSP_Locator::replace_text: the lines before the edit are kept, the     *)
(* replacement is scanned, the lines after it are shifted.                *)
(***************************************************************************)
EndLine(range) == IF range.end.line < NumberOfLines THEN range.end.line ELSE NumberOfLines - 1
ShiftedOffsets_Added(first, removed, added) ==  \* mutated: what was removed is forgotten
    [i \in 1 .. NumberOfLines - first |-> LineBegin(first + i - 1) + added]
ShiftedOffsets(first, removed, added) ==
    [i \in 1 .. NumberOfLines - first |-> LineBegin(first + i - 1) + added - removed]
FirstLineAscii(ascii, line) ==
    IF ascii = <<>> THEN <<>> ELSE <<ascii[1] /\ LineIsAscii(line)>> \o Tail(ascii)
LastLineAscii_OfStart(last, start_line, end_line) == last /\ LineIsAscii(start_line)  \* mutated
LastLineAscii(last, start_line, end_line) ==
    last /\ LineIsAscii(start_line) /\ LineIsAscii(end_line)

ReplacedLines(range, replacement, new_input) ==
    LET start_offset == FromPosition(range.start)
        removed == FromPosition(range.end) - start_offset
        start_line == range.start.line
        end_line == EndLine(range)
        within == ComputeOffsetsOfLines(new_input, start_offset, start_offset + Len(replacement))
    IN  [offsets |-> SubSeq(offset_of_lines, 1, start_line + 1) \o within.offsets \o
                     ShiftedOffsets(end_line + 1, removed, Len(replacement)),
         ascii |-> SubSeq(line_is_ascii, 1, start_line) \o FirstLineAscii(within.ascii, start_line) \o
                   <<LastLineAscii(within.last, start_line, end_line)>> \o
                   SubSeq(line_is_ascii, end_line + 2, NumberOfLines)]

(* replace_text: the other buffer takes the spliced text and becomes the active one.  If the *)
(* scan overruns, replace_text does not return and the server is lost. *)
ReplaceText(range, replacement) ==
    LET start_offset == FromPosition(range.start)
        new_input == Splice(text, start_offset, FromPosition(range.end), replacement)
        lines == ReplacedLines(range, replacement, new_input)
    IN  \/ /\ Overruns(new_input, start_offset, start_offset + Len(replacement))
           /\ overran' = TRUE
           /\ UNCHANGED <<text, offset_of_lines, line_is_ascii>>
        \/ /\ ~Overruns(new_input, start_offset, start_offset + Len(replacement))
           /\ text' = new_input
           /\ offset_of_lines' = lines.offsets
           /\ line_is_ascii' = lines.ascii
           /\ UNCHANGED overran

-----------------------------------------------------------------------------
(***************************************************************************)
(* The editor, by the words of the protocol: what a line, a position and   *)
(* an edit are, said of its whole document and not of a table.             *)
(***************************************************************************)
AfterTerminator(t, o) ==
    o > 0 /\ (At(t, o - 1) = "LF" \/ (At(t, o - 1) = "CR" /\ ~Starts(t, o, LF)))
InsideTerminator(t, o) == o > 0 /\ Starts(t, o - 1, CR \o LF)
InsideCharacter(t, o) ==
    \/ o > 0 /\ Starts(t, o - 1, TwoBytes)
    \/ \E k \in 1 .. 3 : o >= k /\ Starts(t, o - k, FourBytes)
Places(t) == {o \in 0 .. Len(t) : ~InsideTerminator(t, o) /\ ~InsideCharacter(t, o)}

LineStarts(t) == {0} \cup {o \in 1 .. Len(t) : AfterTerminator(t, o)}
EditorPosition(t, o) ==
    LET begin == Max({s \in LineStarts(t) : s <= o})
        characters == {c \in begin .. o - 1 : ~InsideCharacter(t, c)}
    IN  [line |-> Quantify(LineStarts(t), LAMBDA s : 0 < s /\ s <= o),
         character |-> Cardinality(characters) + Quantify(characters, LAMBDA c : Starts(t, c, FourBytes))]

(* A place and the positions that mean it: at the end of a line any character beyond it. *)
AtLineEnd(t, o) == o = Len(t) \/ At(t, o) \in {"CR", "LF"}
PositionsOf(t, o) ==
    LET p == EditorPosition(t, o)
    IN  {p} \cup IF AtLineEnd(t, o)
                 THEN {[p EXCEPT !.character = @ + k] : k \in 1 .. Beyond} ELSE {}
EndPositionsOf(t, o) ==
    PositionsOf(t, o) \cup
    IF o = Len(t) THEN {[line |-> Cardinality(LineStarts(t)), character |-> 0]} ELSE {}

(* The edit makes a CR that was there, or that is new, meet an LF at one of its two ends. *)
JoinsTerminator(t, begin, end, replacement) ==
    LET new == Splice(t, begin, end, replacement)
    IN  InsideTerminator(new, begin) \/ InsideTerminator(new, begin + Len(replacement))

Replace ==
    \E begin, end \in Places(edited), replacement \in Replacements :
        /\ begin <= end
        /\ Len(edited) - (end - begin) + Len(replacement) <= MaxBytes
        /\ joined' = IF joined > 0 \/ JoinsTerminator(edited, begin, end, replacement)
                     THEN joined + 1 ELSE 0
        /\ joined' <= MaxJoined
        /\ edited' = Splice(edited, begin, end, replacement)
        /\ \E start_position \in PositionsOf(edited, begin), end_position \in EndPositionsOf(edited, end) :
              ReplaceText([start |-> start_position, end |-> end_position], replacement)
        /\ Len(text') <= MaxBytes

DocumentNext ==
    /\ ~overran
    /\ (\E t \in Texts : SetText(t)) \/ Replace

DocumentSpec == DocumentInit /\ [][DocumentNext]_documentVars

-----------------------------------------------------------------------------
(* replace_text makes of the old table what a new locator computes from the text *)
(* (validate_caches_debug); a line may only be thought non-ASCII without being so.  But an edit *)
(* that makes a CR meet an LF breaks the table (lsp-location.cpp:150-160, 242-243), until the *)
(* editor sends the whole document again. *)
TableMatchesText ==
    joined = 0 =>
        LET fresh == CacheOffsetsOfLines(text)
        IN  /\ offset_of_lines = fresh.offsets
            /\ \A i \in 1 .. NumberOfLines : line_is_ascii[i] => fresh.ascii[i]

(* Unless one of the edits since the whole document was sent made a CR meet an LF, the text the *)
(* server checks is the text the editor shows: every range it was sent, beyond the end of a line *)
(* or of the document too, was cut out of the right place (LSP_Document_Text::replace_text). *)
TextIsEdited == joined = 0 => text = edited

(* Under the same condition, a diagnostic at a place of the text is sent with the position the *)
(* editor gives that place, and that position leads back to it (position, from_position, also on *)
(* lines whose flag is only an estimate). *)
PositionsAgree ==
    joined = 0 =>
        \A o \in Places(text) :
            /\ Position(o) = EditorPosition(text, o)
            /\ FromPosition(Position(o)) = o

(* Whatever was edited, and also if the text is no longer the editor's, the table lists all lines *)
(* of the text, and besides them only places between a CR and an LF that were joined: a broken *)
(* table has too many lines, never too few, and none in the middle of a line (replace_text). *)
OnlyTerminatorsAreSplit ==
    LET lines == Range(offset_of_lines)
    IN  /\ LineStarts(text) \subseteq lines
        /\ \A o \in lines \ LineStarts(text) : InsideTerminator(text, o)
=============================================================================
