-------------------------- MODULE LspMessageParser --------------------------
(***************************************************************************)
(* The framing of the protocol (LSP_Message_Parser): headers, an empty     *)
(* line, and as many bytes of content as the headers said.  Bytes come in  *)
(* pieces; what is complete is parsed and dropped from buffer_, the rest   *)
(* is kept and parsed again with the next piece.                           *)
(*                                                                         *)
(* A byte is CR, LF, or a symbol.  A symbol of LengthHeaders stands for    *)
(* the text of a Content-Length header, one of BadLengthHeaders for such a *)
(* header whose value is not a number; any other symbol begins a header of *)
(* another name, or is a byte of some content.                             *)
(***************************************************************************)
EXTENDS Naturals, Sequences, SequencesExt

CONSTANTS LengthHeaders,     \* Content-Length headers
          ContentLength,     \* their values
          BadLengthHeaders,  \* Content-Length headers without a number
          NoLength           \* std::nullopt

ASSUME HeadersAssumption ==
    /\ ContentLength \in [LengthHeaders -> Nat]
    /\ LengthHeaders \cap BadLengthHeaders = {}
    /\ NoLength \notin Nat

CrLf == <<"CR", "LF">>
StartsAt(s, i, part) == i + Len(part) - 1 <= Len(s) /\ SubSeq(s, i, i + Len(part) - 1) = part

(* std::search: where part begins at or after from, or one beyond the end of s. *)
Search(s, from, part) ==
    LET search[i \in from .. Len(s) + 1] ==
            IF i > Len(s) \/ StartsAt(s, i, part) THEN i ELSE search[i + 1]
    IN  search[from]

(* find_content_begin: the byte after the empty line, or 0 when there is none yet. *)
FindContentBegin(buffer, headers_begin) ==
    LET terminator == Search(buffer, headers_begin, CrLf \o CrLf)
    IN  IF terminator > Len(buffer) THEN 0 ELSE terminator + 4

(***************************************************************************)
(* parse_message_headers over the lines before the empty line: the first   *)
(* Content-Length that is a number decides and ends the loop; one that is  *)
(* not leaves the 0 of emplace() behind, unless a good one follows.        *)
(***************************************************************************)
IsContentLength(line) == line # <<>> /\ line[1] \in LengthHeaders \cup BadLengthHeaders
IsGoodLength(line) == Len(line) = 1 /\ line[1] \in LengthHeaders

ParseMessageHeaders(headers) ==
    LET LineEnd(at) == Search(headers, at, CrLf)
        Line(at) == SubSeq(headers, at, LineEnd(at) - 1)
        content_length[at \in 1 .. Len(headers) + 3] ==
            IF at > Len(headers) THEN NoLength
            ELSE IF IsGoodLength(Line(at)) THEN ContentLength[Line(at)[1]]
            ELSE IF IsContentLength(Line(at)) /\ content_length[LineEnd(at) + 2] = NoLength THEN 0
            ELSE content_length[LineEnd(at) + 2]
    IN  content_length[1]

-----------------------------------------------------------------------------
VARIABLES buffer_, pending_message_content_length_

parser == <<buffer_, pending_message_content_length_>>

InitParser ==
    /\ buffer_ = <<>>
    /\ pending_message_content_length_ = NoLength

(* append *)
AppendData(data) ==
    /\ buffer_' = buffer_ \o data
    /\ UNCHANGED pending_message_content_length_

(***************************************************************************)
(* The loop of parse.  What it has passed is dropped at once here; the     *)
(* code drops it when the loop ends.                                       *)
(***************************************************************************)
ContentIsPending == pending_message_content_length_ # NoLength
ContentIsComplete == ContentIsPending /\ Len(buffer_) >= pending_message_content_length_
HeadersAreComplete == ~ContentIsPending /\ FindContentBegin(buffer_, 1) # 0
CanParse == ContentIsComplete \/ HeadersAreComplete

(* The message that message_parsed is called with. *)
ParsedContent == SubSeq(buffer_, 1, pending_message_content_length_)

ParseContent_Clear ==  \* mutated: what follows the message is dropped too
    /\ ContentIsComplete
    /\ buffer_' = <<>>
    /\ pending_message_content_length_' = NoLength
ParseContent ==
    /\ ContentIsComplete
    /\ buffer_' = SubSeq(buffer_, pending_message_content_length_ + 1, Len(buffer_))
    /\ pending_message_content_length_' = NoLength

ParseHeaders ==
    /\ HeadersAreComplete
    /\ LET content_begin == FindContentBegin(buffer_, 1)
       IN  /\ buffer_' = SubSeq(buffer_, content_begin, Len(buffer_))
           /\ pending_message_content_length_' =
                  ParseMessageHeaders(SubSeq(buffer_, 1, content_begin - 1))
=============================================================================
