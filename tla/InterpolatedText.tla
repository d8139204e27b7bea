-------------------------- MODULE InterpolatedText --------------------------
(***************************************************************************)
(* Interpolated text literals (parser/text_expression.rs, heredoc.rs): a   *)
(* heredoc body is dedented, the result is scanned for escapes and `&{..}` *)
(* markers, and every span found there is mapped back onto the source.     *)
(*                                                                         *)
(* A literal is [form, lines, indent]: its lines are [indent, chars], the  *)
(* text after the indentation, and `indent` is the closing fence's.  A     *)
(* text is a sequence of bytes, a letter outside ASCII a first byte and    *)
(* `Rest`.  Offsets count bytes, from 0; columns count characters and      *)
(* lines, from 1; both start at the body of the literal.                   *)
(***************************************************************************)
EXTENDS Naturals, Sequences, SequencesExt

Newline == "LF"
Letters == {"a", "b", "n", "t", "_"}
Digits == {"0", "1"}
Rest == "rest"
Spaces(n) == [k \in 1 .. n |-> " "]

\* chars().count()
CharacterCount(text) == Len(SelectSeq(text, LAMBDA byte : byte # Rest))

IsBlank(line) == \A k \in DOMAIN line.chars : line.chars[k] = " "

\* step.rs valid_binding_identifier
ValidIdentifier(name) ==
  /\ name # <<>> /\ name[1] \in Letters
  /\ \A k \in DOMAIN name : name[k] \in Letters \cup Digits

-----------------------------------------------------------------------------
(* Dedenting.                                                              *)

Written(line) == Spaces(line.indent) \o line.chars
Ending(literal) == IF literal.form = "heredoc" THEN <<Newline>> ELSE <<>>

\* The body as it is in the source.
BodyText(literal) ==
  FlattenSeq([k \in DOMAIN literal.lines |-> Written(literal.lines[k]) \o Ending(literal)])

StrippedColumns(literal, k) ==
  IF literal.form = "heredoc" /\ IsBlank(literal.lines[k])
  THEN Len(Written(literal.lines[k])) ELSE literal.indent

\* The body the scanner sees, up to and including line k.
DedentedUpTo(literal, k) ==
  FlattenSeq([j \in 1 .. k |->
    SubSeq(Written(literal.lines[j]), StrippedColumns(literal, j) + 1,
           Len(Written(literal.lines[j]))) \o Ending(literal)])
DedentedText(literal) == DedentedUpTo(literal, Len(literal.lines))

\* DedentedLine: where each line of the dedented text comes from.
Origins(literal) ==
  [k \in DOMAIN literal.lines |->
     [dedentedStart |-> Len(DedentedUpTo(literal, k - 1)),
      sourceStart |-> Len(FlattenSeq([j \in 1 .. k - 1 |->
                        Written(literal.lines[j]) \o Ending(literal)]))
                      + StrippedColumns(literal, k),
      line |-> k,
      stripped |-> StrippedColumns(literal, k)]]

\* A wrong edit: the column counts bytes.
SourceSpanByteColumn(literal, start, end) ==
  LET origins == Origins(literal)
      origin == SelectInSeq(Reverse(origins), LAMBDA o : o.dedentedStart <= start)
      at == Reverse(origins)[origin]
  IN [start |-> at.sourceStart + (start - at.dedentedStart),
      end |-> at.sourceStart + (end - at.dedentedStart),
      line |-> at.line, column |-> at.stripped + (start - at.dedentedStart) + 1]

\* DedentedHeredoc::source_span: from the last line that starts at or before `start`.
SourceSpan(literal, start, end) ==
  LET origins == Origins(literal)
      origin == SelectInSeq(Reverse(origins), LAMBDA o : o.dedentedStart <= start)
      at == Reverse(origins)[origin]
      before == SubSeq(DedentedText(literal), at.dedentedStart + 1, start)
  IN [start |-> at.sourceStart + (start - at.dedentedStart),
      end |-> at.sourceStart + (end - at.dedentedStart),
      line |-> at.line, column |-> at.stripped + CharacterCount(before) + 1]

-----------------------------------------------------------------------------
(* Scanning.                                                               *)

EscapeValues == [c \in {"\\", "&", "QUOTE", "n", "t"} |->
             CASE c = "n" -> Newline [] c = "t" -> "TAB" [] OTHER -> c]
EscapedIn(form) == IF form = "string" THEN DOMAIN EscapeValues ELSE {"\\", "&"}

EndOfText == "end of text"
At(text, offset) == IF offset < Len(text) THEN text[offset + 1] ELSE EndOfText

\* interpolated_string_char: what the grammar lets a string hold at all.
StringForm(text) ==
  LET ok[o \in 0 .. Len(text) + 1] ==
        \/ o >= Len(text)
        \/ IF At(text, o) = "\\" THEN At(text, o + 1) \in DOMAIN EscapeValues /\ ok[o + 2]
           ELSE At(text, o) \notin {"QUOTE", Newline} /\ ok[o + 1]
  IN ok[0]

\* Where the name of a marker stops: at its `}` or at the end of the line.
NameEnd(text, offset) ==
  CHOOSE e \in offset .. Len(text) :
    /\ At(text, e) \in {"}", Newline, EndOfText}
    /\ \A o \in offset .. e - 1 : At(text, o) \notin {"}", Newline}

\* scan_binding_reference: the marker at an unescaped `&`, or what is wrong with it.
Marker(text, offset) ==
  LET Found(error, name, from, to) == [error |-> error, name |-> name, start |-> from, end |-> to]
  IN IF At(text, offset + 1) # "{" THEN Found("malformed", <<>>, offset, offset + 1)
     ELSE LET end == NameEnd(text, offset + 2)
              name == SubSeq(text, offset + 3, end)
          IN IF At(text, end) # "}" THEN Found("unterminated", name, offset, end)
             ELSE IF name = <<>> THEN Found("empty_name", name, offset, end + 1)
             ELSE IF ~ValidIdentifier(name) THEN Found("invalid_identifier", name, offset + 2, end)
             ELSE Found("none", name, offset, end + 1)

\* scan_interpolated_text: one piece per literal byte or marker, up to the first error.
Scan(text, form) ==
  LET Literal(c, rest) == [rest EXCEPT !.pieces = <<[literal |-> c]>> \o @]
      from[o \in 0 .. Len(text)] ==
        IF o = Len(text) THEN [error |-> "none", pieces |-> <<>>]
        ELSE IF At(text, o) = "\\"
        THEN IF At(text, o + 1) \in EscapedIn(form)
             THEN Literal(EscapeValues[At(text, o + 1)], from[o + 2])
             ELSE Literal("\\", from[o + 1])
        ELSE IF At(text, o) = "&"
        THEN LET marker == Marker(text, o)
             IN IF marker.error # "none" THEN [error |-> marker.error, pieces |-> <<marker>>]
                ELSE [from[marker.end] EXCEPT !.pieces = <<marker>> \o @]
        ELSE Literal(At(text, o), from[o + 1])
  IN from[0]

\* The pieces of a literal, each marker with its span in the source.
Segments(literal) ==
  LET scanned == Scan(DedentedText(literal), literal.form)
  IN [k \in DOMAIN scanned.pieces |-> LET piece == scanned.pieces[k]
        IN IF "literal" \in DOMAIN piece THEN piece
           ELSE [error |-> piece.error, name |-> piece.name,
                 span |-> SourceSpan(literal, piece.start, piece.end)]]

Markers(literal) == SelectSeq(Segments(literal), LAMBDA s : "span" \in DOMAIN s)
MarkerDefect(literal) == Scan(DedentedText(literal), literal.form).error
References(literal) ==
  LET pieces == Range(Scan(DedentedText(literal), literal.form).pieces)
  IN {p.name : p \in {q \in pieces : "name" \in DOMAIN q}}

-----------------------------------------------------------------------------
(* What a literal must be like.                                            *)

Cut(text, span) == SubSeq(text, span.start + 1, span.end)

\* What stands in the source where a span points.
Shows(marker, text) ==
  CASE marker.error = "none"      -> text = <<"&", "{">> \o marker.name \o <<"}">>
    [] marker.error = "malformed" -> text = <<"&">>
    [] marker.error = "empty_name" -> text = <<"&", "{", "}">>
    [] marker.error = "unterminated" ->
         /\ SubSeq(text, 1, 2) = <<"&", "{">>
         /\ \A k \in DOMAIN text : text[k] \notin {"}", Newline}
    [] OTHER -> text = marker.name /\ text # <<>> /\ ~ValidIdentifier(text)

\* The text stands in a line at a column: after as many characters as come before it.
StandsAt(text, line, column) ==
  \E n \in 0 .. Len(line) :
    /\ CharacterCount(SubSeq(line, 1, n)) = column - 1 /\ At(line, n) # Rest
    /\ SubSeq(line, n + 1, n + Len(text)) = text

\* Every span cuts its marker out of the source, and its line and column say where it is.
SpansPoint(literal) ==
  LET body == BodyText(literal)
  IN \A marker \in Range(Markers(literal)) :
       /\ Shows(marker, Cut(body, marker.span))
       /\ StandsAt(Cut(body, marker.span), Written(literal.lines[marker.span.line]),
                   marker.span.column)

\* Writing a text down and reading it again gives the text: every text can be said.
EscapedText(text, form) ==
  FlattenSeq([k \in DOMAIN text |->
    IF text[k] \in {"\\", "&"} \cup (IF form = "string" THEN {"QUOTE"} ELSE {})
    THEN <<"\\", text[k]>> ELSE <<text[k]>>])
Sayable(text, form) ==
  Scan(EscapedText(text, form), form) =
    [error |-> "none", pieces |-> [k \in DOMAIN text |-> [literal |-> text[k]]]]
=============================================================================
