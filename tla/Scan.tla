-------------------------------- MODULE Scan --------------------------------
(***************************************************************************)
(* The scan of a request body on its way to a self-hosted Bot API server   *)
(* (tgin-botapi/src/gateway/local_files.rs and its http_reader.rs): a body *)
(* is read as the server reads it, frame by frame, and has to come out     *)
(* clean of local file references before its end is passed on.             *)
(*                                                                         *)
(* A byte is a character of a small alphabet; the two hex digits of an     *)
(* escape decode with Decoded.  A part's header line is one byte: what it  *)
(* says of the part.                                                       *)
(***************************************************************************)
EXTENDS Integers, Sequences, SequencesExt, FiniteSets, FiniteSetsExt

CONSTANTS
    Bodies,         \* by encoding: the bodies that are sent
    LocalPrefix,    \* LOCAL_PREFIX
    MaxDepth,       \* MAX_DEPTH
    MaxParameters,  \* MAX_PARAMETERS
    MaxHeaders,     \* MAX_PART_HEADERS
    Boundary,       \* the delimiter of a multipart body
    FrameSizes      \* bound: how many bytes a frame has

Hex == {"6", "f"}
Decoded(high, low) == IF high = "6" /\ low = "6" THEN "f" ELSE "x"
Spaces == {" ", "\r", "\n"}
Hit == 0 - 1    \* u8::MAX: cannot match any more

-----------------------------------------------------------------------------
(* Values: what the value at each depth has shown of itself.               *)

FreshValue == [matched |-> 0, shape |-> "leading"]
Outside == [at |-> "outside", digits |-> <<>>]
NoValues == [value |-> [d \in 1 .. MaxDepth |-> FreshValue],
             json |-> [d \in 1 .. MaxDepth |-> Outside], found |-> FALSE]

StartValue(v, d) == [v EXCEPT !.value[d] = FreshValue, !.json[d] = Outside]

\* The prefix a value begins with, byte by byte.
Matched(m, b) == IF m = Hit \/ m = Len(LocalPrefix) THEN m
                 ELSE IF LocalPrefix[m + 1] = b THEN m + 1 ELSE Hit

\* Values::json_byte: where the document's scan goes, and the byte of a string
\* that this one completes, if any.  Strings are values one level deeper.
JsonByte(v, d, b) ==
    LET was == v.json[d]
        \* No escape after all: the byte is text again.
        at == IF was.at = "unicode" /\ b \notin Hex THEN "text" ELSE was.at
        goes(to, digits, out) == [v |-> [v EXCEPT !.json[d] = [at |-> to, digits |-> digits]], out |-> out]
    IN CASE at = "outside" /\ b = "'" ->
                [v |-> [StartValue(v, d + 1) EXCEPT !.json[d].at = "text"], out |-> {}]
         [] at = "outside" /\ b # "'" -> [v |-> v, out |-> {}]
         [] at = "text" /\ b = "'" -> goes("outside", <<>>, {})
         [] at = "text" /\ b = "\\" -> goes("escape", <<>>, {})
         [] at = "text" /\ b \notin {"'", "\\"} -> goes("text", <<>>, {b})
         [] at = "escape" /\ b = "u" -> goes("unicode", <<>>, {})
         [] at = "escape" /\ b # "u" -> goes("text", <<>>, {b})
         [] at = "unicode" /\ was.digits = <<>> -> goes("unicode", <<b>>, {})
         [] at = "unicode" /\ was.digits # <<>> -> goes("text", <<>>, {Decoded(was.digits[1], b)})

\* Values::byte, and what it sets off at the deeper levels.
RECURSIVE ValueByte(_, _, _)
Deeper(r, d) == IF r.out = {} THEN r.v ELSE ValueByte(r.v, d, CHOOSE c \in r.out : TRUE)
ValueByte(v, d, b) ==
    LET was == v.value[d]
        m == Matched(was.matched, b)
        opens == was.shape = "leading" /\ b = "["
        shape == IF opens /\ d < MaxDepth THEN "json"
                 ELSE IF was.shape = "leading" /\ b \notin Spaces THEN "plain" ELSE was.shape
        \* A document too deep to follow counts as found.
        w == [v EXCEPT !.value[d] = [matched |-> m, shape |-> shape],
                       !.found = @ \/ (m # was.matched /\ m = Len(LocalPrefix)) \/ (opens /\ d = MaxDepth)]
    IN Deeper(IF shape = "json" THEN JsonByte(w, d, b) ELSE [v |-> w, out |-> {}], d + 1)

\* The next bytes of a value, or of a JSON body.
ValueBytes(v, data) == FoldLeft(LAMBDA w, b : ValueByte(w, 1, b), v, data)
JsonBytes(v, data) == ValueBytes([v EXCEPT !.value[1] = [matched |-> Hit, shape |-> "json"]], data)

-----------------------------------------------------------------------------
(* Form: an urlencoded text, and the bytes of a value held back: a "%", or *)
(* a "%" and a digit.                                                      *)

NoForm == [at |-> "name", held |-> <<>>, values |-> NoValues]

\* Form::byte, value_byte and end: what is decoded, once no escape is under
\* way; an escape that turns out to be none is text.
FormByte(f, b) ==
    LET escape == f.held # <<>> /\ b \in Hex
        out == CASE escape /\ Len(f.held) = 2 -> <<Decoded(f.held[2], b)>>
                 [] escape /\ Len(f.held) = 1 -> <<>>
                 [] ~escape /\ b = "+" -> f.held \o <<" ">>
                 [] ~escape /\ b \in {"&", "%", "end"} -> f.held
                 [] OTHER -> Append(f.held, b)
        keep == CASE escape /\ Len(f.held) = 1 -> <<"%", b>> [] ~escape /\ b = "%" -> <<"%">> [] OTHER -> <<>>
    IN IF f.at = "name" THEN IF b = "=" THEN [f EXCEPT !.at = "value", !.values = StartValue(@, 1)] ELSE f
       ELSE [at |-> IF ~escape /\ b \in {"&", "end"} THEN "name" ELSE "value", held |-> keep,
             values |-> ValueBytes(f.values, out)]
FormEnd(f) == FormByte(f, "end")

-----------------------------------------------------------------------------
(* Multipart.                                                              *)

FirstDelimiter == <<"-", "-">> \o Boundary
NextDelimiter == <<"\r", "\n">> \o FirstDelimiter
Blank == <<"\r", "\n", "\r", "\n">>

\* Mutant: a byte that does not match begins anew.
FailAlways(p, k) == 0

\* Delimiter: the longest proper prefix of the first k bytes that ends them.
Fail(p, k) == Max({j \in 0 .. k - 1 : SubSeq(p, 1, j) = SubSeq(p, k - j + 1, k)})

\* Delimiter::step: the bytes matched so far, and those that turned out to
\* be content.
RECURSIVE DelimiterStep(_, _, _, _)
DelimiterStep(p, k, b, content) ==
    IF p[k + 1] = b THEN IF k + 1 = Len(p) THEN [k |-> 0, content |-> content, done |-> TRUE]
                         ELSE [k |-> k + 1, content |-> content, done |-> FALSE]
    ELSE IF k = 0 THEN [k |-> 0, content |-> Append(content, b), done |-> FALSE]
    ELSE DelimiterStep(p, Fail(p, k), b, content \o SubSeq(p, 1, k - Fail(p, k)))

NoMultipart == [state |-> "prologue", kind |-> "none", matched |-> 0, headers |-> <<>>, headersTotal |-> 0,
                textTotal |-> 0, values |-> NoValues, form |-> NoForm, verdict |-> "none"]

\* part_head and disposition, of the header block's lines: "N" a name, "F" a
\* file name as well, "T" a form's content type; "X" stands for what the
\* server answers with a 400.
PartHead(block) ==
    LET lines == Range(block) \ {"\r", "\n"}
    IN IF "X" \in lines \/ lines \cap {"N", "F"} = {} THEN {}
       ELSE {IF "F" \in lines THEN "file" ELSE IF "T" \in lines THEN "form" ELSE "text"}

\* MultipartScan::header_byte; the first two bytes are not the headers'.
HeaderByte(s, b) ==
    LET h == Append(s.headers, b)
        len == Len(h) - 4
        kind == IF len = 0 THEN {} ELSE PartHead(SubSeq(h, 3, len + 2))
    IN IF s.headersTotal + Len(h) > MaxHeaders + 4 THEN [s EXCEPT !.verdict = "refused"]
       ELSE IF ~IsSuffix(Blank, h) THEN [s EXCEPT !.headers = h]
       ELSE IF kind = {} THEN [s EXCEPT !.verdict = "refused"]
       ELSE [s EXCEPT !.headersTotal = @ + len, !.headers = <<>>, !.matched = 0,
                      !.values = StartValue(@, 1), !.form = [@ EXCEPT !.at = "name", !.held = <<>>],
                      !.state = "part", !.kind = CHOOSE k \in kind : TRUE]

\* MultipartScan::part_byte: what the delimiter releases is the part's.
PartRead(s, content, form) ==
    [s EXCEPT !.textTotal = @ + Len(content), !.values = ValueBytes(@, content), !.form = form]
PartVerdict(s, done) ==
    IF s.values.found \/ s.form.values.found \/ s.textTotal > MaxParameters THEN [s EXCEPT !.verdict = "refused"]
    ELSE IF done THEN [s EXCEPT !.state = "last", !.headers = <<>>] ELSE s
FormRead(f, content, done) ==
    FoldLeft(FormByte, f, IF done THEN Append(content, "end") ELSE content)
PartStep(s, step) ==
    PartVerdict(CASE s.kind = "file" -> [s EXCEPT !.matched = step.k]
                  [] s.kind # "file" ->
                        PartRead([s EXCEPT !.matched = step.k], step.content,
                                 IF s.kind = "form" THEN FormRead(s.form, step.content, step.done) ELSE s.form),
                step.done)
PartByte(s, b) == PartStep(s, DelimiterStep(NextDelimiter, s.matched, b, <<>>))

\* MultipartScan::byte.
MultipartByte(s, b) ==
    LET start == [s EXCEPT !.state = "headers", !.headers = <<>>]
    IN CASE s.verdict # "none" -> s
         [] s.verdict = "none" /\ s.state = "prologue" ->
                LET step == DelimiterStep(FirstDelimiter, s.matched, b, <<>>)
                IN IF step.done THEN start ELSE [s EXCEPT !.matched = step.k]
         [] s.verdict = "none" /\ s.state = "headers" -> HeaderByte(s, b)
         [] s.verdict = "none" /\ s.state = "part" -> PartByte(s, b)
         [] s.verdict = "none" /\ s.state = "last" /\ s.headers = <<>> -> [s EXCEPT !.headers = <<b>>]
         [] s.verdict = "none" /\ s.state = "last" /\ s.headers # <<>> ->
                IF s.headers[1] = "-" /\ b = "-" THEN [s EXCEPT !.verdict = "clean"]
                ELSE HeaderByte([start EXCEPT !.headers = s.headers], b)

-----------------------------------------------------------------------------
(* The guard of a body that streams.                                       *)

VARIABLES
    enc, body,      \* what the client sends, and as what
    known,          \* whether its length is known
    at,             \* bytes of it read
    scanner,        \* the machine of the encoding
    guard,          \* Scan: "scanning", "clean", "refused"
    passed,         \* bytes passed on
    request         \* what the server has: "open", "complete", "failed"

scanVars == <<enc, body, known, at, scanner, guard, passed, request>>

Machine(e) == CASE e = "json" -> NoValues [] e = "form" -> NoForm [] e = "multipart" -> NoMultipart

ScanInit ==
    /\ enc \in DOMAIN Bodies /\ body \in Bodies[enc] /\ known \in BOOLEAN
    /\ at = 0 /\ scanner = Machine(enc) /\ guard = "scanning" /\ passed = 0 /\ request = "open"

\* Scanner::feed.
Feed(s, data) ==
    CASE enc = "json" -> JsonBytes(s, data)
      [] enc = "form" -> FoldLeft(FormByte, s, data)
      [] enc = "multipart" -> FoldLeft(MultipartByte, s, data)
FedVerdict(s, total) ==
    CASE enc = "json" -> IF s.found \/ total > MaxParameters THEN "refused" ELSE "none"
      [] enc = "form" -> IF s.values.found \/ total > MaxParameters THEN "refused" ELSE "none"
      [] enc = "multipart" -> s.verdict

\* Scanner::finish.
FinishVerdict(s) ==
    CASE enc = "json" -> IF s.found THEN "refused" ELSE "clean"
      [] enc = "form" -> IF FormEnd(s).values.found THEN "refused" ELSE "clean"
      [] enc = "multipart" -> IF s.verdict = "none" THEN "refused" ELSE s.verdict

\* poll_frame of data.  The last frame is known as such by its length, or
\* because the body says it is at its end.
Frame(n, last) ==
    /\ request = "open" /\ guard = "scanning" /\ at + n <= Len(body)
    /\ known => (last <=> at + n = Len(body))
    /\ last => at + n = Len(body)
    /\ at' = at + n
    /\ scanner' = Feed(scanner, SubSeq(body, at + 1, at + n))
    /\ \E verdict \in {LET fed == FedVerdict(scanner', at + n)
                       IN IF fed = "none" /\ last THEN FinishVerdict(scanner') ELSE fed} :
          /\ guard' = IF verdict = "none" THEN "scanning" ELSE verdict
          /\ passed' = IF verdict = "refused" THEN passed ELSE at + n
          /\ request' = IF verdict = "refused" THEN "failed" ELSE IF last THEN "complete" ELSE "open"
    /\ UNCHANGED <<enc, body, known>>

\* poll_frame of the end, or of trailers, which are one.
EndOfBody ==
    /\ request = "open" /\ guard = "scanning" /\ at = Len(body)
    /\ guard' = FinishVerdict(scanner)
    /\ request' = IF guard' = "clean" THEN "complete" ELSE "failed"
    /\ UNCHANGED <<enc, body, known, at, scanner, passed>>

\* What follows the closing delimiter passes unread.
PassOn ==
    /\ request = "open" /\ guard = "clean"
    /\ at' = Len(body) /\ passed' = Len(body) /\ request' = "complete"
    /\ UNCHANGED <<enc, body, known, scanner, guard>>

\* The client left.
BodyBreaks ==
    /\ request = "open" /\ at < Len(body)
    /\ request' = "failed"
    /\ UNCHANGED <<enc, body, known, at, scanner, guard, passed>>

ScanNext ==
    \/ \E n \in FrameSizes, last \in BOOLEAN : Frame(n, last)
    \/ EndOfBody \/ PassOn \/ BodyBreaks

-----------------------------------------------------------------------------
(* The same, of a whole body: as a reader of all of it would say it.       *)

\* parts, http_reader.rs: every part of the body, or nothing.
Find(s, p, from) ==
    LET at0 == {i \in from .. Len(s) - Len(p) + 1 : SubSeq(s, i, i + Len(p) - 1) = p}
    IN IF at0 = {} THEN 0 ELSE Min(at0)
RECURSIVE PartsFrom(_, _, _)
PartsFrom(s, from, headers) ==
    LET blank == Find(s, Blank, from)
        len == blank - from
        kind == PartHead(SubSeq(s, from + 2, from + len + 1))
        end == Find(s, NextDelimiter, blank + 4)
        after == end + Len(NextDelimiter)
        rest == PartsFrom(s, after, headers + len)
        part == [kind |-> CHOOSE k \in kind : TRUE, value |-> SubSeq(s, blank + 4, end - 1)]
    IN IF blank = 0 \/ len = 0 \/ headers + len > MaxHeaders \/ kind = {} \/ end = 0 \/ after + 1 > Len(s) THEN {}
       ELSE IF SubSeq(s, after, after + 1) = <<"-", "-">> THEN {<<part>>}
       ELSE {<<part>> \o ps : ps \in rest}
Parts(s) ==
    LET first == Find(s, FirstDelimiter, 1) IN IF first = 0 THEN {} ELSE PartsFrom(s, first + Len(FirstDelimiter), 0)

\* A string's escapes decoded, from the byte after its quote to its end.
RECURSIVE StringAt(_, _)
StringAt(s, i) ==
    LET escape == s[i] = "\\"
        code == escape /\ i < Len(s) /\ s[i + 1] = "u"
        digits == code /\ i + 3 <= Len(s) /\ {s[i + 2], s[i + 3]} \subseteq Hex
        \* A code that is none is dropped, with the digit it has.
        text == IF digits THEN <<Decoded(s[i + 2], s[i + 3])>>
                ELSE IF code \/ (escape /\ i = Len(s)) THEN <<>>
                ELSE IF escape THEN <<s[i + 1]>> ELSE <<s[i]>>
        width == IF digits THEN 4
                 ELSE IF code THEN IF i + 2 <= Len(s) /\ s[i + 2] \in Hex THEN 3 ELSE 2
                 ELSE IF escape THEN 2 ELSE 1
        rest == StringAt(s, i + width)
    IN IF i > Len(s) \/ s[i] = "'" THEN [text |-> <<>>, end |-> i]
       ELSE [rest EXCEPT !.text = text \o @]

\* The strings of a document that begin at i or later.
RECURSIVE Strings(_, _)
Strings(s, i) ==
    LET begin == {j \in i .. Len(s) : s[j] = "'"}
        r == StringAt(s, Min(begin) + 1)
    IN IF begin = {} THEN {} ELSE {r.text} \cup Strings(s, r.end + 1)

\* A value is a reference, or a document with one in a string.
RECURSIVE Refers(_, _)
Refers(text, depth) ==
    LET solid == {i \in DOMAIN text : text[i] \notin Spaces}
        document == solid # {} /\ text[Min(solid)] = "["
    IN \/ IsPrefix(LocalPrefix, text)
       \/ document /\ (depth = MaxDepth \/ \E t \in Strings(text, 1) : Refers(t, depth + 1))

\* The pairs of a form, their values decoded.
RECURSIVE Unpercent(_)
Unpercent(s) ==
    LET escape == Len(s) >= 3 /\ s[1] = "%" /\ {s[2], s[3]} \subseteq Hex
        first == IF escape THEN Decoded(s[2], s[3]) ELSE IF s[1] = "+" THEN " " ELSE s[1]
    IN IF s = <<>> THEN <<>> ELSE <<first>> \o Unpercent(SubSeq(s, IF escape THEN 4 ELSE 2, Len(s)))
FormRefers(s) ==
    \E i, j \in 0 .. Len(s) + 1 :
        /\ i < j /\ (i = 0 \/ s[i] = "&") /\ (j = Len(s) + 1 \/ s[j] = "&")
        /\ \A k \in i + 1 .. j - 1 : s[k] # "&"
        /\ LET pair == SubSeq(s, i + 1, j - 1)
               eq == SelectInSeq(pair, LAMBDA b : b = "=")
           IN eq # 0 /\ Refers(Unpercent(SubSeq(pair, eq + 1, Len(pair))), 1)

Clean(s) ==
    CASE enc = "json" -> Len(s) <= MaxParameters /\ ~\E t \in Strings(s, 1) : Refers(t, 2)
      [] enc = "form" -> Len(s) <= MaxParameters /\ ~FormRefers(s)
      [] enc = "multipart" ->
            \E ps \in Parts(s) :
                LET params == {i \in DOMAIN ps : ps[i].kind # "file"}
                IN /\ \A i \in params : /\ ~Refers(ps[i].value, 1)
                                        /\ ps[i].kind = "form" => ~FormRefers(ps[i].value)
                   /\ MapThenSumSet(LAMBDA i : Len(ps[i].value), params) <= MaxParameters

\* The server never gets the end of a body unless all of it is clean, in
\* whatever frames it came and wherever its escapes and delimiters were cut;
\* and a body is refused only if it is not (local_files.rs poll_frame,
\* http_reader.rs step, part_byte, Form::end; against http_reader.rs parts).
GuardExact ==
    /\ request = "complete" => Clean(body)
    /\ guard = "refused" => ~Clean(body)
    /\ (enc # "multipart" /\ guard = "scanning") => Clean(SubSeq(body, 1, passed))
=============================================================================
