----------------------------- MODULE HttpCodec -----------------------------
(***************************************************************************)
(* yarpc's HTTP messages as they go over a connection: Message::write,     *)
(* Message::read, and what Request, Response and url_query make of the     *)
(* parts.                                                                  *)
(*                                                                         *)
(* A stream is a sequence of symbols: the separators CR, LF, SP, ":", "?", *)
(* "&", "=", and words, which have none of them in it.  Content is any     *)
(* sequence of symbols, separators included.                               *)
(***************************************************************************)
EXTENDS Integers, Sequences, SequencesExt, FiniteSetsExt, TLC

CONSTANTS MaxLength    \* bound: lengths that occur

PROTOCOL == "HTTP/1.1"
CONTENT_LENGTH == "content-length"
EOL == <<"CR", "LF">>

Separator == {"CR", "LF", "SP", ":", "?", "&", "="}

(* Numbers are written as words, different ones differently.               *)
ASSUME NumberAssumption ==
    /\ MaxLength \in Nat
    /\ \A n \in (0..MaxLength) \cup (0..999) : ToString(n) \notin Separator
    /\ \A m, n \in 0..MaxLength : ToString(m) = ToString(n) => m = n

First(s, symbol) == SelectInSeq(s, LAMBDA x : x = symbol)
After(s, i) == SubSeq(s, i + 1, Len(s))

(* parts[i] is what the first i symbols are split into.                    *)
Split(s, symbol) ==
    LET parts[i \in 0..Len(s)] ==
            IF i = 0 THEN <<<< >>>>
            ELSE IF s[i] = symbol THEN Append(parts[i - 1], << >>)
            ELSE [parts[i - 1] EXCEPT ![Len(parts[i - 1])] = Append(@, s[i])]
    IN  parts[Len(s)]

(* split_once(..).unwrap_or((s, "")): the two sides of the first one.      *)
SplitOnce(s, symbol) ==
    LET i == First(s, symbol)
    IN  IF i = 0 THEN <<s, << >>>> ELSE <<SubSeq(s, 1, i - 1), After(s, i)>>

Join(parts) ==
    LET text[i \in 1..Len(parts)] ==
            IF i = 1 THEN parts[1] ELSE text[i - 1] \o <<"SP">> \o parts[i]
    IN  text[Len(parts)]

(* The names other clients write, in lower case.                           *)
to_lowercase(s) ==
    [i \in DOMAIN s |-> CASE s[i] = "Content-Length" -> CONTENT_LENGTH
                          [] s[i] = "Host" -> "host"
                          [] OTHER -> s[i]]

trim(s) ==
    LET solid == {i \in DOMAIN s : s[i] # "SP"}
    IN  IF solid = {} THEN << >> ELSE SubSeq(s, Min(solid), Max(solid))

-----------------------------------------------------------------------------
(* Message::write.                                                         *)
write_header(name, value) == <<name, ":">> \o value \o EOL

(* A slip: a terminator that is not written is counted as content.         *)
write_long(first_line, content) ==
    Join(first_line) \o EOL
    \o write_header(CONTENT_LENGTH, <<ToString(Len(content) + 1)>>) \o EOL \o content

(* The messages this code writes have no headers of their own.             *)
write(first_line, content) ==
    Join(first_line) \o EOL
    \o (IF Len(content) > 0
        THEN write_header(CONTENT_LENGTH, <<ToString(Len(content))>>) ELSE << >>)
    \o EOL \o content

-----------------------------------------------------------------------------
(* Message::read, a symbol at a time: r is what has been read so far, at   *)
(* says what is read next.  Headers other than the length are dropped,     *)
(* nobody looks at them.                                                   *)
Unread == [at |-> "line", line |-> << >>, first_line |-> << >>, length |-> 0,
           content |-> << >>]
Error(r) == [r EXCEPT !.at = "error"]

Number(s) == {n \in 0..MaxLength : <<ToString(n)>> = s}

ReadHeader(r, name, value) ==
    IF name # <<CONTENT_LENGTH>> THEN [r EXCEPT !.at = "line"]
    ELSE IF Number(value) = {} THEN Error(r)
    ELSE [r EXCEPT !.at = "line", !.length = CHOOSE n \in Number(value) : TRUE]

(* A slip: the names of headers are compared as they are.                  *)
EndOfLineExact(r, line) ==
    IF r.first_line = << >>
    THEN [r EXCEPT !.at = "line", !.first_line = Split(line, "SP")]
    ELSE IF line = << >>
    THEN [r EXCEPT !.at = IF r.length = 0 THEN "done" ELSE "content"]
    ELSE IF First(line, ":") = 0 THEN Error(r)
    ELSE ReadHeader(r, SplitOnce(line, ":")[1], trim(SplitOnce(line, ":")[2]))

(* The first line, a header, or the empty line after them.                 *)
EndOfLine(r, line) ==
    IF r.first_line = << >>
    THEN [r EXCEPT !.at = "line", !.first_line = Split(line, "SP")]
    ELSE IF line = << >>
    THEN [r EXCEPT !.at = IF r.length = 0 THEN "done" ELSE "content"]
    ELSE IF First(line, ":") = 0 THEN Error(r)
    ELSE ReadHeader(r, to_lowercase(SplitOnce(line, ":")[1]), trim(SplitOnce(line, ":")[2]))

(* A slip: a read that returns less than was asked for is enough.          *)
read_some(r, symbol) ==
    CASE r.at = "line" -> IF symbol = "CR" THEN [r EXCEPT !.at = "lf"]
                          ELSE [r EXCEPT !.line = Append(@, symbol)]
      [] r.at = "lf" -> IF symbol = "LF" THEN EndOfLine([r EXCEPT !.line = << >>], r.line)
                        ELSE Error(r)
      [] r.at = "content" -> [r EXCEPT !.content = Append(@, symbol), !.at = "done"]

(* read_string_until and the byte after it; read_exact_vec.                *)
read(r, symbol) ==
    CASE r.at = "line" -> IF symbol = "CR" THEN [r EXCEPT !.at = "lf"]
                          ELSE [r EXCEPT !.line = Append(@, symbol)]
      [] r.at = "lf" -> IF symbol = "LF" THEN EndOfLine([r EXCEPT !.line = << >>], r.line)
                        ELSE Error(r)
      [] r.at = "content" ->
            [r EXCEPT !.content = Append(@, symbol),
                      !.at = IF Len(r.content) + 1 = r.length THEN "done" ELSE @]

-----------------------------------------------------------------------------
(* Requests and responses.                                                 *)
Method == {"GET", "POST"}

WriteRequest(method, url, content) == write(<<<<method>>, url, <<PROTOCOL>>>>, content)
WriteResponse(code, phrase, content) ==
    write(<<<<PROTOCOL>>, <<ToString(code)>>, <<phrase>>>>, content)

(* parse: too few words, or a method that is not known, are errors.        *)
IsRequest(r) == Len(r.first_line) >= 3 /\ r.first_line[1] \in {<<m>> : m \in Method}
RequestMethod(r) == r.first_line[1][1]
RequestUrl(r) == r.first_line[2]

(* Nobody looks at the code, which only must be a number.                  *)
IsResponse(r) == Len(r.first_line) >= 2 /\ \E n \in 0..999 : r.first_line[2] = <<ToString(n)>>

(* Name to value; of parts with the same name the last one counts.         *)
insert(map, pair) ==
    [name \in DOMAIN map \cup {pair[1]} |-> IF name = pair[1] THEN pair[2] ELSE map[name]]

collect(parts) ==
    LET query[i \in 0..Len(parts)] ==
            IF i = 0 THEN << >> ELSE insert(query[i - 1], SplitOnce(parts[i], "="))
    IN  query[Len(parts)]

(* A slip: what is before the question mark is not cut off.                *)
url_query_whole(url) == collect(Split(url, "&"))

url_query(url) ==
    LET right == SplitOnce(url, "?")[2]
    IN  IF right = << >> THEN << >> ELSE collect(Split(right, "&"))
=============================================================================
