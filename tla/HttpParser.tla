----------------------------- MODULE HttpParser -----------------------------
(***************************************************************************)
(* extension/http_transport.py: SimpleBlockingHTTPTransport.read with its  *)
(* HTTPResponseParser on the client, and HTTPTransport.read on a tornado   *)
(* stream on the server.  One message, received in any cuts.  The text of  *)
(* a line is one symbol, and so are CR and LF, which a body may contain    *)
(* and a cut may separate.                                                 *)
(***************************************************************************)
EXTENDS Naturals, Sequences

CONSTANTS ChunkSize,      \* chunk_size of the client's __init__
          MaxHeaderCount, \* max_header_count of the server's __init__
          Messages        \* what the other side sends, see Message

\* A status line or a request line; header lines with an id, an id of letters,
\* a length, or something else, which may be longer than max_header_length;
\* "junk" is a line without its parts.  A body of bytes, and the beginning of
\* what follows the message.
Message == [line : {"status", "request", "junk"},
            headers : Seq({"tid", "letters", "length", "other", "long", "junk"}),
            body : Seq({"byte", "CR", "LF"}), rest : Seq({"byte"})]

\* Both generate_packet write one id.
ASSUME HttpAssumption ==
    /\ ChunkSize \in Nat \ {0} /\ MaxHeaderCount \in Nat \ {0}
    /\ \A m \in Messages :
          /\ m \in Message
          /\ \A i, j \in DOMAIN m.headers :
                ~(m.headers[i] = "tid" /\ m.headers[j] = "letters")

VARIABLES side,     \* who reads, "client" or "server"
          phase,    \* of read(): idle, recv, get, returned, raised, or refused by
                    \* an error that the server's _run expects
          message,  \* the one on its way
          whole,    \* the connection lasts until all of it was sent
          stream,   \* what is still to be received
          buffer,   \* _buffer, or what the stream holds
          stage,    \* _stage, or the read that the server's read() is at
          headers,  \* names of the headers met
          lines,    \* header lines the server has read
          content   \* content or body, <<"none">> for None

httpVars == <<side, phase, message, whole, stream, buffer, stage, headers, lines, content>>
input == <<side, message, whole>>

NoContent == <<"none">>
NoMessage == [line |-> "junk", headers |-> <<>>, body |-> <<>>, rest |-> <<>>]

HttpInit ==
    /\ side \in {"client", "server"}
    /\ phase = "idle" /\ message = NoMessage /\ whole = FALSE /\ stream = <<>> /\ buffer = <<>>
    /\ stage = "line" /\ headers = {} /\ lines = 0 /\ content = NoContent

Delimiter == <<"CR", "LF">>

Packet(m) ==
    LET text[i \in 0..Len(m.headers)] ==
            IF i = 0 THEN <<m.line>> \o Delimiter
            ELSE text[i - 1] \o <<m.headers[i]>> \o Delimiter
    IN  text[Len(m.headers)] \o Delimiter \o m.body \o m.rest

\* A read() begins, and the message is under way, or the part of it that was
\* sent when the connection ended.
ReadStarts ==
    /\ phase = "idle"
    /\ \E m \in Messages : \E n \in 0..Len(Packet(m)) :
          /\ message' = m
          /\ stream' = SubSeq(Packet(m), 1, n)
          /\ whole' = (n = Len(Packet(m)))
    /\ phase' = "recv"
    /\ UNCHANGED <<side, buffer, stage, headers, lines, content>>

\* Some of what has arrived is received.  At the end of the stream recv() gives
\* nothing; tornado raises StreamClosedError.
Recv ==
    /\ phase = "recv"
    /\ \E n \in 0..ChunkSize :
          /\ n <= Len(stream) /\ (n = 0 <=> stream = <<>>)
          /\ buffer' = buffer \o SubSeq(stream, 1, n)
          /\ stream' = SubSeq(stream, n + 1, Len(stream))
    /\ phase' = IF side = "server" /\ stream = <<>> THEN "refused" ELSE "get"
    /\ UNCHANGED <<input, stage, headers, lines, content>>

\* Where the delimiters of a buffer begin.
Delimiters(b) == {i \in 1..(Len(b) - 1) : SubSeq(b, i, i + 1) = Delimiter}
FirstDelimiter == CHOOSE i \in Delimiters(buffer) : \A j \in Delimiters(buffer) : i <= j

\* consume_by_delimiter leaves what follows the first delimiter.
Consumed(i) == SubSeq(buffer, i + Len(Delimiter), Len(buffer))

ContentMissing_Equal == Len(buffer) <= Len(message.body)

\* get() waits for as much as Content-Length says.
ContentMissing == Len(buffer) < Len(message.body)

\* auto_get goes round until get() answers UNCOMPLETE_PHRASE; a read of the
\* stream waits for its delimiter, or its number of bytes.
Uncomplete ==
    /\ phase = "get"
    /\ \/ stage \in {"line", "headers"} /\ Delimiters(buffer) = {}
       \/ stage = "content" /\ ContentMissing
    /\ phase' = "recv"
    /\ UNCHANGED <<input, stream, buffer, stage, headers, lines, content>>

\* What the parsers of one line make of its text.
IsFirstLine(text) == text = IF side = "client" THEN <<"status">> ELSE <<"request">>
IsHeader(text) == text # <<>> /\ text # <<"junk">>

GetLine ==
    /\ phase = "get" /\ stage = "line" /\ Delimiters(buffer) # {}
    /\ buffer' = Consumed(FirstDelimiter)
    /\ LET text == SubSeq(buffer, 1, FirstDelimiter - 1)
       IN  \/ /\ IsFirstLine(text)
              /\ stage' = "headers"
              /\ UNCHANGED phase
           \/ /\ ~IsFirstLine(text)
              /\ phase' = IF side = "client" THEN "raised" ELSE "refused"
              /\ UNCHANGED stage
    /\ UNCHANGED <<input, stream, headers, lines, content>>

\* get() with a header, or with the empty line that ends them; Content-Length is
\* the length of the body, and without it there is no content to read.
GetHeader ==
    /\ side = "client"
    /\ phase = "get" /\ stage = "headers" /\ Delimiters(buffer) # {}
    /\ buffer' = Consumed(FirstDelimiter)
    /\ LET text == SubSeq(buffer, 1, FirstDelimiter - 1)
       IN  \/ /\ text = <<>>
              /\ stage' = IF "length" \in headers THEN "content" ELSE "finished"
              /\ UNCHANGED <<phase, headers>>
           \/ /\ IsHeader(text)
              /\ headers' = headers \cup {text[1]}
              /\ UNCHANGED <<phase, stage>>
           \/ /\ text # <<>> /\ ~IsHeader(text)
              /\ phase' = "raised"
              /\ UNCHANGED <<stage, headers>>
    /\ UNCHANGED <<input, stream, lines, content>>

\* What the server makes of the headers: isalnum lets an id of letters pass,
\* and int() raises.
HeadersVerdict ==
    IF headers \cap {"tid", "letters"} = {} THEN "refused"
    ELSE IF "letters" \in headers THEN "raised"
    ELSE IF "length" \notin headers THEN "refused" ELSE "get"

\* The server's loop over max_header_count lines, of which one has to be empty;
\* a line that is no header is passed over.
ReadHeader ==
    /\ side = "server"
    /\ phase = "get" /\ stage = "headers" /\ Delimiters(buffer) # {}
    /\ buffer' = Consumed(FirstDelimiter)
    /\ LET text == SubSeq(buffer, 1, FirstDelimiter - 1)
       IN  \/ /\ text = <<>>
              /\ phase' = HeadersVerdict
              /\ stage' = "content"
              /\ UNCHANGED <<headers, lines>>
           \/ /\ text # <<>>
              /\ headers' = IF IsHeader(text) THEN headers \cup {text[1]} ELSE headers
              /\ lines' = lines + 1
              /\ phase' = IF text # <<"long">> /\ lines + 1 < MaxHeaderCount
                          THEN "get" ELSE "refused"
              /\ UNCHANGED stage
    /\ UNCHANGED <<input, stream, content>>

Taken_Everything == Len(buffer)

\* As much of the buffer as Content-Length says.
Taken == Len(message.body)

\* A request without a body has None for one.
GetContent ==
    /\ phase = "get" /\ stage = "content" /\ ~ContentMissing
    /\ content' = IF side = "server" /\ message.body = <<>> THEN NoContent
                  ELSE SubSeq(buffer, 1, Taken)
    /\ buffer' = SubSeq(buffer, Taken + 1, Len(buffer))
    /\ stage' = "finished"
    /\ UNCHANGED <<input, phase, stream, headers, lines>>

\* The end of read(): what the client's buffer still holds is dropped with the
\* parser, and int() may raise; what the server's holds is there for the next
\* read().
ReadEnds ==
    /\ phase = "get" /\ stage = "finished"
    /\ phase' = IF side = "server" \/ ("tid" \in headers /\ content # NoContent)
                THEN "returned" ELSE "raised"
    /\ UNCHANGED <<input, stream, buffer, stage, headers, lines, content>>

HttpNext ==
    \/ ReadStarts \/ Recv \/ Uncomplete \/ GetLine \/ GetHeader \/ ReadHeader
    \/ GetContent \/ ReadEnds

\* The thread goes on; what was sent arrives.  Nothing is enabled before read().
HttpFairness == WF_httpVars(phase # "idle" /\ HttpNext)

-----------------------------------------------------------------------------
\* The message has all it needs, for the side that reads it: the client refuses
\* a line that is no header, the server one that is too long, or too many.
Complete ==
    LET names == {message.headers[i] : i \in DOMAIN message.headers}
    IN  /\ {"tid", "length"} \subseteq names /\ "letters" \notin names
        /\ IF side = "client" THEN message.line = "status" /\ "junk" \notin names
           ELSE /\ message.line = "request" /\ "long" \notin names
                /\ Len(message.headers) < MaxHeaderCount

\* However a message is cut, and also if the connection ends within it, read()
\* returns the body that was sent if the message has all it needs, and raises if
\* not; a line is never taken for another because a cut fell into its delimiter
\* or the body holds one.  The server leaves exactly what follows the message,
\* which is the next request of a connection many callers share.
MessageUnderstood ==
    /\ phase = "returned" =>
          /\ Complete
          /\ IF side = "client" THEN content = message.body
             ELSE /\ content = IF message.body = <<>> THEN NoContent ELSE message.body
                  /\ whole => buffer \o stream = message.rest
    /\ phase = "raised" => ~Complete
    /\ phase = "refused" => ~Complete \/ ~whole

\* A message that arrived as a whole is not waited for any longer.
Ended == phase \in {"returned", "raised", "refused"}
ReadReturns == (phase = "recv" /\ whole) ~> Ended

\* transport.py:67 says that zero bytes from a blocking socket mean a connection
\* that is gone, and its reader raises; so a read should always come to an end.
EndOfStreamNoticed == phase = "recv" ~> Ended
=============================================================================
