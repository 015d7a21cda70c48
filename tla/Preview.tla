-------------------------------- MODULE Preview --------------------------------
(***************************************************************************)
(* What the user is shown of a relayed body: body_preview of               *)
(* src/capture/details.rs and decode_chunked of src/capture/decode.rs, over *)
(* what BodyRelay captured of a message in chunks. The relay passes chunks  *)
(* on as they are and ends with the connection; only the preview takes them *)
(* apart, of a capture that may be cut anywhere. Of the digits of a size    *)
(* those up to nine are modelled; an extension is any bytes, text or not.   *)
(***************************************************************************)
EXTENDS BodyRelay

CONSTANT
  Messages  \* lists of chunks, with the line ending and the extension that they use

LF == 10
CR == 13
Semicolon == 59
Digit(n) == 48 + n

ASSUME PreviewAssumption ==
  \A m \in Messages :
    /\ m.chunks \in Seq(Seq(Nat)) /\ \A i \in DOMAIN m.chunks : Len(m.chunks[i]) \in 1 .. 9
    /\ m.eol \in {<<LF>>, <<CR, LF>>}
    /\ m.extension \in Seq(Nat) /\ \A i \in DOMAIN m.extension : m.extension[i] # LF
    /\ m.extension = <<>> \/ m.extension[1] = Semicolon

VARIABLE message  \* what the sender means to send

previewVars == <<relayVars, message>>

\* What the first n of the parts make together, for every n.
Joins(parts) ==
  LET join[n \in 0 .. Len(parts)] == IF n = 0 THEN <<>> ELSE join[n - 1] \o parts[n] IN join
Joined(parts) == Joins(parts)[Len(parts)]

Payload == Joined(message.chunks)

Line(size) == <<Digit(size)>> \o message.extension \o message.eol
Part(chunk) == Line(Len(chunk)) \o chunk \o message.eol
Parts == [i \in DOMAIN message.chunks |-> Part(message.chunks[i])]

\* The message on the wire, without trailers.
Wire == Joined(Parts) \o (Line(0) \o message.eol)

PreviewInit == message \in Messages /\ RelayInit /\ sent <= Len(Wire)

PreviewNext == RelayNext /\ sent' <= Len(Wire) /\ UNCHANGED message

PreviewSpec == PreviewInit /\ [][PreviewNext]_previewVars /\ RelayFairness

-----------------------------------------------------------------------------
(* std::str::from_utf8.                                                    *)

\* The bytes that begin a character of n more.
Heads(n) == CASE n = 1 -> 194 .. 223 [] n = 2 -> 224 .. 239 [] n = 3 -> 240 .. 244

\* A character of n bytes more begins at i: none that a shorter one could say, no
\* surrogate, and none past the last.
Character(s, i, n) ==
  /\ i \in DOMAIN s /\ i + n \in DOMAIN s
  /\ s[i] \in Heads(n) /\ \A k \in 1 .. n : s[i + k] \in 128 .. 191
  /\ s[i] = 224 => s[i + 1] >= 160
  /\ s[i] = 237 => s[i + 1] <= 159
  /\ s[i] = 240 => s[i + 1] >= 144
  /\ s[i] = 244 => s[i + 1] <= 143

\* Every byte is a character or belongs to one.
Utf8(s) ==
  \A i \in DOMAIN s :
    s[i] < 128 \/ \E n \in 1 .. 3 : \E k \in 0 .. n : Character(s, i - k, n)

-----------------------------------------------------------------------------
(* decode_chunked.                                                         *)

\* The loop's variables and whether it has ended.
Begun == [status |-> "loop", pos |-> 0, out |-> <<>>, truncated |-> FALSE]
Fails(d) == [d EXCEPT !.status = "failed"]
Ends(d) == [d EXCEPT !.status = "decoded"]

\* The positions after pos at which the byte stands.
At(input, byte, pos) == {i \in pos + 1 .. Len(input) : input[i] = byte}
First(positions) == CHOOSE i \in positions : \A j \in positions : i <= j

\* The line without an extension, and then without its carriage return.
SizeText(line) ==
  LET stops == At(line, Semicolon, 0)
      text == IF stops = {} THEN line ELSE SubSeq(line, 1, First(stops) - 1)
  IN  IF Len(text) \in At(text, CR, 0) THEN SubSeq(text, 1, Len(text) - 1) ELSE text

Value(digits) ==
  LET value[n \in 0 .. Len(digits)] ==
        IF n = 0 THEN 0 ELSE 16 * value[n - 1] + (digits[n] - Digit(0))
  IN  value[Len(digits)]

\* Where the line feed behind the data of a chunk is, or should be.
DataEnd(input, pos) == IF pos + 1 \in At(input, CR, pos) THEN pos + 2 ELSE pos + 1

\* Mutant: input that ends with a chunk is taken for a whole message.
WithoutLineMutant(d) == Ends(d)

\* A line that does not end is an error, also where the next chunk is missing.
WithoutLine(d) == Fails(d)

\* One turn of the loop.
Turn(input, limit, d) ==
  LET ends == At(input, LF, d.pos)
      start == First(ends)
      line == SubSeq(input, d.pos + 1, start - 1)
      text == SizeText(line)
      size == Value(text)
      keep == Least(limit - Len(d.out), size)
      end == DataEnd(input, start + size)
  IN  IF ends = {} THEN WithoutLine(d)
      ELSE IF ~Utf8(line) THEN Fails(d)
      ELSE IF text = <<>> \/ ~(\A i \in DOMAIN text : text[i] \in Digit(0) .. Digit(9)) THEN Fails(d)
      ELSE IF size = 0 THEN Ends(d)
      ELSE IF end \notin At(input, LF, start + size) THEN Fails(d)
      ELSE [d EXCEPT !.pos = end,
                     !.out = @ \o SubSeq(input, start + 1, start + keep),
                     !.truncated = @ \/ keep < size]

TurnUnlessEnded(input, limit, d) == IF d.status = "loop" THEN Turn(input, limit, d) ELSE d

\* A turn that goes on leaves a position further on: there are no more turns than bytes.
Turns(input, limit) ==
  LET turn[n \in 0 .. Len(input) + 1] ==
        IF n = 0 THEN Begun ELSE TurnUnlessEnded(input, limit, turn[n - 1])
  IN  turn

decode_chunked(input, limit) == Turns(input, limit)[Len(input) + 1]

-----------------------------------------------------------------------------
(* The preview of a message whose header says that it comes in chunks.     *)

Captured == [i \in DOMAIN body.bytes |-> Wire[body.bytes[i]]]

\* What cannot be decoded is shown as it was captured, with a warning.
decode_body_for_preview_with_limit(limit) ==
  LET decoded == decode_chunked(Captured, limit)
  IN  IF decoded.status = "decoded"
      THEN [bytes |-> decoded.out, transfer_decoded |-> TRUE,
            warnings |-> IF decoded.truncated THEN {"truncated"} ELSE {}]
      ELSE [bytes |-> Captured, transfer_decoded |-> FALSE, warnings |-> {"invalid"}]

\* What stands in the place of a preview when nothing was forwarded.
NotAvailable == [bytes |-> <<>>, transfer_decoded |-> FALSE, warnings |-> {"N/A"}]

body_preview(limit) ==
  IF body.original_size = 0 THEN NotAvailable ELSE decode_body_for_preview_with_limit(limit)

\* What is shown of a relayed body is never less than it looks: "N/A" means that
\* nothing was forwarded, without a warning it is the whole payload, a preview that
\* was cut is its beginning and says so, and a warning that it could not be decoded
\* means that the message is not whole, in what the capture kept or in what the
\* sender sent, or that its size lines are not text
\* (details.rs 127-166, decode.rs 19-68 and 119-120, http.rs 247-272).
PreviewIsHonest ==
  pc = "done" =>
    \A limit \in 0 .. Len(Payload) :
      LET shown == body_preview(limit)
      IN /\ shown = NotAvailable <=> sink = <<>>
         /\ shown.warnings = {} => shown.bytes = Payload
         /\ shown.warnings = {"truncated"} =>
              limit < Len(Payload) /\ shown.bytes = SubSeq(Payload, 1, limit)
         /\ Len(Captured) = Len(Wire) /\ Utf8(message.extension) => shown.transfer_decoded
=============================================================================
