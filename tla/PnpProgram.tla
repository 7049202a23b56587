----------------------------- MODULE PnpProgram ----------------------------
(* .pnp.js run as a program: a request in the arguments is answered once,   *)
(* else each line of standard input is a request, answered by a line of     *)
(* standard output.  Input arrives in chunks that end anywhere, inside a    *)
(* line or inside the bytes of a character.                                 *)
EXTENDS Naturals, Sequences, SequencesExt

CONSTANTS
    Queries,    \* function: what a line says -> what resolveRequest makes of it
    Garbled,    \* a line that is not JSON
    MaxLines    \* bound: lines of input

\* A line that is JSON is not one that is not, and neither is a byte or character.
ASSUME LinesAssumption ==
    /\ Garbled \notin DOMAIN Queries /\ MaxLines \in Nat
    /\ (DOMAIN Queries \cup {Garbled}) \cap {"first", "second", "newline", "char", "bad"} = {}

VARIABLES
    args,       \* arguments of the program
    input,      \* the lines that its client writes
    arrived,    \* bytes of them that have arrived
    held,       \* the bytes the StringDecoder keeps back
    buffer,     \* the characters that have not been a line yet
    answers     \* what was written to standard output
prVars == <<args, input, arrived, held, buffer, answers>>

\* A line says something, and ends in a character of two bytes.
BytesOf(line) == <<line, "first", "second", "newline">>
Stream == [n \in 1 .. 4 * Len(input) |-> BytesOf(input[(n - 1) \div 4 + 1])[((n - 1) % 4) + 1]]

ProcessResolution(query) == <<query, Queries[query]>>
ProcessRequest(line) ==
    IF Len(line) = 2 /\ line[1] \in DOMAIN Queries /\ line[2] = "char"
    THEN ProcessResolution(line[1]) ELSE <<Garbled, "INVALID_JSON">>

PrInit ==
    /\ args \in 0 .. 3 /\ input \in BoundedSeq(DOMAIN Queries \cup {Garbled}, MaxLines)
    /\ (args = 0 \/ input = << >>)
    /\ arrived = 0 /\ held = << >> /\ buffer = << >> /\ answers = << >>

\* Any other number of arguments is EX_USAGE.
Argument(query) ==
    /\ args = 2 /\ answers = << >> /\ answers' = <<ProcessResolution(query)>>
    /\ UNCHANGED <<args, input, arrived, held, buffer>>

\* StringDecoder: the first byte of a character waits for the second.
Byte(d, b) ==
    CASE b = "first"  -> [text |-> d.text, rest |-> <<b>>]
      [] b = "second" -> [text |-> Append(d.text, IF d.rest = << >> THEN "bad" ELSE "char"),
                          rest |-> << >>]
      [] OTHER        -> [text |-> Append(d.text, b), rest |-> d.rest]
Chars(bytes) ==
    LET decoded[n \in 0 .. Len(bytes)] ==
            IF n = 0 THEN [text |-> << >>, rest |-> << >>] ELSE Byte(decoded[n - 1], bytes[n])
    IN decoded[Len(bytes)]

\* Mutant: chunk.toString().
DecodeAlone(chunk) == Chars(chunk)

Decode(chunk) == Chars(held \o chunk)   \* decoder.write(chunk)

\* Every complete line of the buffer is answered, the rest stays.
Char(d, c) ==
    IF c = "newline" THEN [line |-> << >>, out |-> Append(d.out, ProcessRequest(d.line))]
    ELSE [line |-> Append(d.line, c), out |-> d.out]
Drained(text) ==
    LET drained[n \in 0 .. Len(text)] ==
            IF n = 0 THEN [line |-> << >>, out |-> answers] ELSE Char(drained[n - 1], text[n])
    IN drained[Len(text)]

Chunk(n) ==
    /\ args = 0 /\ n \in (arrived + 1) .. Len(Stream)
    /\ LET decoded == Decode(SubSeq(Stream, arrived + 1, n))
           drained == Drained(buffer \o decoded.text)
       IN held' = decoded.rest /\ buffer' = drained.line /\ answers' = drained.out
    /\ arrived' = n /\ UNCHANGED <<args, input>>

PrNext == (\E query \in DOMAIN Queries : Argument(query))
          \/ \E n \in 1 .. Len(Stream) : Chunk(n)
PrSpec == PrInit /\ [][PrNext]_prVars

-----------------------------------------------------------------------------
\* Whatever the chunks, each line that has arrived whole is answered once, in
\* order, as if it had come alone; bad lines do not disturb the others.
AnswersInOrder ==
    args = 0 => answers = [i \in 1 .. arrived \div 4 |->
        IF input[i] = Garbled THEN <<Garbled, "INVALID_JSON">> ELSE <<input[i], Queries[input[i]]>>]

=============================================================================
