------------------------------- MODULE WasmText -----------------------------
(* Two pure parts of the WebAssembly runtime: strings on their way into     *)
(* libzip's memory and back (UTF-16 to UTF-8), and PATH and PATH_FS, which  *)
(* work on paths taken apart.  A state is a choice of their arguments.      *)
EXTENDS Naturals, Integers, Sequences, SequencesExt, FiniteSetsExt

CONSTANTS
    Chars,      \* code points a string may have
    MaxChars,   \* bounds: characters of a string, components of a path
    MaxParts

VARIABLES
    text,       \* a string: its code units
    room,       \* bytes there are for it
    from, to    \* two absolute paths, as they were written

wtVars == <<text, room, from, to>>

-----------------------------------------------------------------------------
(* stringToUTF8Array, lengthBytesUTF8 and UTF8ArrayToString.                *)

Surrogate(u) == u \in 55296..57343
Code(str, i) == IF Surrogate(str[i]) THEN 65536 + (str[i] % 1024) * 1024 + (str[i + 1] % 1024)
                ELSE str[i]
Width(u) == IF u <= 127 THEN 1 ELSE IF u <= 2047 THEN 2 ELSE IF u <= 65535 THEN 3 ELSE 4
After(str, i) == IF Surrogate(str[i]) THEN i + 2 ELSE i + 1

Tail6(u, n) == 128 + ((u \div (64 ^ n)) % 64)         \* 10xxxxxx
Bytes(u) ==
    CASE Width(u) = 1 -> <<u>>
      [] Width(u) = 2 -> <<192 + u \div 64, Tail6(u, 0)>>
      [] Width(u) = 3 -> <<224 + u \div 4096, Tail6(u, 1), Tail6(u, 0)>>
      [] Width(u) = 4 -> <<240 + u \div 262144, Tail6(u, 2), Tail6(u, 1), Tail6(u, 0)>>

\* Mutant: no byte is kept for the zero.
FitsWithoutZero(out, u, max) == out + Width(u) - 1 < max

\* One byte is for the zero at the end; what does not fit ends the string.
Fits(out, u, max) == out + Width(u) - 1 < max - 1

stringToUTF8Array(str, max) ==
    LET write[i \in 1..(Len(str) + 1), out \in 0..(4 * Len(str))] ==
          IF i > Len(str) THEN << >>
          ELSE LET u == Code(str, i)
               IN IF Fits(out, u, max) THEN Bytes(u) \o write[After(str, i), out + Width(u)]
                  ELSE << >>
    IN write[1, 0]

lengthBytesUTF8(str) ==
    LET count[i \in 1..(Len(str) + 1)] ==
          IF i > Len(str) THEN 0 ELSE Width(Code(str, i)) + count[After(str, i)]
    IN count[1]

Units(u) == IF u < 65536 THEN <<u>>
            ELSE <<55296 + (u - 65536) \div 1024, 56320 + ((u - 65536) % 1024)>>

UTF8ArrayToString(heap) ==
    LET Low(i) == heap[i] % 64
        read[i \in 1..(Len(heap) + 4)] ==
          IF i > Len(heap) THEN << >>
          ELSE IF heap[i] < 128 THEN <<heap[i]>> \o read[i + 1]
          ELSE IF heap[i] \in 192..223
               THEN Units((heap[i] % 32) * 64 + Low(i + 1)) \o read[i + 2]
          ELSE IF heap[i] \in 224..239
               THEN Units((heap[i] % 16) * 4096 + Low(i + 1) * 64 + Low(i + 2)) \o read[i + 3]
          ELSE Units((heap[i] % 8) * 262144 + Low(i + 1) * 4096 + Low(i + 2) * 64 + Low(i + 3))
                  \o read[i + 4]
    IN read[1]

\* what ccall takes from the stack for a string
StackFor(str) == 4 * Len(str) + 1

-----------------------------------------------------------------------------
(* PATH.normalizeArray goes from the last component to the first and counts *)
(* the ".." that still have to take something away.                         *)

Back(part, acc) ==
    CASE part = "." -> acc
      [] part = ".." -> [acc EXCEPT !.up = @ + 1]
      [] OTHER -> IF acc.up > 0 THEN [acc EXCEPT !.up = @ - 1]
                  ELSE [acc EXCEPT !.kept = <<part>> \o @]

Ups(n) == [i \in 1..n |-> ".."]
normalizeArray(parts, allowAboveRoot) ==
    LET acc == FoldRight(Back, parts, [kept |-> << >>, up |-> 0])
    IN (IF allowAboveRoot THEN Ups(acc.up) ELSE << >>) \o acc.kept

resolve(base, path) == normalizeArray(base \o path, FALSE)

\* PATH_FS.relative: up to the common part, and down
relative(p, q) ==
    LET fromParts == normalizeArray(p, FALSE)
        toParts == normalizeArray(q, FALSE)
        Same(n) == \A i \in 1..n : fromParts[i] = toParts[i]
        same == Max({n \in 0..Min({Len(fromParts), Len(toParts)}) : Same(n)})
    IN Ups(Len(fromParts) - same) \o SubSeq(toParts, same + 1, Len(toParts))

-----------------------------------------------------------------------------
WtInit == text = << >> /\ room \in 0..(4 * MaxChars + 1) /\ from = << >> /\ to = << >>

Type(u) == Len(text) < MaxChars /\ text' = text \o Units(u) /\ UNCHANGED <<room, from, to>>
Parts == {"a", "b", ".", ".."}
Walk(c) ==
    /\ text = << >> /\ room = 0 /\ UNCHANGED <<text, room>>
    /\ \/ Len(from) < MaxParts /\ from' = Append(from, c) /\ UNCHANGED to
       \/ Len(to) < MaxParts /\ to' = Append(to, c) /\ UNCHANGED from

WtNext == (\E u \in Chars : from = << >> /\ to = << >> /\ Type(u)) \/ (\E c \in Parts : Walk(c))
WtSpec == WtInit /\ [][WtNext]_wtVars

-----------------------------------------------------------------------------
\* A string that goes through libzip's memory comes back as it was, or cut
\* between two characters where there was no room; it never takes more bytes
\* than there are, and what ccall takes from the stack is always enough.
TextRoundTrips ==
    LET bytes == stringToUTF8Array(text, room)
        all == stringToUTF8Array(text, StackFor(text))
    IN /\ bytes # << >> => Len(bytes) < room
       /\ IsPrefix(UTF8ArrayToString(bytes), text)
       /\ room > lengthBytesUTF8(text) => Len(bytes) = lengthBytesUTF8(text)
       /\ UTF8ArrayToString(all) = text

\* A path walked forwards, as the kernel would.
Forward(acc, part) ==
    CASE part = "." -> acc
      [] part = ".." -> IF acc = << >> THEN acc ELSE Front(acc)
      [] OTHER -> Append(acc, part)
Leads(base, path) == FoldLeft(Forward, base, path)

\* What PATH makes of a path leads where the path leads, from every place it
\* does not go above, and the relative path between two places leads from
\* the one to the other.
PathsAgree ==
    /\ normalizeArray(from, FALSE) = Leads(<< >>, from)
    /\ LET deep == [i \in 1..MaxParts |-> "z"]
       IN Leads(deep, normalizeArray(from, TRUE)) = Leads(deep, from)
    /\ resolve(from, relative(from, to)) = Leads(<< >>, to)

\* Both ways into libzip keep what is put into them.
ConversionsRight == TextRoundTrips /\ PathsAgree
=============================================================================
