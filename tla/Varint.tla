------------------------------ MODULE Varint ------------------------------
(***************************************************************************)
(* Varints (src/src/common/varint): how integers of a type become as few   *)
(* bytes as they need, and what is made of bytes that may not be ones.     *)
(*                                                                         *)
(* The code is a template on the unsigned type: `width` is its number of   *)
(* bits and `chunk` the payload bits of a byte, 7 in the code, so that     *)
(* small types can be checked exhaustively.                                *)
(***************************************************************************)
EXTENDS Integers, Sequences

\* A read either took a value and moved to pos, or threw CorruptData.
Took(value, pos) == [ok |-> TRUE, value |-> value, pos |-> pos]
Refused == [ok |-> FALSE, value |-> <<>>, pos |-> 0]

\* 1 << n
TwoTo(n) ==
    LET power[i \in 0..n] == IF i = 0 THEN 1 ELSE 2 * power[i - 1]
    IN  power[n]

\* zigzag32/64: small magnitudes become small numbers.
ZigZag(v) == IF v >= 0 THEN 2 * v ELSE -2 * v - 1
UnZigZag(u) == IF u % 2 = 0 THEN u \div 2 ELSE -((u + 1) \div 2)

\* The numbers of the signed type.
Signed(width) == -TwoTo(width - 1) .. (TwoTo(width - 1) - 1)

\* kMaxVarintBytes, kMaxVarlongBytes.
MaxVarintBytes(width, chunk) == (width + chunk - 1) \div chunk

-----------------------------------------------------------------------------
(* writeBase128 *)

\* One turn of the loop, while more is left than fits a byte.
WriteTurn(so, chunk) ==
    IF so.left < TwoTo(chunk) THEN so
    ELSE [left |-> so.left \div TwoTo(chunk),
          out  |-> Append(so.out, TwoTo(chunk) + (so.left % TwoTo(chunk)))]

\* What is left and what was written, after so many turns.
WrittenAfter(u, turns, chunk) ==
    LET so[i \in 0..turns] == IF i = 0 THEN [left |-> u, out |-> <<>>]
                              ELSE WriteTurn(so[i - 1], chunk)
    IN  so

EncodeVarint(v, width, chunk) ==
    LET turns   == MaxVarintBytes(width, chunk) - 1
        written == WrittenAfter(ZigZag(v), turns, chunk)[turns]
    IN  Append(written.out, written.left)

-----------------------------------------------------------------------------
(* readBase128 *)

\* Mutant: bits of the last byte that the type cannot hold are shifted out.
PayloadFitsAlways(payload, shift, width, chunk) == TRUE

\* The check on the byte that may carry more bits than are left in the type.
PayloadFits(payload, shift, width, chunk) ==
    shift + chunk > width => payload < TwoTo(width - shift)

\* The unsigned type drops what it cannot hold.  The numbers read with the full
\* widths of 32 and 64 bits are small ones.
Wrap(n, width) == IF width < 31 THEN n % TwoTo(width) ELSE n

\* One turn of the loop, from the byte after pos on.  The bits of a payload are
\* new ones, so that adding them is or-ing them.
ReadTurn(so, bytes, pos, width, chunk) ==
    LET byte    == bytes[pos + so.read + 1]
        payload == byte % TwoTo(chunk)
        shift   == so.read * chunk
    IN  IF so.at # "more" THEN so
        ELSE IF \/ pos + so.read >= Len(bytes)
                \/ so.read >= MaxVarintBytes(width, chunk)
                \/ ~PayloadFits(payload, shift, width, chunk)
             THEN [so EXCEPT !.at = "refused"]
        ELSE [read  |-> so.read + 1,
              value |-> Wrap(so.value + payload * TwoTo(shift), width),
              at    |-> IF byte < TwoTo(chunk) THEN "done" ELSE "more"]

\* How many bytes were read, what they came to and whether that was all, after so
\* many turns.
ReadAfter(bytes, pos, width, chunk, turns) ==
    LET so[i \in 0..turns] == IF i = 0 THEN [read |-> 0, value |-> 0, at |-> "more"]
                              ELSE ReadTurn(so[i - 1], bytes, pos, width, chunk)
    IN  so

DecodeVarint(bytes, pos, width, chunk) ==
    LET turns == MaxVarintBytes(width, chunk) + 1
        so    == ReadAfter(bytes, pos, width, chunk, turns)[turns]
    IN  IF so.at = "done" THEN Took(UnZigZag(so.value), pos + so.read) ELSE Refused
=============================================================================
