------------------------------ MODULE Encodings ------------------------------
(***************************************************************************)
(* The three spellings of a digest (libutil/base-n.cc, base-nix-32.cc) and *)
(* the Hash class built on them (libutil/hash.cc).  A byte is a number     *)
(* below 256, a string a sequence of one-character strings.  A function    *)
(* that throws returns the empty set, one that succeeds the singleton of   *)
(* its result.  SHA-256 itself is the parameter Sha256; HashSize is the    *)
(* number of bytes of its digest (32 in the code).                         *)
(***************************************************************************)
EXTENDS Integers, Sequences, SequencesExt, Bitwise

CONSTANTS HashSize, Sha256(_)

Byte == 0 .. 255

IsHash(h) == h \in [1 .. HashSize -> Byte]

Base16Chars == <<"0", "1", "2", "3", "4", "5", "6", "7", "8", "9",
                 "a", "b", "c", "d", "e", "f">>

UpperHex == <<"A", "B", "C", "D", "E", "F">>

Nix32Chars == <<"0", "1", "2", "3", "4", "5", "6", "7", "8", "9", "a", "b", "c",
                "d", "f", "g", "h", "i", "j", "k", "l", "m", "n", "p", "q", "r",
                "s", "v", "w", "x", "y", "z">>

Base64Chars == <<"A", "B", "C", "D", "E", "F", "G", "H", "I", "J", "K", "L", "M",
                 "N", "O", "P", "Q", "R", "S", "T", "U", "V", "W", "X", "Y", "Z",
                 "a", "b", "c", "d", "e", "f", "g", "h", "i", "j", "k", "l", "m",
                 "n", "o", "p", "q", "r", "s", "t", "u", "v", "w", "x", "y", "z",
                 "0", "1", "2", "3", "4", "5", "6", "7", "8", "9", "+", "/">>

DigitsOf(chars) ==
    [c \in ToSet(chars) |-> (CHOOSE i \in 1 .. Len(chars) : chars[i] = c) - 1]

Nix32Digit == DigitsOf(Nix32Chars)

Base64Digit == DigitsOf(Base64Chars)

(* parseHexDigit takes both cases. *)
HexDigit ==
    [c \in ToSet(Base16Chars \o UpperHex) |->
        IF c \in ToSet(UpperHex) THEN 10 + DigitsOf(UpperHex)[c]
                                 ELSE DigitsOf(Base16Chars)[c]]

--------------------------------------------------------------------------------
(* base16::encode and decode; decode asserts an even length. *)
Base16Length(n) == 2 * n

Base16Encode(bs) ==
    [k \in 1 .. Base16Length(Len(bs)) |->
        LET b == bs[(k + 1) \div 2]
        IN  Base16Chars[1 + IF k % 2 = 1 THEN b \div 16 ELSE b % 16]]

Base16Decode(s) ==
    IF ToSet(s) \subseteq DOMAIN HexDigit
    THEN {[k \in 1 .. Len(s) \div 2 |-> 16 * HexDigit[s[2 * k - 1]] + HexDigit[s[2 * k]]]}
    ELSE {}

--------------------------------------------------------------------------------
(* BaseNix32: five bits a digit, the least significant digit last. *)
Nix32Length(n) == (8 * n - 1) \div 5 + 1

Nix32Encode(bs) ==
    LET len == Nix32Length(Len(bs))
        Digit(n) == LET i == (5 * n) \div 8
                        j == (5 * n) % 8
                        high == IF i >= Len(bs) - 1 THEN 0 ELSE bs[i + 2] * 2^(8 - j)
                    IN  (bs[i + 1] \div 2^j + high) % 32
    IN  IF bs = <<>> THEN <<>>
        ELSE [k \in 1 .. len |-> Nix32Chars[1 + Digit(len - k)]]

Resize(bs, n) == [k \in 1 .. n |-> IF k <= Len(bs) THEN bs[k] ELSE 0]

(* Mutant: the bits that leave the last byte are dropped. *)
Nix32AddTruncated(bs, n, digit) ==
    LET i == (5 * n) \div 8
        j == (5 * n) % 8
        low == [Resize(bs, i + 1) EXCEPT ![i + 1] = @ + ((digit * 2^j) % 256)]
        carry == digit \div 2^(8 - j)
    IN  IF carry = 0 \/ i + 1 >= HashSize THEN low
        ELSE [Resize(low, i + 2) EXCEPT ![i + 2] = @ + carry]

(* The digit n of the string, its last character first, or'ed into the     *)
(* bytes; the bits that leave byte i grow the result by one byte.          *)
Nix32Add(bs, n, digit) ==
    LET i == (5 * n) \div 8
        j == (5 * n) % 8
        low == [Resize(bs, i + 1) EXCEPT ![i + 1] = @ + ((digit * 2^j) % 256)]
        carry == digit \div 2^(8 - j)
    IN  IF carry = 0 THEN low
        ELSE [Resize(low, i + 2) EXCEPT ![i + 2] = @ + carry]

Nix32Decode(s) ==
    LET Step(bs, n) == Nix32Add(bs, n - 1, Nix32Digit[s[Len(s) - n + 1]])
    IN  IF ToSet(s) \subseteq DOMAIN Nix32Digit
        THEN {FoldLeft(Step, <<>>, [n \in 1 .. Len(s) |-> n])}
        ELSE {}

--------------------------------------------------------------------------------
(* base64: most significant bits first, padded with '='.  The decoder      *)
(* stops at the first '=', skips line feeds and drops the bits that do not *)
(* fill a byte.                                                            *)
Base64Length(n) == 4 * (((4 * n) \div 3 + 3) \div 4)

Base64Encode(bs) ==
    LET digits == (8 * Len(bs) + 5) \div 6
        Bits(k) == LET b == 6 * k   i == b \div 8   j == b % 8
                       next == IF i + 2 > Len(bs) THEN 0 ELSE bs[i + 2]
                   IN  ((256 * bs[i + 1] + next) \div 2^(10 - j)) % 64
    IN  [k \in 1 .. digits + ((4 - (digits % 4)) % 4) |->
            IF k > digits THEN "=" ELSE Base64Chars[1 + Bits(k - 1)]]

Base64Decode(s) ==
    LET body == SelectSeq(IF Contains(s, "=")
                          THEN SubSeq(s, 1, SelectInSeq(s, LAMBDA c : c = "=") - 1)
                          ELSE s, LAMBDA c : c # "LF")
        Step(st, c) ==
            LET d == st.d * 64 + Base64Digit[c]
                bits == st.bits + 6
            IN  IF bits < 8 THEN [st EXCEPT !.d = d, !.bits = bits]
                ELSE [d |-> d % 2^(bits - 8), bits |-> bits - 8,
                      res |-> Append(st.res, d \div 2^(bits - 8))]
    IN  IF ToSet(body) \subseteq DOMAIN Base64Digit
        THEN {FoldLeft(Step, [d |-> 0, bits |-> 0, res |-> <<>>], body).res}
        ELSE {}

--------------------------------------------------------------------------------
Formats == {"Base16", "Nix32", "SRI"}

AlgoName == "sha256"

(* Hash::to_string *)
HashToString(h, format, includeAlgo) ==
    (IF format = "SRI" THEN <<AlgoName, "-">>
     ELSE IF includeAlgo THEN <<AlgoName, ":">> ELSE <<>>)
    \o CASE format = "Base16" -> Base16Encode(h)
         [] format = "Nix32" -> Nix32Encode(h)
         [] format = "SRI" -> Base64Encode(h)

(* baseFromSize and parseLowLevel: the length names the base, a decoding   *)
(* error is swallowed and leaves an empty string, whose length is then the *)
(* error that is thrown.                                                   *)
BaseFromSize(rest) ==
    CASE Len(rest) = Base16Length(HashSize) -> {Base16Decode(rest)}
      [] Len(rest) = Nix32Length(HashSize) -> {Nix32Decode(rest)}
      [] Len(rest) = Base64Length(HashSize) -> {Base64Decode(rest)}
      [] OTHER -> {}

ParseLowLevel(decoded) == {d \in decoded : Len(d) = HashSize}

(* splitPrefixTo: the part before the first separator and the rest. *)
SplitPrefixTo(s, sep) ==
    LET at == SelectInSeq(s, LAMBDA c : c = sep)
    IN  IF at = 0 THEN {} ELSE {[prefix |-> SubSeq(s, 1, at - 1),
                                 rest |-> SubSeq(s, at + 1, Len(s))]}

(* Hash::parseAnyPrefixed; the algorithm is one symbol of the string. *)
ParseAnyPrefixed(s) ==
    LET colon == SplitPrefixTo(s, ":")
        dash == IF colon = {} THEN SplitPrefixTo(s, "-") ELSE {}
        Bases(p) == IF dash # {} THEN {Base64Decode(p.rest)} ELSE BaseFromSize(p.rest)
    IN  UNION {ParseLowLevel(d) :
                  d \in UNION {Bases(p) : p \in {q \in colon \cup dash :
                                                     q.prefix = <<AlgoName>>}}}

HashString(s) == Sha256(s)

(* compressHash: byte i of the digest is xor'ed into byte i % newSize. *)
CompressHash(h, newSize) ==
    LET Fold(bs, i) == [bs EXCEPT ![((i - 1) % newSize) + 1] = @ ^^ h[i]]
    IN  FoldLeft(Fold, [k \in 1 .. newSize |-> 0], [i \in 1 .. Len(h) |-> i])

================================================================================
