-------------------------------- MODULE Utf8 --------------------------------
(***************************************************************************)
(* The text of a program is UTF-8 (str(bytes) checks it): the check, which *)
(* the oracle and the runtime each have a copy of, and the decoding of one *)
(* scalar, against the table of well-formed sequences of the Unicode       *)
(* standard.  A byte is a number below 256.                                *)
(***************************************************************************)
EXTENDS Naturals, Sequences

Continues(x) == x \div 64 = 2

(* The length a first byte announces, 0 when none starts with it.          *)
Lead(c) == CASE c < 128 -> 1
             [] c \div 32 = 6 -> 2
             [] c \div 16 = 14 -> 3
             [] c \div 8 = 30 -> 4
             [] OTHER -> 0
LeadBits(c, w) == CASE w = 1 -> c [] w = 2 -> c % 32 [] w = 3 -> c % 16 [] w = 4 -> c % 8

(* The scalar the w bytes of s from i on spell.                            *)
Scalar(s, i, w) ==
    LET cp[k \in 0 .. w - 1] == IF k = 0 THEN LeadBits(s[i], w) ELSE cp[k - 1] * 64 + (s[i + k] % 64)
    IN  cp[w - 1]

Shortest_any(w, cp) == TRUE
Shortest(w, cp) == /\ (w = 2 => cp >= 128)
                   /\ (w = 3 => cp >= 2048)
                   /\ (w = 4 => cp >= 65536)

utf8_ok(s) ==
    LET n == Len(s)
        ok[i \in 1 .. n + 1] ==
            i > n \/ LET w == Lead(s[i])
                     IN  /\ w > 0
                         /\ i + w - 1 <= n
                         /\ \A k \in 1 .. w - 1 : Continues(s[i + k])
                         /\ Shortest(w, Scalar(s, i, w))
                         /\ Scalar(s, i, w) \notin 55296 .. 57343
                         /\ Scalar(s, i, w) <= 1114111
                         /\ ok[i + w]
    IN  ok[1]

(* A scalar of text that is already checked: no test is repeated.          *)
lb_utf8_scalar(s, i) ==
    LET c == s[i]
        announced == CASE c >= 240 -> 4 [] c >= 224 /\ c < 240 -> 3 [] c >= 192 /\ c < 224 -> 2 [] OTHER -> 1
        w == IF i + announced - 1 > Len(s) THEN Len(s) - i + 1 ELSE announced
        cp[k \in 0 .. w - 1] ==
            IF k = 0 THEN LeadBits(c, announced) ELSE cp[k - 1] * 64 + (s[i + k] % 64)
    IN  [width |-> w, scalar |-> cp[w - 1]]

-----------------------------------------------------------------------------
(* The well-formed sequences: the second byte of four leads is restricted. *)
Second(c) == CASE c = 224 -> 160 .. 191 [] c = 237 -> 128 .. 159
               [] c = 240 -> 144 .. 191 [] c = 244 -> 128 .. 143 [] OTHER -> 128 .. 191
WellFormedAt(s, i, w) ==
    /\ s[i] \in (CASE w = 1 -> 0 .. 127 [] w = 2 -> 194 .. 223 [] w = 3 -> 224 .. 239 [] w = 4 -> 240 .. 244)
    /\ i + w - 1 <= Len(s)
    /\ w > 1 => s[i + 1] \in Second(s[i])
    /\ \A k \in 2 .. w - 1 : s[i + k] \in 128 .. 191
WellFormed(s) ==
    LET from[i \in 1 .. Len(s) + 1] == i > Len(s) \/ \E w \in 1 .. 4 : WellFormedAt(s, i, w) /\ from[i + w]
    IN  from[1]

(* A scalar has one encoding: its bytes, from its value.                   *)
Encoding(cp) ==
    CASE cp < 128 -> << cp >>
      [] cp \in 128 .. 2047 -> << 192 + cp \div 64, 128 + (cp % 64) >>
      [] cp \in 2048 .. 65535 -> << 224 + cp \div 4096, 128 + ((cp \div 64) % 64), 128 + (cp % 64) >>
      [] OTHER -> << 240 + cp \div 262144, 128 + ((cp \div 4096) % 64),
                     128 + ((cp \div 64) % 64), 128 + (cp % 64) >>
=============================================================================
