---------------------------- MODULE MCLineReader ----------------------------
(***************************************************************************)
(* All texts of six characters on one stream, and of three and four on     *)
(* each: lines longer than a chunk, empty lines, CR LF, a last line        *)
(* without newline, more errors than their pipe holds before any output.   *)
(***************************************************************************)
EXTENDS LineReader

CONSTANTS CR, LF

MCChar == 1 .. 6 \cup {CR, LF}

\* Texts of length n: characters are numbered, newlines are CR and LF in turn.
Texts(n) == {[k \in 1 .. n |-> IF k \notin ends THEN k ELSE IF k % 2 = 1 THEN CR ELSE LF] :
                ends \in SUBSET (1 .. n)}

On(s, text) == [k \in 1 .. Len(text) |-> <<s, text[k]>>]

MCTools ==
    {On("out", text) : text \in Texts(6)}
    \cup {On("err", e) \o On("out", o) : e \in Texts(4), o \in Texts(3)}
=============================================================================
