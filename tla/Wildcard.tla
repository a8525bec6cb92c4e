------------------------------ MODULE Wildcard ------------------------------
(***************************************************************************)
(* wildcardMatch (utils.js): patterns in which * stands for any text and ? *)
(* for any character, letters in either case.  A text is a sequence of     *)
(* characters.                                                             *)
(***************************************************************************)
EXTENDS Naturals, Sequences

CONSTANT LowerCase  \* the capitals of the instance, each with its small letter

Lower(char) == IF char \in DOMAIN LowerCase THEN LowerCase[char] ELSE char

Fits(p, t) == p = "?" \/ Lower(p) = Lower(t)

(* No * but at the end: a walk along both.                                 *)
SimpleMatch(pattern, text) ==
  LET glob == pattern # <<>> /\ pattern[Len(pattern)] = "*"
      fixed == IF glob THEN Len(pattern) - 1 ELSE Len(pattern)
  IN  /\ IF glob THEN fixed <= Len(text) ELSE fixed = Len(text)
      /\ \A i \in 1 .. fixed : Fits(pattern[i], text[i])

\* Slip: matchArray[0] stays set.
StartStays(p, before) == before[0]

(* matchArray: row[j][i] says that the first j characters of the pattern   *)
(* match the first i of the text.                                          *)
MatchStart(p, before) == before[0] /\ p = "*"

(* The row of a character p of the pattern, after the row before.          *)
NextRow(p, text, before) ==
  [i \in 0 .. Len(text) |->
     IF i = 0 THEN MatchStart(p, before)
     ELSE IF p = "*" THEN \E k \in 0 .. i : before[k]
     ELSE before[i - 1] /\ Fits(p, text[i])]

Rows(pattern, text) ==
  LET row[j \in 0 .. Len(pattern)] ==
        IF j = 0 THEN [i \in 0 .. Len(text) |-> i = 0]
        ELSE NextRow(pattern[j], text, row[j - 1])
  IN  row

MatchArray(pattern, text) == Rows(pattern, text)[Len(pattern)][Len(text)]

WildcardMatch(pattern, text) ==
  \/ pattern = <<"*">>
  \/ IF \A i \in 1 .. Len(pattern) - 1 : pattern[i] # "*"
     THEN SimpleMatch(pattern, text)
     ELSE MatchArray(pattern, text)

-----------------------------------------------------------------------------
(* What the comment of wildcardMatch says, as a reference: the text can be *)
(* cut into one piece per character of the pattern, any piece for a *, one *)
(* character for a ?, and the character itself for all others.             *)
Matches(pattern, text) ==
  \E cut \in [0 .. Len(pattern) -> 0 .. Len(text)] :
    /\ cut[0] = 0 /\ cut[Len(pattern)] = Len(text)
    /\ \A j \in 1 .. Len(pattern) :
         IF pattern[j] = "*" THEN cut[j - 1] <= cut[j]
         ELSE cut[j] = cut[j - 1] + 1 /\ Fits(pattern[j], text[cut[j]])
=============================================================================
