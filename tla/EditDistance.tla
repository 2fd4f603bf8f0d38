---------------------------- MODULE EditDistance ----------------------------
(***************************************************************************)
(* The Levenshtein distance of two byte strings, by its meaning and not by *)
(* a table: the fewest edits, each of which removes, replaces or inserts   *)
(* one byte, that turn the one into the other.                             *)
(***************************************************************************)
EXTENDS ByteStrings

(* The strings one edit away from s, no longer than max. *)
EditsOf(s, max) ==
  {RemoveAt(s, i) : i \in DOMAIN s}
  \cup {ReplaceAt(s, i, b) : i \in DOMAIN s, b \in Byte}
  \cup IF Len(s) = max THEN {}
       ELSE {InsertAt(s, i, b) : i \in 1 .. Len(s) + 1, b \in Byte}

(* The strings at most n edits away from s.  No string on the way to t     *)
(* need be longer than both s and t: deletions can come first.             *)
WithinEdits(s, n, max) ==
  LET within[i \in 0 .. n] ==
        IF i = 0 THEN {s}
        ELSE within[i - 1] \cup UNION {EditsOf(t, max) : t \in within[i - 1]}
  IN  within[n]

Distance(s, t) ==
  LET max == IF Len(s) <= Len(t) THEN Len(t) ELSE Len(s)
  IN  CHOOSE n \in 0 .. max :
        /\ t \in WithinEdits(s, n, max)
        /\ n = 0 \/ t \notin WithinEdits(s, n - 1, max)
=============================================================================
