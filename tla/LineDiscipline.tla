-------------------------- MODULE LineDiscipline --------------------------
(***************************************************************************)
(* What a terminal promises its readers: lines, whole and in the order in  *)
(* which they were typed; until a line is complete its end can be erased.  *)
(***************************************************************************)
EXTENDS Integers, Sequences

CONSTANTS Letters, Newline, Readers, Counts

VARIABLES edit,    \* the line being typed
          lines,   \* the lines typed and not read
          got      \* got[r]: what the last read of r returned

Init == edit = <<>> /\ lines = <<>> /\ got = [r \in Readers |-> <<>>]

Type(ch) == edit' = Append(edit, ch) /\ UNCHANGED <<lines, got>>

Erase ==
  /\ edit # <<>>
  /\ edit' = SubSeq(edit, 1, Len(edit) - 1)
  /\ UNCHANGED <<lines, got>>

Enter ==
  /\ lines' = Append(lines, Append(edit, Newline))
  /\ edit' = <<>>
  /\ UNCHANGED got

\* A read of at most n characters takes a line; what does not fit is lost.
Read(r, n) ==
  /\ lines # <<>>
  /\ got' = [got EXCEPT ![r] =
       SubSeq(Head(lines), 1, IF n < Len(Head(lines)) THEN n ELSE Len(Head(lines)))]
  /\ lines' = Tail(lines)
  /\ UNCHANGED edit

Next ==
  \/ \E ch \in Letters : Type(ch)
  \/ Erase \/ Enter
  \/ \E r \in Readers, n \in Counts : Read(r, n)

Spec == Init /\ [][Next]_<<edit, lines, got>>
=============================================================================
