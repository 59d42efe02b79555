----------------------------- MODULE Selection -----------------------------
(***************************************************************************)
(* A loop over a slice that appends some of its elements to another one:    *)
(* the requests that still count (auth.go), the lines of a file that are    *)
(* added to the environment (config.go).                                    *)
(***************************************************************************)
EXTENDS Integers, Sequences

\* What the loop has appended after each of its steps.
Selecting(s, I) ==
  LET upTo[i \in 0..Len(s)] ==
        IF i = 0 THEN <<>>
        ELSE IF i \in I THEN Append(upTo[i - 1], s[i]) ELSE upTo[i - 1]
  IN  upTo

\* The elements of s at the indices in I, in their order.
Selected(s, I) == Selecting(s, I)[Len(s)]
=============================================================================
