------------------------------ MODULE Sublists ------------------------------
(***************************************************************************)
(* Python list comprehensions over short lists, written without recursion  *)
(* so that the modules using them can be reasoned about by the provers.    *)
(***************************************************************************)
EXTENDS Integers, Sequences, FiniteSets

(* [x for x in s if x in S]: the elements of s that are in S, in order.    *)
Keep(s, S) ==
  LET kept == {i \in DOMAIN s : s[i] \in S}
  IN  [n \in 1 .. Cardinality(kept) |->
         s[CHOOSE i \in kept : Cardinality({j \in kept : j <= i}) = n]]

(* s[:n], which in Python is all of s when s has fewer than n elements.    *)
Take(s, n) == SubSeq(s, 1, IF n < Len(s) THEN n ELSE Len(s))

(* s[:-n]: s without its last n elements.                                  *)
DropLast(s, n) == SubSeq(s, 1, Len(s) - n)

(* reversed(s[-n:]): the last n elements of s, newest first.               *)
NewestFirst(s, n) == [i \in 1 .. n |-> s[Len(s) + 1 - i]]

(* reversed(s).                                                            *)
Reversed(s) == NewestFirst(s, Len(s))

(* set(s).                                                                 *)
Elements(s) == {s[i] : i \in DOMAIN s}
=============================================================================
