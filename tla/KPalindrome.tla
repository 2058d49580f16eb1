------------------------------- MODULE KPalindrome -------------------------------
(***************************************************************************)
(* isKPalindrome of lab6 (KPalindrome.java): is s a palindrome once at most *)
(* i letters are taken out?  Equal ends are stripped, unequal ends cost a   *)
(* letter on one side or the other.                                         *)
(*                                                                         *)
(* The recursion ends at a single letter.  A word whose letters are all     *)
(* stripped in pairs comes down to the empty word, and charAt(0) throws.    *)
(***************************************************************************)
EXTENDS Integers, Sequences, FiniteSets

CONSTANTS
  Letters,
  MaxLength,  \* bound: length of the words
  MaxK        \* bound: letters that may be taken out

\* What is assumed of the constants.
KPalindromeAssumption == MaxLength \in Nat /\ MaxK \in Nat

VARIABLES
  s, i,      \* the arguments
  outcome    \* of the call: none yet, yes, no or thrown

vars == <<s, i, outcome>>

\* A call is about what is left of w, its letters a to b, and how many of them may
\* be taken out.
Calls(w, limit) == (1 .. Len(w) + 1) \X (0 .. Len(w)) \X (0 .. limit)

\* Wrong on purpose: taking a letter out costs nothing.
isKPalindromeForFree(w, limit) ==
  LET answer[call \in Calls(w, limit)] ==
        LET a == call[1]
            b == call[2]
            k == call[3]
        IN IF b < a THEN "thrown"
           ELSE IF a = b THEN "yes"
           ELSE IF w[a] = w[b] THEN answer[<<a + 1, b - 1, k>>]
           ELSE IF k = 0 THEN "no"
           ELSE LET first == answer[<<a, b - 1, k>>]
                IN IF first # "no" THEN first ELSE answer[<<a + 1, b, k>>]
  IN answer[<<1, Len(w), limit>>]

\* || does not look at its right side if the left is true or throws.
isKPalindrome(w, limit) ==
  LET answer[call \in Calls(w, limit)] ==
        LET a == call[1]
            b == call[2]
            k == call[3]
        IN IF b < a THEN "thrown"
           ELSE IF a = b THEN "yes"
           ELSE IF w[a] = w[b] THEN answer[<<a + 1, b - 1, k>>]
           ELSE IF k = 0 THEN "no"
           ELSE LET first == answer[<<a, b - 1, k - 1>>]
                IN IF first # "no" THEN first ELSE answer[<<a + 1, b, k - 1>>]
  IN answer[<<1, Len(w), limit>>]

Init ==
  /\ s \in UNION {[1 .. n -> Letters] : n \in 0 .. MaxLength}
  /\ i \in 0 .. MaxK
  /\ outcome = "none"

Call ==
  /\ outcome = "none"
  /\ outcome' = isKPalindrome(s, i)
  /\ UNCHANGED <<s, i>>

Next == Call

Spec == Init /\ [][Next]_vars

\* What is left of a word when the letters at the places of out are taken away.
Left(w, out) ==
  LET kept == DOMAIN w \ out
      At(n) == CHOOSE p \in kept : Cardinality({q \in kept : q <= p}) = n
  IN [n \in 1 .. Cardinality(kept) |-> w[At(n)]]

Palindrome(w) == \A n \in DOMAIN w : w[n] = w[Len(w) + 1 - n]

\* By definition: some choice of at most k letters leaves a palindrome.
IsKPalindrome(w, k) ==
  \E out \in SUBSET (DOMAIN w) : Cardinality(out) <= k /\ Palindrome(Left(w, out))

\* The answer is no exactly if no choice of letters leaves a palindrome: stripping
\* equal ends at once never misses one, and what throws is always a word for
\* which the answer should have been yes.
NoExactly == outcome # "none" => (outcome = "no" <=> ~IsKPalindrome(s, i))

===============================================================================
