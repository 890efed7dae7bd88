------------------------------- MODULE Limiter -------------------------------
(***************************************************************************)
(* What rate limiting promises a caller: a bucket of its own, full at      *)
(* first, that refills with time and from which every request takes one    *)
(* token or, when there is none, is turned away.  Where there are more     *)
(* callers than room, the request of one may let off one other.            *)
(***************************************************************************)
EXTENDS Naturals, FiniteSets

CONSTANTS
  Keys,      \* callers
  Burst,     \* tokens in a full bucket
  Unit,      \* parts a token is counted in
  Rate,      \* parts of a token that come back per tick
  Room       \* callers that can be remembered

VARIABLES
  level,     \* parts of tokens each caller has now
  verdict    \* the latest decision: whom it was about, and what it was

vars == <<level, verdict>>

Full == Burst * Unit
Capped(n) == IF n > Full THEN Full ELSE n

Init ==
  /\ level = [k \in Keys |-> Full]
  /\ verdict = <<>>

Pass ==
  /\ level' = [k \in Keys |-> Capped(level[k] + Rate)]
  /\ UNCHANGED verdict

Decide(k) ==
  /\ verdict' = <<k, level[k] >= Unit>>
  /\ \E forgotten \in SUBSET (Keys \ {k}) :
       /\ Cardinality(forgotten) <= IF Cardinality(Keys) > Room THEN 1 ELSE 0
       /\ level' = [j \in Keys |-> CASE j \in forgotten -> Full
                                     [] j = k /\ level[k] >= Unit -> level[k] - Unit
                                     [] OTHER -> level[j]]

Next == Pass \/ \E k \in Keys : Decide(k)

Spec == Init /\ [][Next]_vars

=============================================================================
