------------------------------ MODULE AtMostOnce ------------------------------
(***************************************************************************)
(* What one DIP connection promises to the side that calls: a call is      *)
(* carried out at most once, in the order of the calls, and an answer is   *)
(* the answer to the call it is given to.  A call may also be refused, or  *)
(* fail; a failed call may still be carried out, later than its failure.   *)
(***************************************************************************)
EXTENDS Naturals, Sequences

CONSTANT Goodbye    \* the refusal of a receiver that is closing

VARIABLES
    asked,      \* calls made so far; the last one is the only one in progress
    executed,   \* the calls carried out, in order
    answers,    \* pairs <<call, whose answer it got>>
    failed      \* the calls that failed

vars == <<asked, executed, answers, failed>>

Init == asked = 0 /\ executed = <<>> /\ answers = {} /\ failed = {}

Ended(n) == n \in failed \/ \E a \in answers : a[1] = n
Executed(n) == \E k \in DOMAIN executed : executed[k] = n

Ask ==
    /\ asked = 0 \/ Ended(asked)
    /\ asked' = asked + 1
    /\ UNCHANGED <<executed, answers, failed>>

\* A new connection is not needed to be refused one's call: Ask may fail at once.
AskInVain ==
    /\ asked = 0 \/ Ended(asked)
    /\ asked' = asked + 1
    /\ failed' = failed \cup {asked'}
    /\ UNCHANGED <<executed, answers>>

Execute(n) ==
    /\ \A k \in DOMAIN executed : executed[k] < n
    /\ executed' = Append(executed, n)
    /\ UNCHANGED <<asked, answers, failed>>

Return(n) ==
    /\ ~Ended(n)
    /\ \/ /\ Executed(n)
          /\ answers' = answers \cup {<<n, n>>}
       \/ answers' = answers \cup {<<n, Goodbye>>}
    /\ UNCHANGED <<asked, executed, failed>>

Fail(n) ==
    /\ ~Ended(n)
    /\ failed' = failed \cup {n}
    /\ UNCHANGED <<asked, executed, answers>>

Next ==
    \/ Ask \/ AskInVain
    \/ \E n \in 1..asked : Execute(n)
    \/ asked > 0 /\ (Return(asked) \/ Fail(asked))

Spec == Init /\ [][Next]_vars
===============================================================================
