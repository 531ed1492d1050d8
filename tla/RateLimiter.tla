---------------------------- MODULE RateLimiter ----------------------------
(***************************************************************************)
(* What a write-side rate limit promises, without saying how it remembers. *)
(* Each subject may be granted again only when every grant it ever         *)
(* received is at least Window old.  The limiter of swig_delegation, which *)
(* remembers one timestamp per policy, is shown to implement it.           *)
(***************************************************************************)
EXTENDS Integers, Sequences

CONSTANTS Subjects,   \* what is rate limited (the policies of swig_delegation)
          Window      \* least distance of two grants of one subject

VARIABLES now,        \* time
          grants      \* every grant so far, in the order they were given

vars == <<now, grants>>

Grants == [subject : Subjects, at : Nat]

Init ==
  /\ now \in Nat \ {0}
  /\ grants = <<>>

Advance ==
  /\ now' \in Nat
  /\ now' > now
  /\ UNCHANGED grants

Grant(s) ==
  /\ \A i \in DOMAIN grants : grants[i].subject = s => now - grants[i].at >= Window
  /\ grants' = Append(grants, [subject |-> s, at |-> now])
  /\ UNCHANGED now

Next == Advance \/ \E s \in Subjects : Grant(s)

Spec == Init /\ [][Next]_vars

(* The promise as an invariant: two grants of one subject are a window     *)
(* apart, the later one in the log being the later one in time.            *)
Spaced ==
  \A i, j \in DOMAIN grants :
    i < j /\ grants[i].subject = grants[j].subject
      => grants[j].at - grants[i].at >= Window
=============================================================================
