------------------------------ MODULE SlotPool ------------------------------
(***************************************************************************)
(* What kvmux's admission control promises, with no counter, no timer and  *)
(* no suspended coroutine in it: a pool of Capacity slots, each owned by   *)
(* one request, and a first-come-first-served line of at most Depth        *)
(* requests that wait for one.  (src/src/admission/controller.hpp, the     *)
(* comments on lines 3-18 and 103-117.)                                    *)
(***************************************************************************)
EXTENDS Naturals, Sequences, FiniteSets

CONSTANTS Callers, Capacity, Depth

VARIABLES owners,   \* the requests that own a slot
          line      \* the requests that wait for one, oldest first

vars == <<owners, line>>

Init ==
    /\ owners = {}
    /\ line = <<>>

InLine == {line[i] : i \in 1..Len(line)}

\* A free slot goes to a newcomer only when nobody stands in line.
Take(c) ==
    /\ c \notin owners \cup InLine
    /\ line = <<>>
    /\ Cardinality(owners) < Capacity
    /\ owners' = owners \cup {c}
    /\ UNCHANGED line

\* A newcomer stands in line only when every slot is owned.
StandInLine(c) ==
    /\ c \notin owners \cup InLine
    /\ Cardinality(owners) = Capacity
    /\ Len(line) < Depth
    /\ line' = Append(line, c)
    /\ UNCHANGED owners

\* Whoever stands in line may lose patience; the others keep their places.
GiveUp(c) ==
    /\ \E i \in 1..Len(line) :
          /\ line[i] = c
          /\ line' = [j \in 1..(Len(line) - 1) |->
                        IF j < i THEN line[j] ELSE line[j + 1]]
    /\ UNCHANGED owners

\* An owner that leaves hands its slot to the head of the line, if there is one.
Leave(c) ==
    /\ c \in owners
    /\ \/ /\ line = <<>>
          /\ owners' = owners \ {c}
          /\ UNCHANGED line
       \/ /\ line # <<>>
          /\ owners' = (owners \ {c}) \cup {Head(line)}
          /\ line' = Tail(line)

Next == \E c \in Callers : Take(c) \/ StandInLine(c) \/ GiveUp(c) \/ Leave(c)

Spec == Init /\ [][Next]_vars
=============================================================================
