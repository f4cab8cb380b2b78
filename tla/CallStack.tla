------------------------------- MODULE CallStack -------------------------------
(***************************************************************************)
(* What the CPU promises to a program that uses its stack only through     *)
(* calls, returns, pushes and pops: a last-in first-out store of words,    *)
(* in which calls and interrupts leave the address to come back to.        *)
(*                                                                         *)
(* There is no memory, no stack pointer and no time here.  An interrupt    *)
(* happens between two instructions, only while they are allowed, is the   *)
(* most urgent of those both requested and enabled, and disallows others   *)
(* until the program allows them again.                                    *)
(***************************************************************************)
EXTENDS Integers, Sequences

CONSTANTS
  WordCount,        \* the number of values of a word
  Vector(_),        \* the address of the handler of an interrupt
  INTERRUPTS        \* the interrupts, most urgent first

VARIABLES
  pc,
  stack,            \* the words pushed and not yet popped, the last one first
  allowed,          \* interrupts are allowed
  requested, enabled

vars == <<pc, stack, allowed, requested, enabled>>

Words == 0..(WordCount - 1)

\* The address n bytes further: addresses wrap.
After(n) == (pc + n) % WordCount

Init ==
  /\ pc \in Words /\ stack = <<>> /\ allowed = FALSE
  /\ requested = {} /\ enabled = {}

Jump ==
  /\ pc' \in Words
  /\ UNCHANGED <<stack, allowed, requested, enabled>>

Call ==
  /\ \E n \in 1..3 : stack' = <<After(n)>> \o stack
  /\ pc' \in Words
  /\ UNCHANGED <<allowed, requested, enabled>>

\* RET leaves `allowed` alone, RETI sets it.
Return ==
  /\ stack # <<>>
  /\ pc' = Head(stack) /\ stack' = Tail(stack)
  /\ allowed' \in {allowed, TRUE}
  /\ UNCHANGED <<requested, enabled>>

Push ==
  /\ \E w \in Words : stack' = <<w>> \o stack
  /\ pc' = After(1)
  /\ UNCHANGED <<allowed, requested, enabled>>

Pop ==
  /\ stack # <<>>
  /\ stack' = Tail(stack)
  /\ pc' = After(1)
  /\ UNCHANGED <<allowed, requested, enabled>>

\* EI and DI, and the stores to the registers IF and IE.
Configure ==
  /\ \/ pc' = After(1) /\ allowed' \in BOOLEAN /\ UNCHANGED <<requested, enabled>>
     \/ /\ pc' = After(2) /\ UNCHANGED allowed
        /\ requested' \in SUBSET INTERRUPTS /\ enabled' \in SUBSET INTERRUPTS
  /\ UNCHANGED stack

Interrupt ==
  /\ allowed
  /\ \E i \in requested \cap enabled :
       /\ \A j \in requested \cap enabled : i <= j
       /\ requested' = requested \ {i}
       /\ pc' = Vector(i)
  /\ stack' = <<pc>> \o stack
  /\ allowed' = FALSE
  /\ UNCHANGED enabled

Request ==
  /\ \E i \in INTERRUPTS : requested' = requested \cup {i}
  /\ UNCHANGED <<pc, stack, allowed, enabled>>

Next == Jump \/ Call \/ Return \/ Push \/ Pop \/ Configure \/ Interrupt \/ Request

Spec == Init /\ [][Next]_vars
===============================================================================
