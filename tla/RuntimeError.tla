---------------------------- MODULE RuntimeError ----------------------------
(***************************************************************************)
(* RuntimeError (include/mercury/error.h): a code, a message, a hint and a *)
(* stack of lines, passed by reference through the calls of the library,   *)
(* copied, moved and merged.  Every call of set records an error of its    *)
(* own: its code and its message stand for that error here.                *)
(***************************************************************************)
EXTENDS Integers, SequencesExt

CONSTANTS
    Obj,         \* RuntimeError objects
    Hints,       \* hints given to set
    Null,        \* no hint given to set
    Empty,       \* an empty string
    MaxErrors,   \* bound: calls of set
    MaxStack,    \* bound: lines on one stack
    Uses         \* calls programs make beyond the usual ones

(***************************************************************************)
(* Uses: "mergeClean" merges an object that holds no error.                *)
(***************************************************************************)
ASSUME ErrorAssumption ==
    /\ MaxErrors \in Nat /\ MaxStack \in Nat
    /\ {Null, Empty} \cap Hints = {} /\ Null # Empty
    /\ Empty \notin 1..MaxErrors
    /\ Uses \subseteq {"mergeClean"}

VARIABLES
    m_code, m_message,   \* of each object; 0 and Empty if it has none
    m_hint, m_stack,
    count,               \* errors recorded so far: they are 1..count
    dropped              \* errors on a stack that was cleared or overwritten

vars == <<m_code, m_message, m_hint, m_stack, count, dropped>>

Line(hint, error) == <<hint, error>>
PushLine          == <<Empty, Empty>>
OnStack(stack)    == {line[2] : line \in ToSet(stack)} \ {Empty}

TypeOK ==
    LET Lines == (Hints \cup {Empty}) \X (1..MaxErrors \cup {Empty}) IN
    /\ m_code \in [Obj -> 0..MaxErrors]
    /\ m_message \in [Obj -> 1..MaxErrors \cup {Empty}]
    /\ m_hint \in [Obj -> Hints \cup {Empty}]
    /\ m_stack \in [Obj -> Seq(Lines)]
    /\ \A o \in Obj : Len(m_stack[o]) <= MaxStack
    /\ count \in 0..MaxErrors /\ dropped \subseteq 1..count

Init ==
    /\ m_code = [o \in Obj |-> 0]
    /\ m_message = [o \in Obj |-> Empty]
    /\ m_hint = [o \in Obj |-> Empty]
    /\ m_stack = [o \in Obj |-> <<>>]
    /\ count = 0 /\ dropped = {}

-----------------------------------------------------------------------------
\* Without a hint the one of the call before stays, and goes into the line.
HintAfterSet(o, hint) == IF hint = Null THEN m_hint[o] ELSE hint

set(o, hint) ==
    /\ count < MaxErrors /\ Len(m_stack[o]) < MaxStack
    /\ count' = count + 1
    /\ m_code' = [m_code EXCEPT ![o] = count + 1]
    /\ m_message' = [m_message EXCEPT ![o] = count + 1]
    /\ m_hint' = [m_hint EXCEPT ![o] = HintAfterSet(o, hint)]
    /\ m_stack' = [m_stack EXCEPT ![o] =
                      Append(@, Line(m_hint'[o], count + 1))]
    /\ UNCHANGED dropped

push(o) ==
    /\ Len(m_stack[o]) < MaxStack
    /\ m_stack' = [m_stack EXCEPT ![o] = Append(@, PushLine)]
    /\ UNCHANGED <<m_code, m_message, m_hint, count, dropped>>

\* merge that takes the stack of p instead of its own.
Spliced_Replace(o, p) == m_stack[p]

Spliced(o, p) == m_stack[p] \o m_stack[o]

\* merge that resets the code of p before it takes it.
CodeAfterMerge_Swapped(o, p) == [m_code EXCEPT ![o] = 0, ![p] = 0]

CodeAfterMerge(o, p) == [m_code EXCEPT ![o] = m_code[p], ![p] = 0]

merge(o, p) ==
    /\ o # p
    /\ m_code[p] = 0 => "mergeClean" \in Uses
    /\ Len(Spliced(o, p)) <= MaxStack
    /\ m_code' = CodeAfterMerge(o, p)
    /\ m_message' = [m_message EXCEPT ![o] = m_message[p], ![p] = Empty]
    /\ m_hint' = [m_hint EXCEPT ![o] = m_hint[p], ![p] = Empty]
    /\ m_stack' = [m_stack EXCEPT ![o] = Spliced(o, p), ![p] = <<>>]
    /\ UNCHANGED <<count, dropped>>

\* What the stack of o held is given up by the program.
Drop(o) == dropped' = dropped \cup OnStack(m_stack[o])

\* clear, and a new object where o was.
clear(o) ==
    /\ m_code' = [m_code EXCEPT ![o] = 0]
    /\ m_message' = [m_message EXCEPT ![o] = Empty]
    /\ m_hint' = [m_hint EXCEPT ![o] = Empty]
    /\ m_stack' = [m_stack EXCEPT ![o] = <<>>]
    /\ Drop(o)
    /\ UNCHANGED count

\* The copies: constructed in the place of o, or assigned to it.
Copy(o, p) ==
    /\ o # p
    /\ m_code' = [m_code EXCEPT ![o] = m_code[p]]
    /\ m_message' = [m_message EXCEPT ![o] = m_message[p]]
    /\ m_hint' = [m_hint EXCEPT ![o] = m_hint[p]]
    /\ m_stack' = [m_stack EXCEPT ![o] = m_stack[p]]
    /\ Drop(o)
    /\ UNCHANGED count

\* The moves without the reset of the code they move from.
CodeAfterMove_Kept(o, p) == [m_code EXCEPT ![o] = m_code[p]]

CodeAfterMove(o, p) == [m_code EXCEPT ![o] = m_code[p], ![p] = 0]

\* The moves.  A string or a list that was moved from is empty.
Move(o, p) ==
    /\ o # p
    /\ m_code' = CodeAfterMove(o, p)
    /\ m_message' = [m_message EXCEPT ![o] = m_message[p], ![p] = Empty]
    /\ m_hint' = [m_hint EXCEPT ![o] = m_hint[p], ![p] = Empty]
    /\ m_stack' = [m_stack EXCEPT ![o] = m_stack[p], ![p] = <<>>]
    /\ Drop(o)
    /\ UNCHANGED count

Next ==
    \/ \E o \in Obj, hint \in Hints \cup {Null} : set(o, hint)
    \/ \E o \in Obj : push(o)
    \/ \E o \in Obj : clear(o)
    \/ \E o, p \in Obj : merge(o, p)
    \/ \E o, p \in Obj : Copy(o, p)
    \/ \E o, p \in Obj : Move(o, p)

Spec == Init /\ [][Next]_vars

-----------------------------------------------------------------------------
(***************************************************************************)
(* Properties.                                                             *)
(***************************************************************************)

(***************************************************************************)
(* The code, message and hint an object reports are those of one error,    *)
(* and of one whose line, with that hint before it, is on its stack,       *)
(* whatever was merged, copied, moved and recorded without a hint.         *)
(***************************************************************************)
ReportsOneError ==
    \A o \in Obj : m_code[o] # 0 =>
        /\ m_message[o] = m_code[o]
        /\ Line(m_hint[o], m_message[o]) \in ToSet(m_stack[o])

(***************************************************************************)
(* An object with an error on its stack says so (operator bool), as long   *)
(* as only objects that hold an error are merged: a clean one would set    *)
(* the code to 0 and leave the errors on the stack.                        *)
(***************************************************************************)
ErrorsAreReported ==
    \A o \in Obj : OnStack(m_stack[o]) # {} => m_code[o] # 0

(***************************************************************************)
(* No error is lost: each is on the stack of some object until the program *)
(* clears or overwrites an object with it on its stack.                    *)
(***************************************************************************)
NoErrorLost ==
    \A error \in 1..count :
        error \in dropped \/ \E o \in Obj : error \in OnStack(m_stack[o])

=============================================================================
