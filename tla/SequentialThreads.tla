-------------------------- MODULE SequentialThreads --------------------------
(***************************************************************************)
(* What protothreads promise the sketch ("a blocking context ... without   *)
(* the overhead of per-thread stacks"): every event is a sequential        *)
(* program with a call stack of its own.  It does one statement after the  *)
(* other, once; a spawned block runs from its first statement to its last  *)
(* before the statement after the spawn.                                   *)
(***************************************************************************)
EXTENDS Sequences, Naturals

CONSTANTS Events, Code   \* Code[f]: the statements of event or block f

VARIABLE calls           \* calls[e]: the call stack of event e

Start(f) == [fn |-> f, at |-> 1]

SeqInit == calls = [e \in Events |-> <<Start(e)>>]

Current(s) == s[Len(s)]
Advanced(s) == [s EXCEPT ![Len(s)].at = @ + 1]
More(s) == Current(s).at <= Len(Code[Current(s).fn])
Statement(s) == Code[Current(s).fn][Current(s).at]

Simple(e) ==
    /\ More(calls[e]) /\ Statement(calls[e]).op # "spawn"
    /\ calls' = [calls EXCEPT ![e] = Advanced(@)]

Spawn(e) ==
    /\ More(calls[e]) /\ Statement(calls[e]).op = "spawn"
    /\ calls' = [calls EXCEPT ![e] = Append(@, Start(Statement(@).of))]

\* The block is over: its caller goes on.
BlockReturns(e) ==
    /\ Len(calls[e]) > 1 /\ ~ More(calls[e])
    /\ calls' = [calls EXCEPT ![e] = Advanced(SubSeq(@, 1, Len(@) - 1))]

SeqNext == \E e \in Events : Simple(e) \/ Spawn(e) \/ BlockReturns(e)

SeqSpec == SeqInit /\ [][SeqNext]_calls
=============================================================================
