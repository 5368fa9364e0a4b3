----------------------------- MODULE AppendLog -----------------------------
(* What the event log promises its callers, whatever they share it with:   *)
(* events are only ever added, and a read that succeeds is the whole log   *)
(* as it stood at one moment between its start and its end.  A read or an  *)
(* append may fail.                                                        *)
EXTENDS Sequences, Naturals

CONSTANTS Handle, Body, Waiting, Failed

VARIABLES
    log,     \* the events, in order
    asked,   \* asked[h]: events there were when h's last read started
    answer   \* answer[h]: what h's last read returned

avars == <<log, asked, answer>>

Init ==
    /\ log = <<>>
    /\ asked = [h \in Handle |-> 0]
    /\ answer = [h \in Handle |-> <<>>]

Add(b) ==
    /\ log' = Append(log, b)
    /\ UNCHANGED <<asked, answer>>

\* A read starts, or is refused at once.
Ask(h) ==
    /\ asked' = [asked EXCEPT ![h] = Len(log)]
    /\ \E a \in {Waiting, Failed} : answer' = [answer EXCEPT ![h] = a]
    /\ UNCHANGED log

Reply(h) ==
    /\ answer[h] = Waiting
    /\ \E n \in asked[h] .. Len(log) :
          answer' = [answer EXCEPT ![h] = SubSeq(log, 1, n)]
    /\ UNCHANGED <<log, asked>>

Fail(h) ==
    /\ answer' = [answer EXCEPT ![h] = Failed]
    /\ UNCHANGED <<log, asked>>

Next ==
    \/ \E b \in Body : Add(b)
    \/ \E h \in Handle : Ask(h) \/ Reply(h) \/ Fail(h)

Spec == Init /\ [][Next]_avars
=============================================================================
