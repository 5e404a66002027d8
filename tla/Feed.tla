-------------------------------- MODULE Feed --------------------------------
(***************************************************************************)
(* What the event feed of a case promises whoever watches it: events are   *)
(* published one after another, and a viewer has always been shown the     *)
(* first few of them, each once and in order ("poll with `?since=` and get *)
(* exactly the events it has not seen", backend/casestore/events.py).      *)
(***************************************************************************)
EXTENDS Naturals, Sequences, SequencesExt

CONSTANT Client   \* the viewers

VARIABLES
  sent,    \* the events, in the order they were published
  shown    \* the events each viewer has been shown

vars == <<sent, shown>>

Init ==
  /\ sent = <<>>
  /\ shown = [c \in Client |-> <<>>]

Publish ==
  /\ Len(sent') = Len(sent) + 1
  /\ IsPrefix(sent, sent')
  /\ Last(sent') \notin ToSet(sent)
  /\ UNCHANGED shown

View(c) ==
  /\ IsPrefix(shown[c], shown'[c])
  /\ IsPrefix(shown'[c], sent)
  /\ shown' = [shown EXCEPT ![c] = shown'[c]]
  /\ UNCHANGED sent

Next == Publish \/ \E c \in Client : View(c)

Spec == Init /\ [][Next]_vars

=============================================================================
