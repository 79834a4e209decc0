---------------------------- MODULE MessageFifo ----------------------------
(* What the message layer of the MySQL protocol promises (the comment at      *)
(* channel.hpp:30): the messages one side writes are the messages the other   *)
(* side gets, whole, once, in the order they were written, until the          *)
(* connection is lost.  MessageChannel is shown to implement this;            *)
(* MysqlClient is written on top of it.                                       *)
EXTENDS Sequences, Naturals

CONSTANT Messages

VARIABLES sent,  \* the messages handed to the writer, in order
          got,   \* the messages the reader handed out, in order
          down   \* the connection is lost

vars == <<sent, got, down>>

Init == /\ sent = <<>>
        /\ got = <<>>
        /\ down = FALSE

Send(m) == /\ sent' = Append(sent, m)
           /\ UNCHANGED <<got, down>>

Receive == /\ Len(got) < Len(sent)
           /\ got' = Append(got, sent[Len(got) + 1])
           /\ UNCHANGED <<sent, down>>

Lose == /\ ~down
        /\ down' = TRUE
        /\ UNCHANGED <<sent, got>>

Next == \/ \E m \in Messages : Send(m)
        \/ Receive
        \/ Lose

\* No message stays in a connection that lasts for ever.
Spec == Init /\ [][Next]_vars /\ WF_vars(~down /\ Receive)
=============================================================================
