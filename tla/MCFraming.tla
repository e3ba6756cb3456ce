------------------------------- MODULE MCFraming -------------------------------
(***************************************************************************)
(* Conversations for the model checker.  Bytes are below 5, so a packet    *)
(* has at most 24 of them.                                                 *)
(***************************************************************************)
EXTENDS Conversations

MCAddressControl == <<4, 3>>
MCAccepted       == {<<1>>, <<1, CR, LF, 0>>}
Refusal          == <<0>>

Ppp(full, proto, payload) ==
  [kind |-> "Ppp", full |-> full, proto |-> proto, payload |-> payload]
Ctrl(type, attrs) == [kind |-> "Ctrl", type |-> type, attrs |-> attrs]
Attr(type, data)  == [type |-> type, data |-> data]

MCMessages ==
  {Ppp(TRUE, 8, <<>>), Ppp(TRUE, 23, <<1, 2>>),
   Ppp(FALSE, 8, <<CR, LF, CR, LF>>), Ppp(FALSE, 5, <<>>),
   [kind |-> "TooShort", frame |-> <<3>>],
   Ctrl(2, <<>>), Ctrl(7, <<Attr(4, <<>>)>>), Ctrl(2, <<Attr(4, <<1, 0, 3>>), Attr(2, <<1>>)>>)}

Longer == {Ppp(TRUE, 8, [i \in 1 .. n |-> 1]) : n \in 0 .. 16}    \* up to the longest there is

Unfinished == {SubSeq(EncodeData(<<1, 1, 1, 1>>), 1, n) : n \in {0, 2, 7}}

Refused == {<<0, 0, 0, 4>>,                                \* BadVersion
            <<ProtoVersion, 0, 0, 3>>,                     \* shorter than its header
            <<ProtoVersion, 1, 1, 0, 0>>,                  \* no control header
            <<ProtoVersion, 1, 1, 4, 0, 2, 0, 1, 0>>,      \* no attribute header
            <<ProtoVersion, 1, 2, 2, 0, 2, 0, 1, 0, 1, 0, 3>>,   \* attribute too short
            <<ProtoVersion, 1, 2, 2, 0, 2, 0, 1, 0, 1, 1, 0>>}   \* attribute too long

(* The tails are what they are meant to be. *)
ASSUME TailsAreAsMeant ==
  (\A t \in Unfinished : Incomplete(t)) /\ (\A t \in Refused : Spoilt(t))

Conversation(text, script, tail) == [text |-> text, script |-> script, tail |-> tail]

MCConversations ==
  {Conversation(<<1>>, <<a, b>>, <<>>) : a, b \in MCMessages}
  \cup {Conversation(<<1>>, <<a>>, <<>>) : a \in Longer}
  \cup {Conversation(text, <<a>>, tail) :
          text \in MCAccepted, a \in {Ppp(FALSE, 5, <<>>), Ctrl(2, <<>>)},
          tail \in Unfinished \cup Refused}
  \cup {Conversation(text, <<>>, tail) :
          text \in MCAccepted \cup {Refusal}, tail \in Unfinished \cup Refused}

MCStreams == {Said[c] : c \in Conversations}
===============================================================================
