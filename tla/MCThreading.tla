---------------------------- MODULE MCThreading ----------------------------
(* A list with one reply to a message that is not in it. *)
EXTENDS Threading

MCReply == [id |-> 1, refs |-> <<2>>, replyTo |-> 2, subject |-> "s", reply |-> TRUE]

MCOther == [id : {3}, refs : {<<>>, <<1>>}, replyTo : {None}, subject : {"s", "t"},
            reply : BOOLEAN]

MCLists == {<<MCReply>>} \cup {<<MCReply, m>> : m \in MCOther}
              \cup {<<m, MCReply>> : m \in MCOther}

=============================================================================
