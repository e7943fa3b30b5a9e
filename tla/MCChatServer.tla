---------------------------- MODULE MCChatServer ----------------------------
(* Three connections: c1's peer sends an empty and a one-byte message, so   *)
(* one read can hold both frames and a header can be split; c2's peer      *)
(* sends one message, so two broadcasts can hold snapshots of different    *)
(* versions of the set; c3 only connects and disconnects.                   *)
EXTENDS ChatServer

CONSTANTS c1, c2, c3

MCConns == {c1, c2, c3}

MCTalk == (c1 :> << <<>>, <<7>> >>) @@ (c2 :> << <<7>> >>) @@ (c3 :> <<>>)

=============================================================================
