---------------------------- MODULE MCChatServer ----------------------------
(* Small instances of ChatServer.                                           *)
EXTENDS ChatServer

\* The first user is allocated behind the second, the second behind the third...
MCAddress == [u \in 1..MaxUserId |-> -u]
=============================================================================
