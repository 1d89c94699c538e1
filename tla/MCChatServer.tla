---------------------------- MODULE MCChatServer ----------------------------
(* Values of the constants of ChatServer for TLC. *)
EXTENDS ChatServer, TLC

GroupCommands == {FRIENDS, ADD, _2FRIENDS}
FriendLists == {<<1>>}
PlainCommands == {_2ALL, _2ONE, DEL}   \* LIST and ECHO are 2ALL with nobody else there

Symmetry == Permutations(Client)
=============================================================================
