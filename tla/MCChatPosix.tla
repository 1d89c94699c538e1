---------------------------- MODULE MCChatPosix -----------------------------
(* Values of the constants of ChatPosix for TLC. *)
EXTENDS ChatPosix, TLC

(* Of a single command, ADD does what FRIENDS does, 2ALL what 2ONE does,  *)
(* and LIST and ECHO what DEL does to a group that is empty.               *)
SomeCommands == {FRIENDS, DEL, _2FRIENDS, _2ONE}
FriendLists == {<<1>>}

Symmetry == Permutations(Client)
=============================================================================
