---------------------------- MODULE MCMessageText ----------------------------
(***************************************************************************)
(* A few words of each sort: commands, numbers, what only begins like a    *)
(* number, what is none, and one with an apostrophe.                       *)
(***************************************************************************)
EXTENDS MessageText

SomeWords == {"quit", "countdown", "write", "w", "abc", "0", "4", "-2", "4x", "huge", "don't"}

Values == [w \in {"0", "1", "2", "3", "4", "-2", "4x"} |->
             CASE w = "0" -> 0 [] w = "1" -> 1 [] w = "2" -> 2 [] w = "3" -> 3
               [] w \in {"4", "4x"} -> 4 [] w = "-2" -> -2]

SomeNicknames == {<<"amy">>, <<"huge">>, <<"amy", "lee">>, <<"write">>}
=============================================================================
