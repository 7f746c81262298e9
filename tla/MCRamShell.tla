---------------------------- MODULE MCRamShell ------------------------------
(***************************************************************************)
(* Sessions that prompt, forget, reset, save and erase, and one that reads *)
(* the console log while the kernel prints.                                *)
(* The texts make the interesting cases happen: two records with one key,  *)
(* one keyed by its question and one by its answer, a key whose first word *)
(* is repeated, an answer that quotes a legacy record, and answers that    *)
(* quote headers: whole, damaged, of a deletion, and one whose lengths run *)
(* into the next record.                                                   *)
(***************************************************************************)
EXTENDS RamShell

Red == [q |-> <<"codename", "red">>, a |-> <<"ok">>]
Asked == [q |-> <<"what", "?">>, a |-> <<"codename">>]
Secure == [q |-> <<"secure", "secure", "phrase">>, a |-> <<>>]
Quoting == [q |-> <<"hi">>, a |-> <<"so", NL, "Q:", "x", NL, "A:", "y">>]

Marked == [q |-> <<"hi">>, a |-> <<"[RAMQA ?", "[RAMQA 1 1]", "x", NL, "y">>]
Greedy == [q |-> <<"hi">>, a |-> <<"[RAMDEL ?", "[RAMDEL 1]", "codename", NL, "[RAMQA 2 1]">>]

MCHeaderWords ==
    [w \in {"[RAMQA ?", "[RAMQA 1 1]", "[RAMQA 2 1]", "[RAMDEL ?", "[RAMDEL 1]"} |->
        CASE w = "[RAMQA ?" -> RamQa(NoLength, 1)
          [] w = "[RAMQA 1 1]" -> RamQa(1, 1)
          [] w = "[RAMQA 2 1]" -> RamQa(2, 1)
          [] w = "[RAMDEL ?" -> RamDel(NoLength)
          [] w = "[RAMDEL 1]" -> RamDel(1)]

MCPrompts == {Red, Asked, Secure, Quoting, Marked, Greedy}

MCPhrases == { <<"code", "name">>, <<"hi">> }

Memory == {"prompt", "forget", "reset", "exit", "reboot", "erase"}

MCUsers ==
    { [commands |-> Memory, prompts |-> {Red, Asked}, phrases |-> {<<"code", "name">>}],
      [commands |-> Memory, prompts |-> {Red, Quoting}, phrases |-> {<<"hi">>}],
      [commands |-> Memory, prompts |-> {Red, Marked}, phrases |-> {}],
      [commands |-> Memory, prompts |-> {Red, Greedy}, phrases |-> {}],
      [commands |-> Memory, prompts |-> {Secure}, phrases |-> {}],
      [commands |-> {"log"}, prompts |-> {}, phrases |-> {}] }

MCOutputs == { <<1>>, <<0, 1>>, <<1, 0, 1>>, <<0, 1, 1, 0, 1>> }
=============================================================================
