---------------------------- MODULE MCToolchain -----------------------------
(* Command lines, the files that are there before, and short programs.     *)
EXTENDS MCAssembler, ToolchainProperties

Src    == <<"dir", "/", "f", ".", "s">>
OldObj == <<"dir", "/", "f", ".", "o">>
NoExt  == <<"d", ".", "x", "/", "f">>
Named  == <<"out">>
Elf64  == <<"e">>
Gone   == <<"none">>
Riscvass == <<"riscvass">>

MCCommandLines ==
    {<<Riscvass>>, <<Riscvass, Gone>>, <<Riscvass, Src>>, <<Riscvass, NoExt>>,
     <<Riscvass, Src, <<"-o">> >>, <<Riscvass, Src, <<"-o">>, Named>>,
     <<Riscvass, Src, NoExt, Src>>}

(* Sources are text of any length.  The object of an earlier call is       *)
(* longer than the new one; the dump tool does not read a 64-bit one.      *)
Filled(n, c) == [k \in 1..n |-> c]
MCFiles ==
    (Src :> Filled(60, 35)) @@ (NoExt :> Filled(9, 35))
      @@ (OldObj :> serialize(Filled(40, {}), <<>>, <<0>>, <<NullSymbol>>, [text |-> 160, data |-> 0]))
      @@ (Elf64 :> ELFMAG \o <<2>> \o Filled(59, 0))

(* One byte, part of the section headers, all of them, nearly everything   *)
(* and everything.                                                         *)
MCLost == {1, 200, 240, 300, 100000}

ToolInsns == {MvInsn, Beq("b"), Insn("I", "ADDI", 2, 3, 100000, "a")}
ToolValues == {<<34, 200, 34>>}
=============================================================================
