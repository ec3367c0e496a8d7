----------------------------- MODULE Toolchain ------------------------------
(***************************************************************************)
(* The two programs and the file system: main of riscvass.y around the     *)
(* assembler, the object file that write_elf leaves behind, whole or cut   *)
(* short, and the dump tool that reads it.                                 *)
(***************************************************************************)
EXTENDS Assembler, Dis

CONSTANTS CommandLines,  \* the argument vectors riscvass is called with
          Files,         \* what is there before: a function from paths to bytes
          Lost           \* how many bytes at its end a failed write may lose

(* A path is a sequence of names, "." and "/"; no argument is empty. *)
ASSUME CommandLinesAssumption ==
    CommandLines \subseteq Seq(Seq(STRING) \ {<<>>}) /\ <<>> \notin CommandLines
ASSUME LostAssumption == Lost \subseteq Nat \ {0}

VARIABLES argv,
          out_filename,  \* <<>> until main has set it
          status,        \* of riscvass: "running", then its exit status
          fs,            \* the files: a function from paths to bytes
          dump           \* what the last call of the dump tool printed

command == <<argv, out_filename>>
toolVars == <<command, status, fs, dump>>

-----------------------------------------------------------------------------
(* The command line.                                                       *)

generate_dest_filename_whole(path) ==
    IF SelectLastInSeq(path, LAMBDA c : c = ".") = 0
    THEN path \o <<".", "o">> ELSE path
(* The last dot of the whole path, directories included. *)
generate_dest_filename(path) ==
    LET last_dot == SelectLastInSeq(path, LAMBDA c : c = ".")
    IN  IF last_dot = 0 THEN path \o <<".", "o">>
        ELSE SubSeq(path, 1, last_dot - 1) \o <<".", "o">>

(* argv[1] of the code is argv[2] here. *)
SourceFile == argv[2]

Usage == /\ status = "running" /\ Len(argv) < 2
         /\ status' = "1"
         /\ UNCHANGED <<vars, command, fs, dump>>

CannotOpen == /\ status = "running" /\ Len(argv) >= 2 /\ SourceFile \notin DOMAIN fs
              /\ status' = "255"
              /\ UNCHANGED <<vars, command, fs, dump>>

(* Four arguments name the output whatever the third one is. *)
SetFilenames ==
    /\ status = "running" /\ out_filename = <<>>
    /\ Len(argv) >= 2 /\ SourceFile \in DOMAIN fs
    /\ out_filename' = IF Len(argv) = 4 THEN argv[4] ELSE generate_dest_filename(SourceFile)
    /\ UNCHANGED <<vars, argv, status, fs, dump>>

-----------------------------------------------------------------------------
(* The assembler and its output.                                           *)

Assemble == /\ out_filename # <<>> /\ status = "running"
            /\ ParseStep
            /\ UNCHANGED toolVars

(* Opening the file for writing empties it. *)
Stored_over(bytes) ==
    LET old == IF out_filename \in DOMAIN fs THEN fs[out_filename] ELSE <<>>
    IN  Put(fs, out_filename, bytes \o SubSeq(old, Len(bytes) + 1, Len(old)))
Stored(bytes) == Put(fs, out_filename, bytes)

write_elf ==
    LET stream == serialize(text, data, strtab, symtab, sh_size)
    IN  /\ WriteElf
        /\ \/ file' = "none" /\ UNCHANGED fs
           \/ file' = "complete" /\ fs' = Stored(stream)
           \/ /\ file' = "partial"
              /\ \E n \in Lost : fs' = Stored(SubSeq(stream, 1, Len(stream) - n))
        /\ UNCHANGED <<command, status, dump>>

(* What yyparse returned is ignored; exit_with_message exits with 1. *)
exit_status_parse == IF pc = "done" THEN "0" ELSE "1"
exit_status == IF pc = "exit" THEN "1" ELSE "0"

Return == /\ pc \in Final /\ status = "running"
          /\ status' = exit_status
          /\ UNCHANGED <<vars, command, fs, dump>>

-----------------------------------------------------------------------------
(* tools/dis.cc, which keeps no state: one call, on any of the files, when *)
(* riscvass has ended.                                                     *)
RunDis(args) == /\ status # "running" /\ ~dump.called
                /\ dump' = [called |-> TRUE, args |-> args, printed |-> dis(args, fs)]
                /\ UNCHANGED <<vars, command, status, fs>>

DisArgs == {<<>>} \cup {<<p>> : p \in DOMAIN fs \cup {out_filename}}

Done == dump.called /\ UNCHANGED <<vars, toolVars>>

InitTools ==
    /\ Init
    /\ argv \in CommandLines /\ out_filename = <<>> /\ status = "running"
    /\ fs = Files
    /\ dump = [called |-> FALSE, args |-> <<>>, printed |-> NoDump]

NextTools ==
    \/ Usage \/ CannotOpen \/ SetFilenames
    \/ Assemble \/ write_elf \/ Return
    \/ \E args \in DisArgs : RunDis(args)
    \/ Done

allVars == <<vars, toolVars>>

ToolSpec == InitTools /\ [][NextTools]_allVars
=============================================================================
