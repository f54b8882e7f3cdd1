------------------------------- MODULE Runner -------------------------------
(***************************************************************************)
(* The command-line program (crates/runner/src/main.rs) around the machine: *)
(* `info`, and `run`, which loads the guest, reads the input, runs it and   *)
(* prints its public output.  The guest is the echo program, as in the      *)
(* README; what the loader makes of a file is in module Loader.             *)
(***************************************************************************)
EXTENDS EchoGuest, SequencesExt

CONSTANTS
    Chunk,      \* bytes in a line of output: 32
    Inputs,     \* what files and the standard input may hold
    Stdin       \* what the standard input holds

\* The command line and what it names: a guest file that can be loaded or
\* not; an input that is left out, "-", or a file, which may be missing.
Arguments ==
    [cmd : {"run", "info"}, elf : {"good", "unreadable", "rejected"},
     input : {"none", "-", "file", "missing"}, hex : BOOLEAN, file : Inputs]

ASSUME RunnerAssumption ==
    /\ Chunk \in Nat \ {0}
    /\ Inputs \subseteq Seq(Byte) /\ Stdin \in Inputs

VARIABLES
    args,
    stage,      \* "load", "input", "run", "print", "exit"
    printed,    \* the lines on the standard output
    status      \* of the process

runnerVars == <<vars, args, stage, printed, status>>

Exit(code) == stage' = "exit" /\ status' = code

\* fs::read, then load_rv32_elf; `info` prints its summary and is done.
LoadElf ==
    /\ stage = "load"
    /\ IF args.elf # "good" THEN Exit(1) /\ UNCHANGED printed
       ELSE IF args.cmd = "info" THEN Exit(0) /\ printed' = << "summary" >>
       ELSE stage' = "input" /\ UNCHANGED <<printed, status>>
    /\ UNCHANGED <<vars, args>>

input_bytes ==
    CASE args.input = "none" -> <<>>
      [] args.input = "-"    -> Stdin
      [] args.input = "file" -> args.file

\* PrecompileHandler::new queues the bytes as one entry, empty or not.
ReadInput ==
    /\ stage = "input"
    /\ IF args.input = "missing" THEN Exit(1) /\ UNCHANGED io
       ELSE /\ io' = with_input_streams(<< input_bytes >>)
            /\ stage' = "run" /\ UNCHANGED status
    /\ UNCHANGED <<cpuVars, args, printed>>

Interpret ==
    /\ stage = "run"
    /\ Next
    /\ UNCHANGED <<args, stage, printed, status>>

\* Mutant of Returned: the process waits for a guest that has failed.
Returned_ok_only ==
    /\ stage = "run" /\ result.kind = "ok"
    /\ stage' = "print"
    /\ UNCHANGED <<vars, args, printed, status>>

\* run has returned: its error ends the process; the exit code of the guest
\* is logged and does not become that of the process.
Returned ==
    /\ stage = "run" /\ ~Running
    /\ IF result.kind = "ok" THEN stage' = "print" /\ UNCHANGED status ELSE Exit(1)
    /\ UNCHANGED <<vars, args, printed>>

remaining == SubSeq(io.output, Chunk * Len(printed) + 1, Len(io.output))

PrintHex ==
    /\ stage = "print" /\ args.hex
    /\ printed' = << io.output >>
    /\ Exit(0)
    /\ UNCHANGED <<vars, args>>

\* Mutant of PrintChunk: chunks_exact for chunks; a last short one is lost.
PrintChunk_exact ==
    /\ stage = "print" /\ ~args.hex
    /\ IF Len(remaining) < Chunk THEN Exit(0) /\ UNCHANGED printed
       ELSE /\ printed' = Append(printed, SubSeq(remaining, 1, Chunk))
            /\ UNCHANGED <<stage, status>>
    /\ UNCHANGED <<vars, args>>

PrintChunk ==
    /\ stage = "print" /\ ~args.hex
    /\ IF remaining = <<>> THEN Exit(0) /\ UNCHANGED printed
       ELSE /\ printed' = Append(printed,
                 SubSeq(remaining, 1, IF Len(remaining) < Chunk THEN Len(remaining) ELSE Chunk))
            /\ UNCHANGED <<stage, status>>
    /\ UNCHANGED <<vars, args>>

RunnerInit ==
    /\ CpuInit
    /\ io = with_input_streams(<<>>)
    /\ args \in Arguments
    /\ stage = "load" /\ printed = <<>> /\ status = 0

RunnerNext == LoadElf \/ ReadInput \/ Interpret \/ Returned \/ PrintHex \/ PrintChunk

\* One process, one thread.
RunnerSpec == RunnerInit /\ [][RunnerNext]_runnerVars /\ WF_runnerVars(RunnerNext)

-----------------------------------------------------------------------------
\* The whole way from the command line to the terminal: `run` succeeds exactly
\* when the files can be read and the guest terminates, and it has then
\* printed what the guest revealed, every byte once and in order, which is
\* what the echo guest makes of the input; when it fails it has printed
\* nothing, even where the guest has revealed bytes already.  Which input "-"
\* names is left open: of it the help text (main.rs:32-33, the empty one) and
\* read_input (the standard input) disagree.
EchoPrinted ==
    stage = "exit" /\ args.cmd = "run"
      => IF status = 0
         THEN /\ args.elf = "good" /\ args.input # "missing" /\ result.kind = "ok"
              /\ FlattenSeq(printed) = io.output
              /\ args.input # "-"
                   => io.output = [i \in 1 .. Echoed |->
                                      IF i <= Len(input_bytes) THEN input_bytes[i] ELSE 0]
         ELSE printed = <<>> /\ result.kind # "ok"

\* The process ends, whatever the files and the guest do.
Exits == <>(stage = "exit")
=============================================================================
