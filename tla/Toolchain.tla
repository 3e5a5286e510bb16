------------------------------ MODULE Toolchain ------------------------------
(***************************************************************************)
(* CompilerDriver (tooling/v0/Driver.cpp) on top of runProcess: check,     *)
(* extract and emit a program, compile the C++ in a temporary directory,   *)
(* copy the artifact to the requested output, and, for `run`, execute it.  *)
(* Each caller builds once.  A file is two blocks; copy_file truncates and *)
(* then writes them one after the other.                                   *)
(***************************************************************************)
EXTENDS RunProcess

CONSTANTS
    Runner,      \* the callers that may run what they build
    CompilerScripts, ProgramScripts \* what the host compiler and the program may do

ASSUME ToolchainAssumption ==
    /\ "requested" \notin Caller
    /\ \A script \in CompilerScripts \cup ProgramScripts : IsScript(script)

VARIABLES
    step,        \* of each caller: where its build is
    mode,
    artifact,    \* of each caller: what its temporary directory holds: "none", "partial" or "whole"
    file,        \* of each output path: its blocks
    stage,       \* of each caller: the stage it reports, "success" or "none" before
    overlapped   \* history: two copies to the requested output overlapped

buildVars == <<step, mode, artifact, file, stage, overlapped>>
toolVars == <<processVars, buildVars>>

Path == {"requested"} \cup Caller
Old == [builder |-> "old", artifact |-> "whole"]

InitTool ==
    /\ InitProcess
    /\ step = [c \in Caller |-> "start"] /\ mode = [c \in Caller |-> "build"]
    /\ artifact = [c \in Caller |-> "none"]
    /\ file = [p \in Path |-> IF p = "requested" THEN <<Old, Old>> ELSE <<>>]
    /\ stage = [c \in Caller |-> "none"] /\ overlapped = FALSE

Output(c) == IF mode[c] = "build" THEN "requested" ELSE c

\* The build returns; the destructors remove its directories and what is in them.
Finish(c, result) ==
    /\ step' = [step EXCEPT ![c] = "returned"] /\ stage' = [stage EXCEPT ![c] = result]
    /\ artifact' = [artifact EXCEPT ![c] = "none"]

Continue(c, next) == step' = [step EXCEPT ![c] = next] /\ UNCHANGED stage

\* Up to the compiler's process a build touches nothing others see.  runNative makes a
\* directory for its program, buildNative has its output given; the first stage of
\* checkSource or extractNative with a diagnostic ends the build; then compileCpp needs a
\* compiler, contracts that hold, a directory and room for the source.
Begin(c) ==
    /\ step[c] = "start" /\ \E m \in {"build", IF c \in Runner THEN "run" ELSE "build"} :
        /\ mode' = [mode EXCEPT ![c] = m]
        /\ \/ \E failed \in {"diagnosed", "internal-tool"} : Finish(c, failed) /\ UNCHANGED processVars
           \/ /\ Continue(c, "compiling")
              /\ UNCHANGED artifact
              /\ \E script \in CompilerScripts : Call(c, script)
    /\ UNCHANGED <<file, overlapped>>

\* Mutant of ProcessSucceeded: only a launch that failed counts as a failure.
ProcessSucceededIfLaunched(c) == status[c] # "unlaunched"

ProcessSucceeded(c) == status[c] = "ok"

Copying(p) == {c \in Caller : step[c] \in {"copying", "copied"} /\ Output(c) = p}

\* The compiler's status is read; copy_file then truncates the output, unless it has no
\* parent directory or cannot be opened.
CompilerReturns(c) ==
    /\ step[c] = "compiling" /\ pc[c] = "returned"
    /\ \/ /\ ProcessSucceeded(c) /\ Continue(c, "copying")
          /\ file' = [file EXCEPT ![Output(c)] = <<>>]
          /\ overlapped' = (overlapped \/ (Output(c) = "requested" /\ Copying("requested") # {}))
          /\ UNCHANGED artifact
       \/ /\ ProcessSucceeded(c) /\ Finish(c, "internal-tool") /\ UNCHANGED <<file, overlapped>>
       \/ /\ ~ProcessSucceeded(c) /\ Finish(c, "host-compiler") /\ UNCHANGED <<file, overlapped>>
    /\ UNCHANGED <<processVars, mode>>

Block(c) == [builder |-> c, artifact |-> artifact[c]]

Gap == [builder |-> "gap", artifact |-> "partial"]

WriteFirst(c) ==
    /\ step[c] = "copying" /\ Continue(c, "copied")
    /\ file' = [file EXCEPT ![Output(c)] = IF @ = <<>> THEN <<Block(c)>> ELSE [@ EXCEPT ![1] = Block(c)]]
    /\ UNCHANGED <<processVars, mode, artifact, overlapped>>

\* Mutant of CopyStage: the error of copy_file is ignored, as that of permissions is.
CopyStageIgnored(failed) == "success"

CopyStage(failed) == IF failed THEN "output-write" ELSE "success"

\* The copy fails before its first or its second block.
CopyFails(c) ==
    /\ step[c] \in {"copying", "copied"} /\ Finish(c, CopyStage(TRUE))
    /\ UNCHANGED <<processVars, mode, file, overlapped>>

\* The last block; `run` then leaves compileCpp and executes the program.
WriteSecond(c) ==
    /\ step[c] = "copied"
    /\ file' = [file EXCEPT ![Output(c)] = IF @ = <<>> THEN <<Gap, Block(c)>> ELSE <<@[1], Block(c)>>]
    /\ \/ mode[c] = "build" /\ Finish(c, CopyStage(FALSE)) /\ UNCHANGED processVars
       \/ /\ mode[c] = "run" /\ Continue(c, "running")
          /\ artifact' = [artifact EXCEPT ![c] = "none"]
          /\ \E script \in ProgramScripts : Call(c, script)
    /\ UNCHANGED <<mode, overlapped>>

ProgramReturns(c) ==
    /\ step[c] = "running" /\ pc[c] = "returned"
    /\ Finish(c, IF ProcessSucceeded(c) THEN "success" ELSE "artifact-execution")
    /\ file' = [file EXCEPT ![Output(c)] = <<>>]
    /\ UNCHANGED <<processVars, mode, overlapped>>

BuildStep(c) ==
    \/ Begin(c) \/ CompilerReturns(c) \/ WriteFirst(c) \/ CopyFails(c) \/ WriteSecond(c)
    \/ ProgramReturns(c)

\* What a compiler leaves is seen only after its exit: whole, or anything when it failed.
Child(c) ==
    /\ ChildStep(c)
    /\ artifact' = IF step[c] = "compiling" /\ Exits(c)
                   THEN [artifact EXCEPT ![c] = IF todo[c] = <<"ok">> THEN "whole" ELSE "partial"]
                   ELSE artifact
    /\ UNCHANGED <<step, mode, file, stage, overlapped>>

NextTool == \E c \in Caller : (CallStep(c) /\ UNCHANGED buildVars) \/ Child(c) \/ BuildStep(c)

\* Threads are scheduled, children run on.
SpecTool ==
    /\ InitTool /\ [][NextTool]_toolVars
    /\ \A c \in Caller :
        /\ WF_toolVars(CallStep(c) /\ UNCHANGED buildVars)
        /\ WF_toolVars(BuildStep(c)) /\ WF_toolVars(Child(c))

-----------------------------------------------------------------------------
\* Every build returns, though its children inherit the pipes of others, block on full
\* ones and close theirs early.
BuildsReturn == \A c \in Caller : <>(step[c] = "returned")

\* The requested output is made only of artifacts whose compiler succeeded, and it is torn
\* only while a copy is under way, when a copy reported its failure, or when two builds
\* copied to it at once.
OutputIsBuilt ==
    LET blocks == Range(file["requested"]) IN
    /\ \A b \in blocks : b = Gap \/ b.artifact = "whole"
    /\ (Len(file["requested"]) # 2 \/ Cardinality(blocks) # 1) =>
            \/ overlapped \/ Copying("requested") # {}
            \/ \E c \in Caller : stage[c] = "output-write"
=============================================================================
