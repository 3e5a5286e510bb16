----------------------------- MODULE MCToolchain -----------------------------
(***************************************************************************)
(* Two callers; a compiler that fills a pipe and fails, or that closes a   *)
(* stream and goes on; a program that writes its output.                   *)
(***************************************************************************)
EXTENDS Toolchain

MCCompilerScripts == {<<"err", "err", "fail">>, <<"close out", "ok">>}
MCProgramScripts == {<<"out", "ok">>}
=============================================================================
