---------------------------- MODULE MCExecRelay ----------------------------
(* Small instances of ExecRelay.                                           *)
EXTENDS ExecRelay

(* One session of each engine, and a port-forward.                         *)
MCKinds == {Pipes, Tty, Docker, Wasm, Forward}
=============================================================================
