-------------------------- MODULE MCEmbeddedRuntime --------------------------
(* Small instances of EmbeddedRuntime.                                     *)
EXTENDS EmbeddedRuntime, TLC

CONSTANTS a, b, c

(* Of three names two agree in their first eight letters and digits, as    *)
(* those of one deployment's pods do.                                      *)
MCSuffix == a :> "deploy" @@ b :> "deploy" @@ c :> "other"
=============================================================================
