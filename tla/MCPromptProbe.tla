---------------------------- MODULE MCPromptProbe ----------------------------
(* Two goroutines on one host, the shell of the first of which is probed.   *)
(* It answers with a coloured prompt, with a prompt in the middle of text,  *)
(* or with an escape sequence that the next output completes.               *)
EXTENDS PromptProbe

MCOutput == {<<"intro", "letter", "prompt", "space">>, <<"prompt", "letter">>, <<"letter", "intro">>}
=============================================================================
