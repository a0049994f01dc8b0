----------------------------- MODULE MCSession -----------------------------
(***************************************************************************)
(* Small sessions for TLC: what the terminal can say in each.              *)
(***************************************************************************)
EXTENDS Session

Marker(kind)           == [kind |-> kind]
EndMark(exit)          == [kind |-> "CommandEnd", exit |-> exit]
Row(id, revision, text) == [kind |-> "Line", id |-> id, revision |-> revision, text |-> text]

Prompt == <<"$">>
Dir    == <<"d">>
Out    == <<"o">>

OneLine    == {Dir}
WithABlank == {Dir, Out, <<>>}
NoSetup    == <<>>
SetupIs    == <<"s">>
SetupEchoes == Out        \* one the terminal may echo

\* Two rows: the prompt, the echo and the output, and both revised.
Screen == {Row(1, "Appended", Prompt), Row(1, "Appended", Dir),
           Row(2, "Appended", Out), Row(2, "Rewritten", Dir),
           Row(1, "Settled", Prompt \o Dir)}

\* A row that is still growing when it leaves the screen.
Growing == {Row(1, "Appended", Out), Row(1, "Settled", Out \o Out)}

Marked == {Marker("PromptStart"), Marker("CommandStart"), EndMark(1)}

ShellItems == Screen \cup Marked
=============================================================================
