---------------------------- MODULE MCOsCommand ----------------------------
(***************************************************************************)
(* OsCommand with command strings that print nothing, one buffer full,     *)
(* a NUL in between, that fail to start, and that never end; payloads      *)
(* come with a terminator, without one, and too long for the array.        *)
(***************************************************************************)
EXTENDS OsCommand
CONSTANTS a, b, nul
MCPayload == {<<nul>>, <<a, nul>>, <<b, nul>>, <<b, b>>, <<b, a, nul>>, <<a, b, a>>, <<a, a, a, a>>}
MCHangs == {<<b, a>>}
MCOutput(s) ==
    CASE s = <<a>> -> <<a, b, b>>
      [] s = <<b, b>> -> <<b, nul, a>>
      [] s = <<b, a>> -> <<a, a>>
      [] s = <<a, b, a>> -> <<>>
      [] OTHER -> Failed
=============================================================================
