---------------------------- MODULE MCSerialCli ----------------------------
(* Small instances of SerialCli.                                            *)
EXTENDS SerialCli

\* Lines that the branch of another takes first, so that they do nothing.
Shadowed ==
  {<<w, "status">> : w \in {"switch", "relay"}}
    \cup {<<w, "rules", "N">> : w \in {"switch", "relay"}}
    \cup {<<w, "auto", o>> : w \in {"switch", "relay"}, o \in {"on", "off"}}
    \cup {<<"virtual_channel", "show">>}

OtherLines == {h[1] : h \in Help} \ Shadowed
AnyEnding  == Ending
=============================================================================
