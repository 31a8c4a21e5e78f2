-------------------------- MODULE MCConfiguration --------------------------
(* Configuration on a small instance.                                      *)
EXTENDS Configuration, TLC

CONSTANTS s1, s2, c1, p1, p2

MCAdapters == {<<"gs_usb", "0">>, <<"slcan", "tty">>, <<"systec", "0">>}
MCDetected == {<<"jlink", {"S1"}>>, <<"jlink", {"S2"}>>, <<"stlink", {}>>}

Given1 == {<<"--serial-port", <<<<"port", "tty">>>>>>,
           <<"--can-interface", <<<<"interface", "slcan">>, <<"channel", "tty">>>>>>,
           <<"--probe", <<<<"kind", "stlink">>, <<"rtt", 19021>>>>>>,
           <<"--probe", <<<<"kind", "jlink">>, <<"device", "tm4c">>, <<"rtt", 2333>>>>>>,
           <<"--probe", <<<<"kind", "stlink">>, <<"ap", 256>>>>>>}
Added == ({"--add-serial"} \X {<<<<"port", "tty">>>> \o x : x \in
             {<<>>, <<<<"tcp", 0>>>>, <<<<"tcp", 5002>>>>, <<<<"baud", -1>>>>, <<<<"typo", 1>>>>,
              <<<<"tcp", 5002>>, <<"tcp", 5003>>>>}})
    \union ({"--add-can"} \X {<<<<"interface", "slcan">>>>, <<<<"interface", "candle">>, <<"tcp", 5002>>>>, <<<<"interface", "gs_usb">>>>,
                              <<<<"interface", "gs_usb">>, <<"channel", "0">>, <<"tcp", 5002>>>>,
                              <<<<"interface", "slcan">>, <<"channel", "tty">>, <<"tty-baud", 0>>>>})
    \union ({"--add-probe"} \X {<<<<"kind", k>>, <<"device", "d">>>> \o x : k \in ProbeKinds, x \in
             {<<>>, <<<<"gdb", 0>>>>, <<<<"board", "b">>>>, <<<<"telnet", 5000>>>>, <<<<"ap", 1>>>>,
              <<<<"rtt", 5001>>>>, <<<<"gdb", 2333>>>>}})
MCCommandLines == {<<a>> : a \in Added} \union (Given1 \X Added) \union (Added \X Added)

Symmetry == Permutations(SerialRows) \union Permutations(ProbeRows)
=============================================================================
