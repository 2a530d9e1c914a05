---------------------------- MODULE MCNotesIndex ----------------------------
(* One note at a depth that is listed, one deeper than any that is.        *)
EXTENDS NotesIndex

MCFiles == {<<"notes", "bsp", "uboot">>, <<"notes", "subsystems", "networking", "dsa", "tagging">>,
            <<"cases-study", "nxp", "boot">>}
=============================================================================
