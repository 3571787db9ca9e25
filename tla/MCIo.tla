-------------------------------- MODULE MCIo --------------------------------
(***************************************************************************)
(* A poll of the keys, one that enters the configuration mode and one that  *)
(* addresses a memory card, with the hat switch and one button.             *)
(***************************************************************************)
EXTENDS Io

MCPolls == {<<"Select", "Read", "Zero", "Zero", "Zero">>,
            <<"Select", "Config", "Zero", "Zero", "Zero">>,
            <<"Zero", "Zero">>}
=============================================================================
