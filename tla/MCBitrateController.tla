------------------------- MODULE MCBitrateController ------------------------
(***************************************************************************)
(* The controller under every kind of report: lengths around the 20-packet *)
(* threshold and the 64 packets a report can cover, losses around every    *)
(* threshold of the controller, and two counts it must refuse.             *)
(***************************************************************************)
EXTENDS BitrateController

VARIABLE clean_run  \* history: clean reports in a row that have not raised
                    \* the bitrate yet, to 3

mcVars == <<bitrateVars, clean_run>>

MCReports ==
  {[expected |-> e, received |-> e - l] : e \in {1, 19}, l \in {0, 1}}
  \cup {[expected |-> e, received |-> e - l] :
          e \in {20, 64}, l \in {0, 1, 2, 4, 6, 13, 20}}
  \cup {[expected |-> 0, received |-> 0], [expected |-> 20, received |-> 21]}

\* by more than the rounding of a bitrate that is no whole number of kbit/s
Raised == /\ current_bitrate' > current_bitrate
          /\ current_bitrate' > Rounded(current_bitrate)

RunAfter(expected, received) ==
  IF ~ Valid(expected, received) THEN clean_run
  ELSE IF Lossy(expected, received) THEN 0
  ELSE IF Clean(expected, received) /\ clean_run < 3 THEN clean_run + 1
  ELSE clean_run

MCInit == ControllerInit /\ clean_run = 0

MCNext ==
  \E r \in Reports :
    /\ Update(r.expected, r.received)
    /\ clean_run' = IF Raised THEN 0 ELSE RunAfter(r.expected, r.received)

MCSpec == MCInit /\ [][MCNext]_mcVars

(* The bitrate increases only with the third of three clean reports since  *)
(* the last lossy one and the last increase, and by 2 kbit/s at most.      *)
(* README "Audio profile": the sender increases by 2 kbit/s only after     *)
(* three clean reports.  Rounding aside: a configured bitrate that is no   *)
(* whole number of kbit/s is rounded, up to 500 bit/s upwards, by the      *)
(* next report of any kind.                                                *)
IncreaseAfterThreeClean ==
  [][\A r \in Reports :
       Accept(r.expected, r.received) /\ Raised =>
         /\ RunAfter(r.expected, r.received) = 3
         /\ current_bitrate' <= Rounded(current_bitrate + 2000)]_mcVars
=============================================================================
