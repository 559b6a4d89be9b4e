--------------------------- MODULE MCAudioFeedback --------------------------
(***************************************************************************)
(* Reports around the wrap of their numbers, in any order and repeated, of *)
(* light and of heavy loss, one of another stream and one that counts more *)
(* packets received than expected.                                         *)
(***************************************************************************)
EXTENDS AudioFeedback

Counted(seq, lost) == [report_seq |-> seq, media_ssrc |-> 1,
                       expected |-> 20, received |-> 20 - lost]

MCReports ==
  { Counted(65535, 0), Counted(65535, 10), Counted(0, 10),
    [Counted(1, 0) EXCEPT !.media_ssrc = 2], Counted(2, -1) }
=============================================================================
