------------------------------ MODULE MCSession -----------------------------
(***************************************************************************)
(* Two ends, of which the second offers audio only, and the descriptions:  *)
(* what each would offer, an answer of another make with other types, one  *)
(* that leaves the types out, one with the type of control packets, one    *)
(* type for both kinds, one that fails to parse after its first section,   *)
(* and one that also maps retransmissions, whose type the code then uses.  *)
(***************************************************************************)
EXTENDS Session

CONSTANTS a, b

Section(kind) == [type |-> "m", kind |-> kind]
RtpMap(pt, codec) == [type |-> "rtpmap", pt |-> pt, codec |-> codec]

Both(audio_pt, video_pt) ==
  << Section("audio"), RtpMap(audio_pt, "opus"),
     Section("video"), RtpMap(video_pt, "H264") >>
AudioOnly == << Section("audio"), RtpMap(111, "opus") >>
NoTypes == << Section("audio"), Section("video") >>
Partial == << Section("audio"), RtpMap(109, "opus"), [type |-> "bad"],
              Section("video") >>
Rtx == << Section("audio"), RtpMap(111, "opus"), Section("application"),
          RtpMap(5, "other"), Section("video"), RtpMap(102, "H264"),
          RtpMap(103, "other") >>

MCEnds == {a, b}
MCOffers == [e \in MCEnds |-> [audio |-> TRUE, video |-> e = a]]
MCTexts ==
  {Both(111, 102), Both(109, 102), Both(102, 102), Both(111, 98),
   AudioOnly, NoTypes, Partial, Rtx}
=============================================================================
