------------------------------- MODULE Session ------------------------------
(***************************************************************************)
(* Sessions (src/src/session/session.c): two ends that are given a local   *)
(* and a remote description, negotiate payload types from them and start   *)
(* a media engine.  The application carries the descriptions; it may give  *)
(* any, in any order, again, or ones that do not parse.                    *)
(*                                                                         *)
(* A description is a sequence of the lines that matter to a session: one  *)
(* that begins a section, one that maps a payload type to a codec, and one *)
(* at which mezia_sdp_parse gives up.  All calls on a session are made by  *)
(* one thread of the application.                                          *)
(***************************************************************************)
EXTENDS Naturals, Sequences

CONSTANTS
  Ends,    \* the sessions
  Texts,   \* descriptions the application may give
  Offers,  \* Offers[e][kind]: the session is created to offer that kind
  None     \* no media engine

Kinds == {"audio", "video"}

Types == 0 .. 127
Codecs == {"opus", "H264", "other"}

Lines == [type : {"m"}, kind : Kinds \cup {"application"}]
         \cup [type : {"rtpmap"}, pt : Types, codec : Codecs]
         \cup [type : {"bad"}]

ASSUME SessionAssumption ==
  /\ Offers \in [Ends -> [Kinds -> BOOLEAN]]
  /\ \A e \in Ends : \E kind \in Kinds : Offers[e][kind]
  /\ Texts \subseteq Seq(Lines)
  /\ None \notin [Kinds -> Types]

VARIABLES
  open,                      \* the session exists
  local, remote,             \* mezia_sdp_t, as the parser left it
  have_local, have_remote,
  media,                     \* the engine's payload types, 0 for a kind it
                             \* was created without
  starting, started          \* inside mezia_session_start; it succeeded

descriptions == <<local, remote, have_local, have_remote>>
sessionVars == <<open, descriptions, media, starting, started>>

-----------------------------------------------------------------------------
(* mezia_sdp_parse                                                         *)

Blank == [present |-> FALSE, payload_type |-> 0, codec |-> "none"]

EmptySdp == [audio |-> Blank, video |-> Blank, section |-> "none",
             failed |-> FALSE]

BeginSection(sdp, kind) ==
  IF kind \in Kinds
  THEN [sdp EXCEPT !.section = kind, ![kind].present = TRUE]
  ELSE [sdp EXCEPT !.section = "none"]

\* parse_rtpmap: the last line of a section counts; none counts outside one
MapCodec(sdp, line) ==
  IF sdp.section \in Kinds
  THEN [sdp EXCEPT ![sdp.section].payload_type = line.pt,
                   ![sdp.section].codec = line.codec]
  ELSE sdp

ParseLine(sdp, line) ==
  IF sdp.failed THEN sdp
  ELSE CASE line.type = "m"      -> BeginSection(sdp, line.kind)
         [] line.type = "rtpmap" -> MapCodec(sdp, line)
         [] line.type = "bad"    -> [sdp EXCEPT !.failed = TRUE]

Parse(text) ==
  LET after[i \in 0 .. Len(text)] ==
        IF i = 0 THEN EmptySdp ELSE ParseLine(after[i - 1], text[i])
  IN  after[Len(text)]

Accepted(sdp) == ~ sdp.failed /\ \E kind \in Kinds : sdp[kind].present

\* what is left in the session, also by a parse that failed
Description(sdp) == [kind \in Kinds |-> sdp[kind]]

-----------------------------------------------------------------------------
SessionInit ==
  /\ open = [e \in Ends |-> TRUE]
  /\ local = [e \in Ends |-> Description(EmptySdp)]
  /\ remote = [e \in Ends |-> Description(EmptySdp)]
  /\ have_local = [e \in Ends |-> FALSE]
  /\ have_remote = [e \in Ends |-> FALSE]
  /\ media = [e \in Ends |-> None]
  /\ starting = [e \in Ends |-> FALSE]
  /\ started = [e \in Ends |-> FALSE]

(* Start is two steps, create and start of the engine; nothing else is     *)
(* done with the session in between.                                       *)
Idle(e) == open[e] /\ ~ starting[e]

SetLocal(e) ==
  /\ Idle(e) /\ ~ started[e]
  /\ \E text \in Texts :
       /\ local' = [local EXCEPT ![e] = Description(Parse(text))]
       /\ have_local' = [have_local EXCEPT ![e] = @ \/ Accepted(Parse(text))]
  /\ UNCHANGED <<open, remote, have_remote, media, starting, started>>

SetRemote(e) ==
  /\ Idle(e) /\ ~ started[e]
  /\ \E text \in Texts :
       /\ remote' = [remote EXCEPT ![e] = Description(Parse(text))]
       /\ have_remote' = [have_remote EXCEPT ![e] = @ \/ Accepted(Parse(text))]
  /\ UNCHANGED <<open, local, have_local, media, starting, started>>

-----------------------------------------------------------------------------
(* mezia_session_start                                                     *)

Default == [audio |-> 111, video |-> 102]

\* negotiated_pt: the remote's, else the local's, else the default
NegotiatedPt_NotLocal(e, kind) ==
  LET theirs == remote[e][kind].payload_type
  IN  IF theirs # 0 THEN theirs ELSE Default[kind]
NegotiatedPt(e, kind) ==
  LET theirs == remote[e][kind].payload_type
      ours == local[e][kind].payload_type
  IN  IF theirs # 0 THEN theirs ELSE IF ours # 0 THEN ours ELSE Default[kind]

Wanted(e, kind) ==
  Offers[e][kind] /\ local[e][kind].present /\ remote[e][kind].present

Negotiated(e) ==
  [kind \in Kinds |-> IF Wanted(e, kind) THEN NegotiatedPt(e, kind) ELSE 0]

\* mezia_create refuses one payload type for two kinds.  It may also fail
\* for lack of memory; all these failures leave the session as it was.
CreateMedia(e) ==
  /\ Idle(e) /\ ~ started[e]
  /\ have_local[e] /\ have_remote[e]
  /\ \E kind \in Kinds : Wanted(e, kind)
  /\ Negotiated(e).audio # Negotiated(e).video
  /\ media' = [media EXCEPT ![e] = Negotiated(e)]
  /\ starting' = [starting EXCEPT ![e] = TRUE]
  /\ UNCHANGED <<open, descriptions, started>>

MediaStarts(e) == /\ started' = [started EXCEPT ![e] = TRUE]
                  /\ UNCHANGED media

MediaFails_NotDestroyed(e) == UNCHANGED <<media, started>>
MediaFails(e) == /\ media' = [media EXCEPT ![e] = None]
                 /\ UNCHANGED started

StartMedia(e) ==
  /\ starting[e]
  /\ starting' = [starting EXCEPT ![e] = FALSE]
  /\ MediaStarts(e) \/ MediaFails(e)
  /\ UNCHANGED <<open, descriptions>>

\* mezia_destroy stops the engine; the session is freed.
Close(e) ==
  /\ Idle(e)
  /\ open' = [open EXCEPT ![e] = FALSE]
  /\ media' = [media EXCEPT ![e] = None]
  /\ started' = [started EXCEPT ![e] = FALSE]
  /\ UNCHANGED <<descriptions, starting>>

SessionNext ==
  \E e \in Ends : \/ SetLocal(e) \/ SetRemote(e)
                  \/ CreateMedia(e) \/ StartMedia(e)
                  \/ Close(e)

SessionSpec == SessionInit /\ [][SessionNext]_sessionVars

-----------------------------------------------------------------------------
(* media_packet: where an engine takes a packet of payload type pt         *)

CONTROL == 98

Dispatch(engine, pt) ==
  IF engine.audio # 0 /\ pt = CONTROL THEN "control"
  ELSE IF engine.audio # 0 /\ pt = engine.audio THEN "audio"
  ELSE IF engine.video # 0 /\ pt = engine.video THEN "video"
  ELSE "dropped"
-----------------------------------------------------------------------------
(* Properties                                                              *)

SdpMedia == [present : BOOLEAN, payload_type : Types,
             codec : Codecs \cup {"none"}]
Sdp == [Kinds -> SdpMedia]

(* Every variable has its type.  Exactly a session that starts or runs has *)
(* an engine: however often start fails and is tried again, with other     *)
(* descriptions or the same, none is left over.                            *)
SessionTypeOK ==
  /\ {open, starting, started} \subseteq [Ends -> BOOLEAN]
  /\ local \in [Ends -> Sdp] /\ remote \in [Ends -> Sdp]
  /\ have_local \in [Ends -> BOOLEAN] /\ have_remote \in [Ends -> BOOLEAN]
  /\ media \in [Ends -> [Kinds -> Types] \cup {None}]
  /\ \A e \in Ends : /\ media[e] # None <=> starting[e] \/ started[e]
                     /\ media[e] # None => open[e]

(* Ends that were each given what the other was, and run, use the same     *)
(* payload types; packets of a kind both offer reach the handler of that   *)
(* kind.  The descriptions must agree on a type or leave it out: each end  *)
(* takes the other's, so that if they differ neither hears anything.       *)
Exchanged(e, o) == local[e] = remote[o] /\ remote[e] = local[o]

SameType(e, kind) ==
  \/ local[e][kind].payload_type = remote[e][kind].payload_type
  \/ 0 \in {local[e][kind].payload_type, remote[e][kind].payload_type}

Audible(e, o, kind) ==
  /\ Offers[e][kind] /\ Offers[o][kind]
  /\ media[e][kind] \notin {0, CONTROL}
  /\ SameType(e, kind)

EndsHear ==
  \A e, o \in Ends :
    e # o /\ started[e] /\ started[o] /\ Exchanged(e, o) =>
      \A kind \in Kinds :
        Audible(e, o, kind) => Dispatch(media[o], media[e][kind]) = kind
=============================================================================
